------------------------------ MODULE MTKernel ------------------------------
(***************************************************************************)
(* ch3/t.c and ch3/ts.s: the multitasking system, from the end of init()   *)
(* on.  kfork() means to store the address of body() as the place where    *)
(* the new process starts, but calls body(): its caller runs body() inside *)
(* kfork(), which never gets further, since body() does not return.  So    *)
(* the kforks under way pile up on the stack, innermost last; creating     *)
(* holds the PROC each of them has taken.  A saved stack pointer is the    *)
(* stack at that moment.                                                   *)
(*                                                                         *)
(* All processes run on one processor and nothing preempts them.  Keys     *)
(* other than f, s and q do nothing, and are left out.                     *)
(***************************************************************************)
EXTENDS ReadyQueue

CONSTANT ProcCounts    \* values of NPROC to look at

ASSUME ProcCountsAssumption == ProcCounts \subseteq Nat \ {0}
ASSUME NULLAssumption == NULL \notin Nat /\ NULL \notin Seq(Nat)

VARIABLES
  NPROC,
  next, ppid, status, priority, ksp,     \* the fields of proc[]
  freeList, readyQueue, running,
  creating,                              \* the kforks under way
  at                                     \* the function that is executing

procs == <<next, ppid, status, priority, ksp>>
vars == <<NPROC, procs, freeList, readyQueue, running, creating, at>>

PIDs == 0 .. NPROC - 1

\* Where control is after init(): P0 runs, the others are in freeList.
Init ==
  /\ NPROC \in ProcCounts
  /\ next = [p \in PIDs |-> IF p = NPROC - 1 THEN NULL ELSE p + 1]
  /\ ppid = [p \in PIDs |-> 0]
  /\ status = [p \in PIDs |-> IF p = 0 THEN "READY" ELSE "FREE"]
  /\ priority = [p \in PIDs |-> 0]
  /\ ksp = [p \in PIDs |-> NULL]
  /\ freeList = next[0]
  /\ readyQueue = NULL
  /\ running = 0
  /\ creating = <<>>
  /\ at = "kfork"

\* The function that called kfork or tswitch: main() has one kfork, and the
\* other calls are made by a body() inside some kfork.
Caller == IF creating = <<>> THEN "main" ELSE "body"

-----------------------------------------------------------------------------

KforkFails ==
  /\ at = "kfork" /\ freeList = NULL
  /\ at' = Caller
  /\ UNCHANGED <<NPROC, procs, freeList, readyQueue, running, creating>>

\* slip: the PROC stays in the free list
NotTaken == freeList

Taken == dequeue(freeList, next)

\* kfork up to its call of body().  The lines behind that call, which set ksp
\* and enqueue the new PROC in readyQueue, are not reached.
Kfork ==
  /\ at = "kfork" /\ freeList # NULL
  /\ status' = [status EXCEPT ![freeList] = "READY"]
  /\ priority' = [priority EXCEPT ![freeList] = 1]
  /\ ppid' = [ppid EXCEPT ![freeList] = running]
  /\ freeList' = Taken
  /\ creating' = Append(creating, freeList)
  /\ at' = "body"
  /\ UNCHANGED <<NPROC, next, ksp, readyQueue, running>>

\* body() reads a key: f, s or q.
Getchar ==
  /\ at = "body"
  /\ at' \in {"kfork", "tswitch", "kexit"}
  /\ UNCHANGED <<NPROC, procs, freeList, readyQueue, running, creating>>

Kexit ==
  /\ at = "kexit"
  /\ status' = [status EXCEPT ![running] = "FREE"]
  /\ priority' = [priority EXCEPT ![running] = 0]
  /\ LET e == enqueue(freeList, next, priority', running)
     IN  freeList' = e.list /\ next' = e.next
  /\ at' = "tswitch"
  /\ UNCHANGED <<NPROC, ppid, ksp, readyQueue, running, creating>>

\* slip: the stack pointer is not saved
Unsaved == ksp

Saved == [ksp EXCEPT ![running] = creating]

\* SAVE in tswitch.
Save ==
  /\ at = "tswitch"
  /\ ksp' = Saved
  /\ at' = "scheduler"
  /\ UNCHANGED <<NPROC, next, ppid, status, priority, freeList, readyQueue, running, creating>>

\* slip: a process that is READY is not put back
PutBackNobody == [list |-> readyQueue, next |-> next]

\* readyQueue, and the next fields, with the running process if it is READY.
PutBack ==
  IF status[running] = "READY" THEN enqueue(readyQueue, next, priority, running)
                               ELSE [list |-> readyQueue, next |-> next]

\* The printf behind dequeue() follows running, NULL when the queue was empty.
Scheduler ==
  /\ at = "scheduler"
  /\ next' = PutBack.next
  /\ running' = PutBack.list
  /\ readyQueue' = dequeue(PutBack.list, PutBack.next)
  /\ at' = IF PutBack.list = NULL THEN "crashed" ELSE "resume"
  /\ UNCHANGED <<NPROC, ppid, status, priority, ksp, freeList, creating>>

\* RESUME in tswitch: the stack of the process chosen.
Resume ==
  /\ at = "resume"
  /\ creating' = ksp[running]
  /\ at' = IF creating' = <<>> THEN "main" ELSE "body"
  /\ UNCHANGED <<NPROC, procs, freeList, readyQueue, running>>

\* The loop of main(), reached when its kfork fails.
MainLoop ==
  /\ at = "main"
  /\ at' = IF readyQueue # NULL THEN "tswitch" ELSE "main"
  /\ UNCHANGED <<NPROC, procs, freeList, readyQueue, running, creating>>

Crashed == at = "crashed" /\ UNCHANGED vars

Next ==
  \/ KforkFails \/ Kfork \/ Getchar \/ Kexit
  \/ Save \/ Scheduler \/ Resume \/ MainLoop \/ Crashed

Spec == Init /\ [][Next]_vars

-----------------------------------------------------------------------------
(* Properties.                                                             *)

Free  == ListFrom(freeList, next, NPROC)
Ready == ListFrom(readyQueue, next, NPROC)

\* The values every variable may take.
TypeOK ==
  /\ NPROC \in ProcCounts
  /\ next \in [PIDs -> PIDs \cup {NULL}]
  /\ ppid \in [PIDs -> PIDs]
  /\ status \in [PIDs -> {"FREE", "READY"}]
  /\ priority \in [PIDs -> {0, 1}]
  /\ \A p \in PIDs : ksp[p] # NULL => ksp[p] \in Seq(PIDs)
  /\ freeList \in PIDs \cup {NULL} /\ readyQueue \in PIDs \cup {NULL}
  /\ running \in PIDs \cup {NULL}
  /\ creating \in Seq(PIDs)
  /\ at \in {"main", "body", "kfork", "kexit", "tswitch", "scheduler", "resume", "crashed"}

\* However PROCs go from list to list through their one next field, both lists
\* end, are sorted, hold no PROC twice, and hold FREE and READY ones only.
ListsKept ==
  /\ Distinct(Free \o Ready)
  /\ Sorted(Free, priority) /\ Sorted(Ready, priority)
  /\ \A i \in DOMAIN Free : status[Free[i]] = "FREE"
  /\ \A i \in DOMAIN Ready : status[Ready[i]] = "READY"

\* No PROC is lost and none is used twice: each is in one list, or is running,
\* or is held by one kfork that has not finished with it.
Accounted ==
  /\ Distinct(creating)
  /\ PIDs \subseteq Elements(Free) \cup Elements(Ready) \cup Elements(creating) \cup {running}
  /\ Elements(creating) \cap (Elements(Free) \cup Elements(Ready) \cup {running}) = {}

\* A process that is resumed has saved its stack, with the kforks it was in.
ResumesSaved ==
  at = "resume" => ksp[running] # NULL /\ \A p \in Elements(ksp[running]) : status[p] = "READY"

\* The scheduler is left without a process only after one that has run has
\* exited: switching away from the only process comes back to it.
CrashOnlyByExit ==
  at = "crashed" => \E p \in PIDs : status[p] = "FREE" /\ ksp[p] # NULL

-----------------------------------------------------------------------------
(* What the documentation says and the code does not do.                   *)

\* t.c:16 and 106: when a key is asked for, a process made by kfork is in
\* readyQueue, to be scheduled.
KforkMakesReady ==
  at = "body" => \A p \in PIDs : status[p] = "READY" => p = running \/ p \in Elements(Ready)
=============================================================================
