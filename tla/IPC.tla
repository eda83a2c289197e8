-------------------------------- MODULE IPC --------------------------------
(***************************************************************************)
(* proj3/base.c: a parent that asks the user for a line and a child that   *)
(* answers it in upper case.  The line travels over two pipes; the reader  *)
(* of a pipe is told by a signal that there is something to read, and the  *)
(* parent repeats its signal whenever a virtual interval timer expires     *)
(* before the reply.                                                       *)
(*                                                                         *)
(* Both processes are modelled at the grain at which they can disturb each *)
(* other: a step is a system call, or a run of statements that touch only  *)
(* what no handler of the same process touches.  A signal handler runs on  *)
(* top of what it interrupts until it returns.  signal() keeps the handler *)
(* installed, masks the signal while its handler runs and restarts         *)
(* interrupted reads (the default of the C library the makefile builds     *)
(* against), and a signal that is already pending is not queued twice.     *)
(*                                                                         *)
(* Of a line only its text, whether it was put in upper case and which     *)
(* request it belongs to are kept (module StopAndWait); the time stamps it *)
(* gathers on its way, and the room they take, are not in this module.     *)
(***************************************************************************)
EXTENDS Naturals, Sequences

CONSTANTS Texts,        \* the lines a user may type
          NoText,       \* the empty buffer
          PipeCap,      \* messages of LEN bytes a pipe holds before write blocks
          MaxRequests   \* bound: the user types at most this many lines

ASSUME NoTextAssumption == NoText \notin Texts
ASSUME PipeCapAssumption == PipeCap \in Nat \ {0}
ASSUME MaxRequestsAssumption == MaxRequests \in Nat

VARIABLES
  ppc,           \* where parent() stands
  ctx,           \* what the parent process executes: parent() or a handler
  ph,            \* where phandler stands, "off" when it is not running
  th,            \* timer_handler has been entered and has not yet sent its signal
  usr2,          \* SIGUSR2 is pending for the parent
  rplyRecieved,  \* the flag of that name
  itValue,       \* timer.it_value, in microseconds
  armed,         \* the kernel's ITIMER_VIRTUAL is running
  parentLine,    \* line[] of the parent
  downPipe,      \* written by the parent
  upPipe,        \* written by the child
  cpc,           \* where child() stands
  ch,            \* where chandler stands, "off" when it is not running
  usr1,          \* SIGUSR1 is pending for the child
  alive,         \* the child has not been killed by SIGUSR1
  childLine,     \* line[] of the child
  asked,         \* history: the last line written to downPipe
  reply          \* history: the last reply read from upPipe

mainVars  == <<ppc, parentLine, itValue>>
hdlVars   == <<ctx, ph, th, usr2>>
childVars == <<cpc, ch, alive, childLine>>
pipes     == <<downPipe, upPipe>>
history   == <<asked, reply>>

vars == <<ppc, ctx, ph, th, usr2, rplyRecieved, itValue, armed, parentLine,
          downPipe, upPipe, cpc, ch, usr1, alive, childLine, asked, reply>>

-----------------------------------------------------------------------------
(* Lines                                                                   *)

Line == [text : Texts \cup {NoText}, up : BOOLEAN, ts : Nat]

Empty == [text |-> NoText, up |-> FALSE, ts |-> 0]

ToUpper(line) == [line EXCEPT !.up = TRUE]

Timeout == 100000    \* tv_usec in parent()

-----------------------------------------------------------------------------
(* The state right after fork().                                           *)

Init ==
  /\ ppc = "install" /\ ctx = "main" /\ ph = "off" /\ th = FALSE
  /\ usr2 = FALSE /\ rplyRecieved = 0
  /\ itValue = 0 /\ armed = FALSE
  /\ parentLine = Empty /\ childLine = Empty
  /\ downPipe = <<>> /\ upPipe = <<>>
  /\ cpc = "install" /\ ch = "off" /\ usr1 = FALSE /\ alive = TRUE
  /\ asked = Empty /\ reply = Empty

\* kill(pid, SIGUSR1).  A dead child is never waited for: its zombie accepts
\* the signal and nothing happens.
SignalChild == usr1' = (usr1 \/ alive)

-----------------------------------------------------------------------------
(* parent().  It runs while no handler does.                               *)

At(loc) == ctx = "main" /\ ppc = loc

Install ==
  /\ At("install")
  /\ ppc' = "fgets"
  /\ UNCHANGED <<parentLine, itValue, hdlVars, rplyRecieved, armed, childVars,
                 usr1, pipes, history>>

\* The user may take any time to type, or never type again.
Fgets ==
  /\ At("fgets")
  /\ asked.ts < MaxRequests
  /\ \E t \in Texts : parentLine' = [text |-> t, up |-> FALSE, ts |-> 0]
  /\ ppc' = "compose"
  /\ UNCHANGED <<itValue, hdlVars, rplyRecieved, armed, childVars, usr1, pipes,
                 history>>

\* slip: the flag of the previous exchange is not cleared
ComposeKeepsFlag ==
  /\ At("compose")
  /\ parentLine' = [parentLine EXCEPT !.ts = asked.ts + 1]
  /\ ppc' = "write"
  /\ UNCHANGED <<rplyRecieved, itValue, hdlVars, armed, childVars, usr1, pipes,
                 history>>

Compose ==
  /\ At("compose")
  /\ rplyRecieved' = 0
  /\ parentLine' = [parentLine EXCEPT !.ts = asked.ts + 1]
  /\ ppc' = "write"
  /\ UNCHANGED <<itValue, hdlVars, armed, childVars, usr1, pipes, history>>

Write ==
  /\ At("write")
  /\ Len(downPipe) < PipeCap
  /\ downPipe' = Append(downPipe, parentLine)
  /\ asked' = parentLine
  /\ ppc' = "kick"
  /\ UNCHANGED <<parentLine, itValue, hdlVars, rplyRecieved, armed, childVars,
                 usr1, upPipe, reply>>

\* slip: the first signal is left to the timer
KickLeftToTimer ==
  /\ At("kick")
  /\ ppc' = "test"
  /\ UNCHANGED <<parentLine, itValue, hdlVars, rplyRecieved, armed, childVars,
                 usr1, pipes, history>>

Kick ==
  /\ At("kick")
  /\ SignalChild
  /\ ppc' = "test"
  /\ UNCHANGED <<parentLine, itValue, hdlVars, rplyRecieved, armed, childVars,
                 pipes, history>>

\* slip: while (rplyRecieved)
TestInverted ==
  /\ At("test")
  /\ ppc' = IF rplyRecieved = 0 THEN "fgets" ELSE "load"
  /\ UNCHANGED <<parentLine, itValue, hdlVars, rplyRecieved, armed, childVars,
                 usr1, pipes, history>>

\* while (!rplyRecieved)
Test ==
  /\ At("test")
  /\ ppc' = IF rplyRecieved = 0 THEN "load" ELSE "fgets"
  /\ UNCHANGED <<parentLine, itValue, hdlVars, rplyRecieved, armed, childVars,
                 usr1, pipes, history>>

\* slip: the timeout is put down in nanoseconds
LoadNanoseconds ==
  /\ At("load")
  /\ itValue' = 1000 * Timeout
  /\ ppc' = "arm"
  /\ UNCHANGED <<parentLine, hdlVars, rplyRecieved, armed, childVars, usr1,
                 pipes, history>>

\* The two stores into timer.it_value, which phandler clears as well.
Load ==
  /\ At("load")
  /\ itValue' = Timeout
  /\ ppc' = "arm"
  /\ UNCHANGED <<parentLine, hdlVars, rplyRecieved, armed, childVars, usr1,
                 pipes, history>>

\* setitimer() with whatever timer holds now: zero switches the timer off.
\* The empty loop after it only takes time.
Arm ==
  /\ At("arm")
  /\ armed' = (itValue # 0)
  /\ ppc' = "test"
  /\ UNCHANGED <<parentLine, itValue, hdlVars, rplyRecieved, childVars, usr1,
                 pipes, history>>

-----------------------------------------------------------------------------
(* The handlers of the parent.                                             *)

\* User code is running: ITIMER_VIRTUAL counts only then, not while the
\* process is blocked in a read.
Executing ==
  /\ ~At("fgets")
  /\ ctx = "phandler" /\ ph = "read" => upPipe # <<>>

\* The timer expires (it_interval is zero: it fires once) and timer_handler
\* is entered on top of whatever was running.
Expire ==
  /\ armed /\ ~th /\ Executing
  /\ armed' = FALSE
  /\ th' = TRUE
  /\ ctx' = "timer_handler"
  /\ UNCHANGED <<mainVars, ph, usr2, rplyRecieved, childVars, usr1, pipes,
                 history>>

\* Back from timer_handler to what it interrupted.
ReturnFromTimer ==
  /\ th' = FALSE
  /\ ctx' = IF ph # "off" THEN "phandler" ELSE "main"

\* slip: the retry writes the line again as well
ResignalResends ==
  /\ ctx = "timer_handler"
  /\ SignalChild
  /\ Len(downPipe) < PipeCap
  /\ downPipe' = Append(downPipe, parentLine)
  /\ ReturnFromTimer
  /\ UNCHANGED <<mainVars, ph, usr2, rplyRecieved, armed, childVars, upPipe,
                 history>>

Resignal ==
  /\ ctx = "timer_handler"
  /\ SignalChild
  /\ ReturnFromTimer
  /\ UNCHANGED <<mainVars, ph, usr2, rplyRecieved, armed, childVars, pipes,
                 history>>

\* SIGUSR2 is delivered, unless phandler is already running.
EnterPhandler ==
  /\ usr2 /\ ph = "off" /\ ppc # "install"
  /\ usr2' = FALSE
  /\ ph' = "cancel"
  /\ ctx' = "phandler"
  /\ UNCHANGED <<mainVars, th, rplyRecieved, armed, childVars, usr1, pipes,
                 history>>

\* timer.it_value = 0; setitimer(): the timer is switched off.
PhCancel ==
  /\ ctx = "phandler" /\ ph = "cancel"
  /\ itValue' = 0
  /\ armed' = FALSE
  /\ ph' = "mark"
  /\ UNCHANGED <<ppc, parentLine, ctx, th, usr2, rplyRecieved, childVars, usr1,
                 pipes, history>>

PhMark ==
  /\ ctx = "phandler" /\ ph = "mark"
  /\ rplyRecieved' = 1
  /\ ph' = "read"
  /\ UNCHANGED <<mainVars, ctx, th, usr2, armed, childVars, usr1, pipes,
                 history>>

\* read() blocks while the pipe is empty; what it returns goes into line[],
\* and phandler returns to what it interrupted.
PhRead ==
  /\ ctx = "phandler" /\ ph = "read"
  /\ upPipe # <<>>
  /\ parentLine' = Head(upPipe)
  /\ reply' = Head(upPipe)
  /\ upPipe' = Tail(upPipe)
  /\ ph' = "off"
  /\ ctx' = IF th THEN "timer_handler" ELSE "main"
  /\ UNCHANGED <<ppc, itValue, th, usr2, rplyRecieved, armed, childVars, usr1,
                 downPipe, asked>>

-----------------------------------------------------------------------------
(* child() and its handler.                                                *)

ChildInstall ==
  /\ alive /\ cpc = "install"
  /\ cpc' = "spin"
  /\ UNCHANGED <<mainVars, hdlVars, rplyRecieved, armed, ch, alive, childLine,
                 usr1, pipes, history>>

\* The default action of SIGUSR1, which is what a child that has not reached
\* its signal() call takes.
ChildKilled ==
  /\ alive /\ cpc = "install" /\ usr1
  /\ alive' = FALSE
  /\ usr1' = FALSE
  /\ UNCHANGED <<mainVars, hdlVars, rplyRecieved, armed, cpc, ch, childLine,
                 pipes, history>>

EnterChandler ==
  /\ alive /\ cpc = "spin" /\ usr1 /\ ch = "off"
  /\ usr1' = FALSE
  /\ ch' = "read"
  /\ UNCHANGED <<mainVars, hdlVars, rplyRecieved, armed, cpc, alive, childLine,
                 pipes, history>>

\* read() blocks while the pipe is empty; the line is stamped and put in
\* upper case before anything else can happen to it.
ChRead ==
  /\ ch = "read"
  /\ downPipe # <<>>
  /\ childLine' = ToUpper(Head(downPipe))
  /\ downPipe' = Tail(downPipe)
  /\ ch' = "write"
  /\ UNCHANGED <<mainVars, hdlVars, rplyRecieved, armed, cpc, alive, usr1,
                 upPipe, history>>

ChWrite ==
  /\ ch = "write"
  /\ Len(upPipe) < PipeCap
  /\ upPipe' = Append(upPipe, childLine)
  /\ ch' = "notify"
  /\ UNCHANGED <<mainVars, hdlVars, rplyRecieved, armed, cpc, alive, childLine,
                 usr1, downPipe, history>>

\* slip: the child kills with its own copy of pid, which is 0
ChNotifyNobody ==
  /\ ch = "notify"
  /\ ch' = "off"
  /\ UNCHANGED <<mainVars, hdlVars, rplyRecieved, armed, cpc, alive, childLine,
                 usr1, pipes, history>>

\* kill(getppid(), SIGUSR2), and chandler returns.
ChNotify ==
  /\ ch = "notify"
  /\ usr2' = TRUE
  /\ ch' = "off"
  /\ UNCHANGED <<mainVars, ctx, ph, th, rplyRecieved, armed, cpc, alive,
                 childLine, usr1, pipes, history>>

\* slip: the parent is told before the reply is in the pipe
ChandlerTellsFirst ==
  \/ ChRead
  \/ /\ ch = "write"
     /\ usr2' = TRUE
     /\ ch' = "notify"
     /\ UNCHANGED <<mainVars, ctx, ph, th, rplyRecieved, armed, cpc, alive,
                    childLine, usr1, pipes, history>>
  \/ /\ ch = "notify"
     /\ upPipe' = Append(upPipe, childLine)
     /\ ch' = "off"
     /\ UNCHANGED <<mainVars, hdlVars, rplyRecieved, armed, cpc, alive,
                    childLine, usr1, downPipe, history>>

Chandler == ChRead \/ ChWrite \/ ChNotify

-----------------------------------------------------------------------------

Busy      == Install \/ Compose \/ Write \/ Kick \/ Test \/ Load \/ Arm
Parent    == Fgets \/ Busy
Phandler  == PhCancel \/ PhMark \/ PhRead
Child     == ChildInstall \/ ChildKilled \/ EnterChandler \/ Chandler

Next == Parent \/ Expire \/ Resignal \/ EnterPhandler \/ Phandler \/ Child

Spec == Init /\ [][Next]_vars

(* The operating system runs both processes and delivers a pending signal   *)
(* that is not masked.  Nothing is assumed of the user, who may stop typing *)
(* (Fgets), nor of the moment at which the timer expires (Expire).          *)
Fairness ==
  /\ WF_vars(Busy)
  /\ WF_vars(Resignal)
  /\ WF_vars(EnterPhandler)
  /\ WF_vars(Phandler)
  /\ WF_vars(Child)

FairSpec == Spec /\ Fairness

-----------------------------------------------------------------------------
(* Properties.                                                             *)

MainLocs == {"install", "fgets", "compose", "write", "kick", "test", "load", "arm"}

\* The values every variable may take.
TypeOK ==
  /\ ppc \in MainLocs
  /\ ctx \in {"main", "phandler", "timer_handler"}
  /\ ph \in {"off", "cancel", "mark", "read"}
  /\ th \in BOOLEAN /\ usr2 \in BOOLEAN
  /\ rplyRecieved \in {0, 1}
  /\ itValue \in {0, Timeout} /\ armed \in BOOLEAN
  /\ parentLine \in Line /\ childLine \in Line
  /\ downPipe \in Seq(Line) /\ upPipe \in Seq(Line)
  /\ cpc \in {"install", "spin"}
  /\ ch \in {"off", "read", "write", "notify"}
  /\ usr1 \in BOOLEAN /\ alive \in BOOLEAN
  /\ asked \in Line /\ reply \in Line

\* Between the first statement after a request has been written and the test
\* that sees the reply.
Awaiting == ppc \in {"kick", "test", "load", "arm"}

\* Stop and wait (base.c:137): however often the request is signalled again,
\* at most one line is under way, in a pipe or in the child.  With it no
\* write() to a pipe can ever block.
OneOutstanding ==
  Len(downPipe) + Len(upPipe) + (IF ch = "write" THEN 1 ELSE 0) <= 1

\* The line the user sees before the next prompt is the answer to the line
\* typed last: same text, same time stamp, upper case; never a late answer to
\* an earlier line.
ReplyIsForRequest ==
  ppc = "fgets" /\ asked.ts > 0 => parentLine = ToUpper(asked)

\* phandler never waits in read(): a parent blocked there would answer
\* neither its user nor its timer again.
HandlerNeverBlocks == ph = "read" => upPipe # <<>>

\* line[] is shared by parent() and phandler without any mask: a reply can
\* arrive only while parent() is done with the line it sent.
LineNotShared == usr2 \/ ph # "off" => Awaiting

\* A line in downPipe is never left without somebody who is going to read it:
\* the signal is pending, or chandler is already at its read(), even though
\* pending signals collapse into one and the child masks them while it works.
NoLostWakeup ==
  alive /\ downPipe # <<>> /\ ppc # "kick" => usr1 \/ ch = "read"

\* The parent never writes to a pipe whose reader was killed, which would
\* kill the parent as well: the child can be lost only in the first exchange,
\* and that exchange never ends.
WriteHasReader == ppc = "write" => alive

\* A line sent is answered and the user prompted again, unless SIGUSR1 killed
\* the child before it had installed its handler.
AnsweredUnlessChildLost == ppc = "kick" ~> ppc = "fgets" \/ ~alive

\* A line is under way.
Outstanding == downPipe # <<>> \/ upPipe # <<>> \/ ch = "write"

\* The program keeps the promise of module StopAndWait: with pipes, signals
\* and retries, each line is answered once and before the next one is sent.
Abstract == INSTANCE StopAndWait WITH waiting <- Outstanding
RefinesStopAndWait == Abstract!Spec

-----------------------------------------------------------------------------
(* The inductive invariant.  At any moment exactly one of four things holds *)
(* of the exchange: nothing is under way, or the line asked is in downPipe, *)
(* in the child, or in upPipe on its way back.                              *)

Idle == ch \in {"off", "read"} /\ ~usr2 /\ ph = "off"

Quiet ==
  /\ downPipe = <<>> /\ upPipe = <<>> /\ Idle
  /\ Awaiting => rplyRecieved = 1 /\ parentLine = ToUpper(asked)

InDown ==
  /\ downPipe = <<asked>> /\ upPipe = <<>> /\ Idle
  /\ Awaiting /\ rplyRecieved = 0

InChild ==
  /\ downPipe = <<>> /\ upPipe = <<>>
  /\ ch = "write" /\ childLine = ToUpper(asked) /\ ~usr2 /\ ph = "off"
  /\ Awaiting /\ rplyRecieved = 0

InUp ==
  /\ downPipe = <<>> /\ upPipe = <<ToUpper(asked)>>
  /\ Awaiting
  /\ \/ ch = "notify" /\ ~usr2 /\ ph = "off" /\ rplyRecieved = 0
     \/ ch \in {"off", "read"} /\ usr2 /\ ph = "off" /\ rplyRecieved = 0
     \/ ch \in {"off", "read"} /\ ~usr2 /\ ph \in {"cancel", "mark"} /\ rplyRecieved = 0
     \/ ch \in {"off", "read"} /\ ~usr2 /\ ph = "read" /\ rplyRecieved = 1

Places == Quiet \/ InDown \/ InChild \/ InUp

\* ctx names a handler that has been entered, or parent() when none has.
CtxInv ==
  /\ ctx = "main" => ph = "off" /\ ~th
  /\ ctx = "phandler" => ph # "off"
  /\ ctx = "timer_handler" => th

\* What parent() has left in line[] and in the flag outside the exchange.
ParentInv ==
  /\ ppc = "install" => asked.ts = 0
  /\ ppc \in {"compose", "write"} => parentLine.text \in Texts /\ ~parentLine.up
  /\ ppc = "write" => parentLine.ts = asked.ts + 1 /\ rplyRecieved = 0
  /\ ReplyIsForRequest

\* A child that has not installed its handler has seen no request, and one
\* that is lost was lost to the request that is still in downPipe.
ChildInv ==
  /\ cpc = "install" => /\ ch = "off"
                        /\ \/ Quiet /\ ~Awaiting /\ ~armed /\ ~th /\ ~usr1
                           \/ InDown
  /\ ~alive => cpc = "install" /\ InDown
  /\ NoLostWakeup

\* The four places of the line asked, and what goes with each of them: the
\* invariant that every step of base.c keeps and from which the safety
\* properties above follow.
IInv ==
  /\ TypeOK
  /\ Places
  /\ CtxInv
  /\ ParentInv
  /\ ChildInv

-----------------------------------------------------------------------------
(* What the documentation says and the code does not do.                   *)

\* base.c:148: a reply received before the timer expires cancels the timer.
TimerCancelled == ppc = "fgets" /\ asked.ts > 0 => ~armed

\* manual.txt:5-6: every line sent to the child is answered.
EveryRequestAnswered == ppc = "kick" ~> ppc = "fgets"
=============================================================================
