# Verification of the cs3337 programs

The repository holds the programs of a systems programming course: small C
programs about processes, signals, pipes, threads, file trees and ext2 images.
They share no code.  This directory holds TLA+ models of the programs that keep
state and have behaviours a test hardly reaches, what TLC checks of them, and
the theorems TLAPS proves.

## Inventory

| Program | State | Operations | What is hard | What makes it correct |
|---|---|---|---|---|
| `proj3/base.c` (ipc) | `line[]` in each process, `rplyRecieved`, `timer`, two pipes, pending signals | `parent()`, `child()`, handlers `phandler`, `chandler`, `timer_handler` | handlers interrupt `parent()` anywhere; signals merge, overtake messages and are repeated by a timer; a child that is not ready | one line under way; each answer belongs to the line asked; nobody blocks for ever |
| `proj4/c4.5.c` | the matrix `A`, the barrier, `NTHREADS` | `main` (batches, back substitution), `pp`, `ge`, `print_matrix` | threads that read each other's rows, separated only by a barrier; batches that do not divide N | no race; rows are final when used; the result solves the system; termination |
| `ch3/t.c`, `queue.c`, `ts.s` | PROC table, `freeList`, `readyQueue`, `running` | `kfork`, `kexit`, `tswitch`, `scheduler`, `enqueue`, `dequeue` | context switches inside nested calls; empty queues | every PROC in one place; queue sorted and fair |
| `fileTreeSim/fileTreeSim.c` | heap of NODEs, `root`, `cwd`, save files | mkdir, rmdir, cd, ls, pwd, creat, rm, save, reload, quit | pointer surgery on child/sibling lists; freed nodes; partial failure of reload | heap is a tree; each command changes just the paths it is about; a saved tree comes back |
| `shsim/shsim.c` | command line, argument vector, descriptors, child processes | `getInput` and its string helpers, `cd`, `forkChild`, `executeCommand` | three processes around a pipe, one wait; redirection state passed to the wrong command | output goes where the line says; the prompt returns; no process is stuck on a pipe |
| `proj3/timer.c` | one counter | one handler | - | stops after eight ticks |
| `ch3/c3.*.c` | - | fork, wait, exec, pipe demos | - | - |
| `ch7/` | - | print fields of an ext2 image | - | pure I/O |
| `make/`, `shsim/test.c` | - | hello world; scratch copy of shell helpers | - | - |

`PROJECT.json` lists the hazards of each program at their lines, with the
properties that would catch them; those without a property name what is missing.

## Plan

Done:

1. `IPC` with the abstract `StopAndWait`, and proofs in `IPCProofs`: the program
   with the most concurrency.
2. `GaussThreads` with the abstract `Elimination`: threads and a barrier.
3. `FileTree` with the abstract `PathTree`, and `FileTreeSave` (save, reload,
   quit) on top of it.
4. `ReadyQueue` (the linked lists of queue.c, against a reference on sequences)
   and `MTKernel`, which uses it.
5. `CommandLine` (the characters of a shell line, against what the user meant)
   and `Shell`, which uses it: processes, pipes and descriptors.

6. Proofs for every value of the constants, one module per component.
   `GaussProofs`: the invariants, every safety property up to the solution, the
   implementation of `Elimination`. `ShellProofs`: `NoChildAtPrompt`, the types,
   the streams and the words of every program, with what `getInput` finds in a
   text and which blanks `strTrim` leaves in it.
   `ListProofs`: linked lists and walks along them, for the next two.
   `MTKernelProofs`: what `enqueue` and `dequeue` do to any sorted list, and all
   of the kernel's invariants.
7. Proofs about the tree: `FileTreeProofs` (every command keeps the heap a tree),
   `PathTreeProofs` (paths identify directories, `cd` of what `pwd` prints, the
   implementation of `PathTree`) and `FileTreeSaveProofs` (what is saved is read
   back as the same tree, and what is on disk at any time).

Left:

8. Lengths: the time stamps of base.c in `line[LEN]`, which leave room for a
   text of 32 characters, together with end of file on stdin.  What lies behind
   `line` is overwritten then, and a model could only say that anything may
   follow.

## proj3: IPC

`IPC.tla` models both processes after `fork()`.  `ppc` and `cpc` say where
`parent()` and `child()` stand, `ph` and `ch` where `phandler` and `chandler`
stand, `th` that `timer_handler` has been entered, and `ctx` which of them the
parent process executes: a handler runs on top of what it interrupted, and two
of the parent's handlers can be stacked in either order.  A step is a system
call or statements no handler of the same process can observe.

| Code | Action |
|---|---|
| base.c:80-109 parent() | `Install Fgets Compose Write Kick Test Load Arm` |
| base.c:30-34 timer_handler | `Expire` (entry), `Resignal` |
| base.c:37-50 phandler | `EnterPhandler PhCancel PhMark PhRead` |
| base.c:114-120 child() | `ChildInstall`, `ChildKilled` (default action of SIGUSR1) |
| base.c:53-76 chandler | `EnterChandler ChRead ChWrite ChNotify` |

Environment, modelled from how the code uses it: a pending signal is a flag, so
repeated signals merge; a signal is masked while its handler runs; reads are
restarted; a virtual timer expires once, only while the process executes user
code.  A line is its text, whether it was upper-cased, and the number of the
request; `asked` and `reply` are history.

`StopAndWait.tla` is what the program promises: ask, then wait for the answer.
`IPC` implements it with `waiting` mapped to `Outstanding` (a line is in a pipe
or in the child).

Runs:

- `ipc` (3 requests, 2 texts, pipes of 2 messages): the safety invariants and
  the inductive invariant `IInv`, the refinement, and `AnsweredUnlessChildLost`.
  Three requests suffice for a stray signal of one exchange to reach the next
  and the next but one; the model numbers requests, so an answer to an older
  line would show.  Fairness: the system runs both processes and delivers
  unmasked signals; nothing is assumed of the user or of the moment the timer
  expires, so the property does not rely on the retry.
- `ipc_timer`, `ipc_lost`: what base.c:148 and manual.txt:6 say and the code
  does not do.  The first needs SIGUSR2 between the test at base.c:103 and the
  setting of `it_value` at 105-106, which undoes the handler's (from then on the
  `setitimer()` of 107 starts nothing); the last needs the first SIGUSR1 before base.c:118.

base.c:149 says that a timeout resends the message with a new time stamp;
`timer_handler` repeats the signal only, and so does `Resignal`.  The mutant
that does resend the message breaks `ReplyIsForRequest` and the refinement.

These configurations do not check deadlock: the user may stop typing.

Proofs (`IPCProofs.tla`), for every set of texts, every pipe capacity and every
number of requests, from the three assumptions on the constants: `TypeCorrect`;
`Invariance` (`Spec => []IInv`); each safety invariant of run `ipc` as a
corollary; `Refinement` (`Spec => RefinesStopAndWait`).  The safety properties
are not inductive: that no write blocks depends on where the line asked is and
on the flag, that phandler never blocks depends on when chandler signals.  `IInv`
therefore says that the line asked is in one of four places (`Quiet`, `InDown`,
`InChild`, `InUp`) and, for each, what the flag, the signals and the handlers
look like; the child's death is possible only in `InDown`.

Model-checked only: `AnsweredUnlessChildLost` (liveness).

Not modelled: failure of pipe() and fork(), end of file on stdin, Ctrl-C, the
use of printf in handlers, and the lengths of the time stamps appended to
`line[]` (listed as hazards).

## proj4: GaussThreads

`GaussThreads.tla` models `main`, `pp`, `ge` and `print_matrix`.  `mpc`,
`thread`, `n` are main's location, `thread` and `i`; `th[t]` holds a thread's
location, its column `i` and its local variable `x` (`prow`, `factor`, or the
row `print_matrix` prints next).  The reading of `factor` and the writing of a
row are separate steps, so a thread that changed a row in between would be
seen.  The barrier is external: the last of `NTHREADS` threads releases all.
Doubles become elements of a prime field: exact, with no rounding; comparisons
happen in `pp` only, before any arithmetic.  `PAssumption` says what makes the P
values a field as far as the program needs it: every value but zero has an
inverse.  `MaxThreads` bounds the values of argv[1] in `ThreadCounts`.  The row
past the matrix that the pivot search reads is the barrier's memory in the
build.  That it can win only against zeros is an assumption about that build,
made in `PivotRows` and shown by no property; what `PivotsInOrder` shows is that
the search never meets a column of zeros.

| Code | Action |
|---|---|
| c4.5.c:120-145 main's two loops | `StartBatch Create Join StartElimination` |
| c4.5.c:148-154 back substitution | `StartSolving Solve` |
| c4.5.c:72-95 pp | `Search Swap Arrive Advance` |
| c4.5.c:30-65 ge | `ReadFactor ReduceRow Arrive PrintRow Advance` |

`Elimination.tla` is the order any correct schedule has to respect: pivots in
order and first, column i eliminated with row i once that row is final, the
solution last.  `done` and `pivoted` are history variables of `GaussThreads`
that the abstraction shares.

Runs: `gauss` checks N = 4, the program's value, with 0 to 5 threads: none,
divisors of N, non-divisors, and more threads than rows.  Fairness: main and
every thread that is not blocked keep running.  `Termination` excludes
`NTHREADS = 0`, where the loop over the batches never advances.  `gauss_print`
(4 threads) shows that the matrix printed behind the barrier is not the matrix
of the step: even with a thread per row the next column's reductions run beside
the printing.  (With fewer threads than rows the other batches have not even
begun.)

Proofs (`GaussProofs.tla`), for every N and all thread counts: `GaussInvariance`
(`Spec => []GInv`), and from it `NoRaceHolds`, `RowFinalHolds`,
`PivotsInOrderHolds`, `SolveOnUpperHolds` and `GaussRefines`
(`Spec => RefinesElimination`).  None of these is inductive: that a row is final
depends on how far *other* threads are.  `GInv` says so in parts.  `MainInv` and
`ThreadsInv`: the threads that exist are those from `First` to `thread - 1`, and
what each location of a thread implies.  `StepInv`: all of them have passed the
same number of barriers.  `PivotInv` and `DoneInv`: which columns are pivoted and
how far each row is, by where its thread is.  `MatrixInv`: the zeros that go with
`done`.  `PositiveInv`: no coefficient is zero before the elimination, which keeps
the pivot inside the matrix.  The crux is `LastOfAll`: a thread finds itself the
last of `NTHREADS` at the barrier only when all threads of a complete batch, none
of them joined, are there; this is counted with the cardinality of an interval.

A second invariant, `VInv`, is about the values (`ValueInvariance`); it gives
`TypeCorrect` and `SolutionSolvesHolds`.  The matrix of main is regular enough
to follow: ones, N on the other diagonal, 2N - 1 on the right.  `PivotedInv`: in
`pp` every row has its N in the column `Place` says.  `EliminatedInv`: in `ge` a
row k columns have been eliminated from holds `Entry(k, r, c)`, that is
`Share(k)` everywhere, N - 1 more on the diagonal, 2N - 1 times `Share(k)` on the
right, where `Share(k)` is (N - 1) / (N - 1 + k).  The pivot of column k is then
(N - 1)(N + k) / (N - 1 + k), never zero since P > 2N (`DiagonalIs`), and the
back substitution makes every unknown 1, from the last one up.  `CountInv` and
`LocalInv` bound main's counter and what a thread holds.  Arithmetic modulo P is
done as congruences between integers (`Same`, its laws, `Cancel`), with the
inverses of `PAssumption`; the sums come from `SumIs`: the sum of a function that
has one value everywhere but in one place.

Model-checked only: `Termination`, which is liveness.

Not modelled: rounding, failure of pthread_create, the usage message.

## fileTreeSim: FileTree, PathTree, FileTreeSave

`FileTree.tla` keeps the program's nodes: `heap[x]` is the NODE at address `x`
with its type, name, parent, first child and next sibling; the root is at address
1 and, as in the code, is its own parent and sibling.  Each command is an action
that takes the pathname typed; a pathname is its leading '/' and its tokens.
`creat` and `rm` split a pathname with dirname() and basename(), so the empty
pathname and "/" give names no other command can look up.

| Code | Definition |
|---|---|
| fileTreeSim.c:95-133 findPathnameNode | `FindFrom`, `Subdir` |
| 135-175 mkdir | `Mkdir`, with `MkdirFrom` and `Add` |
| 177-205 rmdir | `Rmdir`, with `Unlinked` |
| 207-253 cd, ls, pwd, pd | `Cd Ls Pwd`, `NamesTo` |
| 255-331 creat, rm | `Creat Rm`, with `dnode`, `BaseOf`, `Named` |
| 333-347 save | `SaveThen`, `Save` up to fopen(), then `Write` (FileTreeSave) |
| 349-358 writeNodes | `Visited`, `Line`, `Lines` |
| 360-379 reload | `Reload`, `Emptied` (FileTreeSave), `ReadBack`, `AddLine`, `Rebuilt` |
| 396-399 quit, 40-45 start | `Quit`, `Through`, `Restart` (FileTreeSave) |

`LinkedLists.tla` has the walk along a list, `NodesFrom`, that both this module
(`Children`, the list of a directory) and `ReadyQueue` use.  Walks along a
pathname are recursive functions of the number of tokens read: `FindFrom` here,
`ResolveFrom` in `PathTree`, and `MkdirFrom`, which makes what it does not find.

Files fail.  `fopen()` for writing may return NULL, which `save` (341) hands on to
`fprintf`: the program crashes with the file as it was.  Otherwise it empties the
file (340), and only `Write` (341-342) puts text into it.  `fp` is the file that is
open in between, and `status` says what comes next: "saving", the user's next
command; "quitting", `exit()`.  The program may be killed there, or at any time
(`Kill`), and what `fprintf` and `fclose` return is not looked at: a write may end
early, on a full disk for one, and the program goes on as if it had not.  What is
in the file then is one of `Beginnings`: some lines, and perhaps the next one with
a path cut short between two names, in a name (`Shorter` says which names a name
begins with), or missing; `fscanf` then leaves the path of the line before in
`pathname`, or the name given to reload.  `left` is history: what the last save has
left of the text of each file.  `fopen()` for reading may
return NULL, which `reload` sees, but only after it has emptied the tree (361).
And `reload` reads the type of a line with `%s` into `char type[1]`, which has no
room for the end of the string: the byte behind it is either nobody's or the
first one of `fp` (so in an unoptimised gcc build), and the next `fscanf` crashes.
`Reload` has all these outcomes; its crash loses the tree in memory and nothing on
disk, and the program may be started again (`Restart`).

The program can go wrong in two ways, and `status` tells which: it follows a null
pointer (`rmdir` of an empty root; `rm` of a missing name in a directory with
fewer than two nodes) and dies, or it follows `cwd` after `rmdir` has freed that
node, and then nothing can be said.  `PathTree.tla` is what the commands, as
coded, do to a set of directory paths and a bag of file paths; its `Crash` and
`Undefined` say when the program may go wrong, and `RefinesPathTree` that it does
so nowhere else.  It is not what the menu (381-392) promises: see below where the
two differ.

Runs:

- `filetree` (names a and b, ten pathnames that tell the cases apart, three nodes
  below the root): `TreeShape`, `DirsUnique`, `PwdLeadsBack`, `RoundTrip`,
  `RefinesPathTree`.  Three nodes are what it takes to remove the first, the
  middle and the last of a list and to have a directory with something in it
  beside another node.
- `filetree_save` (names a and autosave.txt, two nodes below the root, five
  pathnames, with cut writes, kills and restarts).  `DiskIsATree`: after a save
  that came through, the file is the text of a tree, which reload makes; while a
  save is under way, and after one that was cut short, all of the file but its
  last line is.  Nothing more can be said of that file: the tree saved before is
  lost, as nothing was kept of it, and a path cut short may be the path of another
  file ("autosave.txt" cut behind its first letter is the other name).
  `QuitKeepsTree`: a tree that is not empty survives a `quit` whose write came
  through.  An empty one is not saved, and autosave.txt stays as it was: the tree
  removed is back after the next reload.  The code says so ("there is nothing to
  save", 345), so no property calls it wrong.  `ReloadIsWhole`: a reload, of a file
  written by a save that came through, leaves that tree or, if the file cannot be
  opened, an empty one, never a mixture with the tree before, although `mkdir` and
  `creat` add to whatever they find.  Two nodes are two lines: a cut leaves none,
  one, or a wrong one, as the first or behind another.

Where the code differs from its menu and messages, the model follows the code:
`rmdir` without a pathname removes the current directory; `cd` without a
pathname stays where it is, although 26 and 384 say that it goes to /
(`findPathnameNode` starts at `cwd`, 101, and has no token to follow), and
`PathTree` lets it stay too, so that `RefinesPathTree` does not object to it;
`rm` of a missing file
crashes instead of reporting (318) when there are fewer than two nodes to look
at; `rm` finds only the first node of a name, so that a directory hides a file
(388); a file made by `creat` without a pathname is not read back as it was
saved (389-390, hence `WellNamed`); `quit` does not save an empty tree, so that
an older autosave.txt stays (392).

Proofs (`FileTreeProofs.tla`), for all names, pathnames and numbers of nodes:
`TreeInvariance` (`Spec => []TInv`), and from it `TypeCorrect`, `TreeShapeHolds`
and `DirsUniqueHolds`.  `TreeShape` walks lists and parents to their ends, which
no single assignment of the code respects by itself, so `TInv` says instead what
each pointer does.  `RootKept`, `ChildKept`, `SiblingKept` and `ParentKept`: a
pointer of a used node leads to a used node, which is a child of the same
directory.  `OnePointer`: no two pointers lead to the same node.  `Connected`: a
set of used nodes that contains the root, and every node that one of its nodes
points to, contains all of them; nothing is lost, and there is no cycle off the
tree.  `DirNames` and `UniqueDirs`: what `mkdir` can have made.  `Inserted` and
`Removed` are the two changes of the heap; `InsertedTree` and `RemovedTree` show
once for all commands that they keep the parts, and `ChildrenAre` that the walk
along a list visits each node of the directory once.

`PathTreeProofs.tla`: `PathsOfDirs` (two directories with one path are one),
`PathLeadsBack` (a walk along the path of a directory ends in that directory),
`PwdLeadsBackHolds`, and `TreeRefinement` (`Spec => RefinesPathTree`).  A
directory named ".." can be made (`mkdir` takes ".." for a name like any other)
and cannot be entered, so `PwdLeadsBack` needs that the
path of `cwd` has no such name (`PInv`).  The implementation goes command by
command: a walk on the heap and a walk on the set of paths meet the same
directories (`FindResolves`), `mkdir` adds the same paths token by token
(`MkdirPaths`), and `creat`, `rm` and `rmdir` change one element of the set or of
the bag (`CreatPaths`, `UnlinkedPaths`, with `BagOfMore` for the bag).

The arguments over the tree are by `TreeInduction`, which is `Connected` read as
a rule: a set that contains the root, and with a directory all that is in it,
contains every node.  Those along a list or a pathname are by `NatRise`, induction
on a set of numbers.  The proofs use the three assumptions on the constants: "/"
and ".." are no file names, pathnames are a leading slash and tokens, and there
is room for the root.

`FileTreeSaveProofs.tla` is about two trees, the one saved and the one read back
line by line:

- `VisitedInOrder`: writeNodes visits every node below the root once, and each
  behind the node whose pointer leads to it.  That the recursion of `Visited`
  defines anything has to be shown first (`VisitExists`), from the bottom of the
  tree upwards.
- `RebuiltSame`: the tree that reload makes of the lines of a tree has the same
  lines and the same listing.  After k lines the tree is `Copy(h, q, k)`: the
  first k nodes visited, each at the address of its place in that order, with the
  pointers between them (`CopyFields`).  The next line adds the next node
  (`CopyStep`), since its directory is there already, its path leads to it
  (`PathLeadsBack`), and the children that are there are the ones in front of it.
  The whole copy is then visited in the order of its addresses (`VisitedCopy`).
- `RoundTripHolds`.  A tree is not read back when a file has no name or lies below
  a directory that cannot be entered.  The first is `WellNamed`, which
  `RoundTrip` asks for; the second never happens, and that is an invariant
  (`PlainInv`: no file's path goes through a directory named "..").
- `AllNamed`: `WellNamed` holds, and with it what `RoundTrip` concludes, as long as
  no pathname is typed that is empty or "/".
- `ReloadedIsATree`, `DiskIsATreeHolds`, `QuitKeepsTreeHolds` and
  `ReloadIsWholeHolds`, without any premise about the pathnames typed, the writes
  that fail, or the moments the program is killed.  `FileTree`'s invariants are
  about trees made by commands; here trees are also made of files that no save
  has finished.  What any file may hold is `Buildable`: it has no
  more lines than there is room for nodes, and for each of them the directory its
  path lies in is a line above it, or part of the path of a directory above it.  Such a text makes a tree whose files lie below directories that can be
  entered (`Builds`); the lines of any tree are one (`LinesBuildable`), and so is
  all that a cut leaves of one (`BeginningsAre`), the doubled line and the path
  cut short included.  The invariant `SInv` has four parts.  `TreeInv`: the tree.
  `DiskInv`: every file is buildable, one that was written whole is the text of a
  tree, one that was cut is that but for its last line.  `OpenInv`: while a file
  is open the tree in memory is the one that was to be saved.  `LastInv`: after
  quit autosave.txt is the text of that tree.
- They use three more assumptions: that there is no file is neither the name of a
  file nor a text (`NoFileAssumption`), names of files can be names in the tree
  (`FilesAssumption`), and what a name begins with, cut short, is a name
  (`ShorterAssumption`).

The attempt to prove `RoundTrip` showed a mistake of the model: the functions
behind `Lines` and `Listing` were defined on all addresses, and as the root is
its own sibling their equations had no solution, although TLC, which evaluates
what it needs, never noticed.  `Visited` is defined on the nodes below the root.

Not modelled: the lengths of names, paths and of the saved text (2048
characters), failures of malloc(), and the sprintf() of `writeNodes` that reads
the string it writes.  The string broken over lines 374-375 does not compile as
it stands; it is read as one message.

## ch3: ReadyQueue and MTKernel

`ReadyQueue.tla` has `enqueue` and `dequeue` of queue.c as operators on the
`next` fields, and the same on sequences as a reference.  `MTKernel.tla` has the
PROC fields as functions of the pid, the two list heads, `running`, and `at`, the
function that executes.

| Code | Action |
|---|---|
| t.c:18-40 kfork | `Kfork`, `KforkFails` |
| t.c:64-78 body | `Getchar` |
| t.c:41-47 kexit | `Kexit` |
| ts.s SAVE, t.c:115-122, ts.s RESUME | `Save`, `Scheduler`, `Resume` |
| t.c:107-111 main | `MainLoop` |

The code as it stands is not the textbook's: line 36 calls `body()` where its
address is meant, so `kfork` never comes back, a new process never gets into
`readyQueue`, P0 is the only one that ever runs, and every 'f' nests another
`body()` on its stack.  `creating` is that nesting.  Run `kernel_kfork` shows it
against t.c:16 and 106.  Run `kernel` (1 to 9 PROCs, nine as in type.h) shows what
still holds: both lists stay sound although PROCs keep old `next` fields, every
PROC is accounted for, only saved stacks are resumed, and only an exit leaves the
scheduler without a process (it then follows a null pointer).  Because the ready
queue never holds more than one PROC, `QueueOrder` checks queue.c itself on all
lists of up to three PROCs with the two priorities the program uses.

Proofs (`MTKernelProofs.tla`), about the operators: `EnqueueInserts` (on any
list sorted by priority, `enqueue` puts the PROC behind the last one of at least
its priority, and the list is sorted again) and `DequeueTakesFirst`.  They cover
lists the kernel never builds.  `QueueAgrees` compares the operators with the
reference, a stable priority queue as a sequence, on any sorted list of any length,
whatever the priorities and the links of other PROCs; `QueueOrderHolds` is its case
of the lists of the run.

And, for every number of PROCs: `KernelInvariance`
(`Spec => []KInv`) with `ResumesSavedHolds` and `CrashOnlyByExitHolds`, and
`ListInvariance` (`Spec => [](KInv /\ LInv)`) with `TypeCorrect`, `ListsKeptHolds`
and `AccountedHolds`.  `KInv` is what line 36 leaves of the scheduler: P0 is the
only process that ever runs, `readyQueue` is empty between any two steps, and the
kforks under way have taken P1, P2, ... in the order in which init() linked the
free list.  `LInv` is which PROCs are in the free list, in what order and where it
ends, before and after P0 has put itself behind them.

## shsim: CommandLine and Shell

`CommandLine.tla` is what becomes of a line: `strTrim`, `searchStr`,
`handleRedirect`, `strArrCount`, `strSplit` and `getInput`, as operators on
sequences of characters (shsim.c:172-290).  It keeps what makes these functions
hard to read off: `strTrim` writes into the string it reads, so `Dropped`, the
test whether a blank is dropped, looks for a mark behind the *write* index
(275, 277, 279) in a string half overwritten; `handleRedirect` leaves `inOut`
alone when it finds nothing; and `strtok` is given the address of a single
`char` (249, 253), so that the characters that happen to follow it on the stack
(`Strays`) are delimiters too.  A letter stands for a word's character or for a
whole word.  The second part of the module is not in the code: a line as the user
means it, segments with words and a redirection, and the text typed for it with n
blanks wherever blanks may be (`LineText`).

`Shell.tla` models the shell's loop and the two processes a line may start:
`<<j, 1>>` for the first command of line j, `<<j, 2>>` for the one behind the
first '|'.  `proc[p].st` is where the process stands ("pipe", "plumb", "input",
"command", "exec", "run"), `fd` its descriptors, and `input` what `getInput`
stored: `argv`, `redirPath`, `inOut` and `tail`; the tail's process inherits the
head's and then calls `getInput` on its own text.  open(), dup() and pipe() take
the lowest free descriptor, which is what shsim.c relies on.  The end of a pipe's
data is seen only when no process holds its write end, and a writer without a
reader is killed.

| Code | Action |
|---|---|
| shsim.c:18-41 main, 65-77 forkChild | `Type`, `Wait` |
| 83-87 | `ForkTail` |
| 88-93, 96-100 | `PlumbHead`, `PlumbTail` |
| 103 getInput, 172-206 | `NewInputs`; `InputsFromPipe` when the tail is empty |
| 118-148 executeCommand | `Redirect` |
| 149-165 | `Exec` |

The programs are external: one that writes and does not read, one that copies,
one that does not exist.

Runs:

- `shell` (two lines of seven, so that the tail of the first runs beside the
  second; pipes of one unit and programs that write two, so that writers block;
  one blank wherever blanks may be; with and without a word behind strtok's
  delimiter).  Fairness: the system runs every process that can go on; nothing is
  assumed of the user.  `PromptReturns` and `AllEnd` are the liveness of that
  composition: they need the closes at lines 89 and 97, without which a head
  waits for itself to read, or a tail for itself to write.  `StreamsAsWritten`
  excepts tails whose head has a redirection, and `ArgvAsWritten` words that hold
  a stray delimiter.  `WordsKept` is about `getInput` alone: on all lines of one
  or two segments with up to three words, any redirection, and no blank more than
  needed or up to three everywhere, it finds the words of the head, and those of
  the tail if the line is legible.  That is (`Legible`) if the tail has one word
  at most, or the blanks are no more than needed, or one everywhere and a word
  stands before any redirection of the head.  Of other lines it may not be so: with two
  blanks, `strTrim` has moved the '|' already when it takes it, behind the write
  index, for the next character, and drops the blank between two words of the
  tail: of "a | b c", typed with two blanks everywhere, "bc" is executed; and so
  it is of "< f | b c" with one.  `ArgvAsWritten` is about legible lines too, and
  those of the run are.
- `shell_tail` shows why the tail of a head with a redirection is excepted.
- `shell_trim`: of "cat < f | none" the blanks around '<' are dropped, the one
  before '|' is not, and the file opened is "f ".

Also seen and kept in the model: what is behind a second '|' is never executed;
with an empty tail the command line is read from the pipe; `>` does not truncate
a file.

Proofs (`ShellProofs.tla`), for all lines, blanks, stray delimiters, pipes and
programs:

- `NoChildAtPromptHolds`.  Its invariant `WaitInv` is that the only head that has
  been started and not been waited for is that of the line typed last, and that
  only while the shell waits; since no process does anything to the state of
  another one's head, what tails do does not matter.
- `TypeCorrect` and `StreamsHold`.  `StreamsAsWritten` speaks of running programs
  only, and is kept by a step only if the processes on their way there hold what
  they should.  The invariant `Inv` says what that is, at every place of the code
  (`HeadAt`, `TailAt`): all five descriptors, `inOut`, and, until the tail has
  read it, the text of the tail, whose first segment is the second one of the
  line (`HasHead`).  An `inOut` left over from the head is in it too, as the tail
  starts from it.
- What these need of `getInput`: `strTrim` may drop or keep the wrong blanks, but
  it drops nothing else (`TrimReduces`: the trimmed text is embedded in the typed
  one, and only blanks are left out).  Marks are therefore found in the order in
  which they were typed (`ReducesCut`), so that `handleRedirect` finds the
  redirection written and the cut at the first '|' leaves the other segments
  (`InputIs`, `LineSays`), and what `strtok` returns holds no mark and is a word
  (`SplitIs`).
- `ArgvHolds` (all lines typed legible), `HeadArgvHolds` (the programs before the
  '|', however the line is typed) and `WordsKeptHolds`.  For these it matters
  *which* blanks are dropped.  The embedding of the trimmed text in the typed one
  has a second half: a blank is left out only at either end of the text, before
  another blank, right behind a mark, or if a mark stands where `strTrim` looks
  for one (`Sparing`).  In front of the first '|' that mark is one that was typed
  there, so a blank is left between any two words of the head.  Behind it, it can
  be the '|' itself, already moved: `strTrim` looks two characters behind the
  place it writes to, and sees the '|' from between two words of the tail only if
  more than two characters were dropped before it (`LagOfTwo`).  In a legible line no more are (`BarLag`).  What is
  left of the words is then separated by blanks (`Begins`), and `strtok` returns
  just these words (`InputWords`); with stray characters it does so for words
  that hold none of them.  `LineWords` says what `getInput` finds in any line, and
  in the rest it leaves: `Inv` keeps the words of the line with each process, and
  with the text of a tail until that is read.

These runs do not check deadlock: the user may stop typing.

## What is proved and what is model-checked

Proved with TLAPS, for every value of the constants:

- `IPC`: the type invariant, the inductive invariant, the safety properties and
  the refinement of `StopAndWait`;
- `GaussThreads`: the type invariant, two inductive invariants, the safety
  properties, `SolutionSolves` among them, and the refinement of `Elimination`;
- `ReadyQueue`: what its operators do to a sorted list, `QueueOrder` among it;
- `MTKernel`: the type invariant, two inductive invariants and the safety
  properties;
- `FileTree`: the type invariant, the inductive invariants, the safety
  properties, `RoundTrip` among them, and the refinement of `PathTree`;
- `FileTreeSave`: the inductive invariant, both safety properties and the action
  property, through writes cut short, kills and restarts, and that the tree keeps
  its shape whatever is reloaded;
- `Shell`: the type invariant, the inductive invariant, `NoChildAtPrompt`,
  `StreamsAsWritten` and `ArgvAsWritten`, the last one when all lines are
  legible, and of `CommandLine` what `getInput` makes of any line, `WordsKept`
  among it.

These are all the type and safety properties the runs check.  The proofs assume
of the constants what their modules' ASSUMEs say (that of `MCShell`, that four
strings are strings, is there because the provers have no axiom for STRING), and
of the lines nothing but what is said of `Shell` above.  The prover has no rule of induction that takes a predicate.  What
is proved here about lists and trees uses induction on *sets*, which is
first-order: a set of numbers with 0, and with each number the next, contains
them all (`NatRise`), and a set closed under the pointers of the tree contains
the tree (`TreeInduction`).  A recursive function is first shown to exist on an
interval, and then used by its equation.

Model-checked only, within the bounds above: liveness
(`AnsweredUnlessChildLost`, `Termination`, `PromptReturns`, `AllEnd`), because
TLAPS proves none under fairness.

## Not modelled

- `shsim/shsim.c`: end of file at the prompt (`fgets` fails, the loop goes on
  with the last line or an empty one); the PATH that `strSplit` cuts up in the
  environment handed to the program (129); the working directory; debug.log;
  failures of fork() and pipe(); the 128 characters of a line.
- `proj3/base.c`: end of file on stdin, and the lengths of the time stamps.
  Behind the end of `line` lie the flag and the pipe descriptors: after an
  overflow nothing more can be said, and a model would say just that.
- `fileTreeSim.c`: lengths of names and of the saved text, malloc(), two programs
  that use one file, and what a crash of the whole machine leaves of a file.
- `ch7/`: each program reads three blocks of a disk image and prints fields of
  them; there is no state to get wrong beyond the layout of a structure, and
  `ext2_fs.h` is the layout.
- `proj3/timer.c`: one counter in one handler, which stops after eight ticks.
- `ch3/c3.*.c`: fork, wait, exec and pipe examples of a few statements, among
  them one that does not compile (c3.7.c); the shell makes the same calls.
- `make/` prints a line; `shsim/test.c` is a scratch copy of the shell's helpers.

## Running

    tlc -config IPC.cfg IPC.tla
    tlc -config GaussThreads.cfg GaussThreads.tla
    tlc -config MCFileTree.cfg MCFileTree.tla
    tlc -config MCFileTreeSave.cfg MCFileTreeSave.tla
    tlc -config MCMTKernel.cfg MCMTKernel.tla
    tlc -config MCShell.cfg MCShell.tla
    tlapm IPCProofs.tla
    tlapm GaussProofs.tla
    tlapm ListProofs.tla
    tlapm MTKernelProofs.tla
    tlapm FileTreeProofs.tla
    tlapm PathTreeProofs.tla
    tlapm FileTreeSaveProofs.tla
    tlapm ShellProofs.tla

The configurations with a suffix (`_timer`, `_lost`, `_print`, `_kfork`, `_tail`,
`_trim`) each check one statement of the documentation, and end with a
counterexample.
