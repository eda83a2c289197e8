----------------------------- MODULE IPCProofs -----------------------------
(* Theorems about IPC for every set of texts, every pipe capacity and every *)
(* number of requests.                                                      *)
EXTENDS IPC, TLAPS

-----------------------------------------------------------------------------
(* Type correctness.                                                       *)

\* line[] of either process starts as a line: it is zero.
LEMMA EmptyIsLine == Empty \in Line
  BY DEF Empty, Line

\* Fgets leaves a line in line[].
LEMMA TypedIsLine ==
  ASSUME NEW t \in Texts
  PROVE  [text |-> t, up |-> FALSE, ts |-> 0] \in Line
  BY DEF Line

\* Appending sendTS leaves a line.
LEMMA StampedIsLine ==
  ASSUME NEW l \in Line, NEW n \in Nat
  PROVE  [l EXCEPT !.ts = n] \in Line
  BY DEF Line

\* toUpper leaves a line.
LEMMA UpperIsLine ==
  ASSUME NEW l \in Line
  PROVE  ToUpper(l) \in Line
  BY DEF Line, ToUpper

\* The state right after fork() is well typed.
LEMMA InitTypeOK == Init => TypeOK
<1> SUFFICES ASSUME Init PROVE TypeOK
  OBVIOUS
<1>1. parentLine \in Line /\ childLine \in Line /\ asked \in Line /\ reply \in Line
  BY EmptyIsLine DEF Init
<1>2. downPipe \in Seq(Line) /\ upPipe \in Seq(Line)
  BY DEF Init
<1> QED  BY <1>1, <1>2 DEF Init, TypeOK, MainLocs

\* Every variable keeps its type (the declarations of base.c:12-19 and the
\* positions of the two processes in their code).
THEOREM TypeCorrect == Spec => []TypeOK
<1>1. Init => TypeOK
  BY InitTypeOK
<1>2. TypeOK /\ [Next]_vars => TypeOK'
  <2> SUFFICES ASSUME TypeOK, [Next]_vars
               PROVE  TypeOK'
    OBVIOUS
  <2> USE DEF TypeOK
  <2>1. CASE Parent
    <3> USE DEF At, mainVars, hdlVars, childVars, pipes, history, MainLocs
    <3>1. CASE Install  BY <3>1 DEF Install
    <3>2. CASE Fgets    BY <3>2, TypedIsLine DEF Fgets
    <3>3. CASE Compose
      <4>1. asked.ts + 1 \in Nat
        BY DEF Line
      <4> QED  BY <3>3, <4>1, StampedIsLine DEF Compose
    <3>4. CASE Write    BY <3>4 DEF Write
    <3>5. CASE Kick     BY <3>5 DEF Kick, SignalChild
    <3>6. CASE Test     BY <3>6 DEF Test
    <3>7. CASE Load     BY <3>7 DEF Load
    <3>8. CASE Arm      BY <3>8 DEF Arm
    <3> QED  BY <2>1, <3>1, <3>2, <3>3, <3>4, <3>5, <3>6, <3>7, <3>8 DEF Parent, Busy
  <2>2. CASE Expire
    BY <2>2 DEF Expire, mainVars, childVars, pipes, history
  <2>3. CASE Resignal
    BY <2>3 DEF Resignal, SignalChild, ReturnFromTimer, mainVars, childVars, pipes, history
  <2>4. CASE EnterPhandler
    BY <2>4 DEF EnterPhandler, mainVars, childVars, pipes, history
  <2>5. CASE Phandler
    <3>1. CASE PhCancel
      BY <3>1 DEF PhCancel, childVars, pipes, history
    <3>2. CASE PhMark
      BY <3>2 DEF PhMark, mainVars, childVars, pipes, history
    <3>3. CASE PhRead
      <4>1. Head(upPipe) \in Line /\ Tail(upPipe) \in Seq(Line)
        BY <3>3 DEF PhRead
      <4> QED  BY <3>3, <4>1 DEF PhRead, childVars
    <3> QED  BY <2>5, <3>1, <3>2, <3>3 DEF Phandler
  <2>6. CASE Child
    <3> USE DEF mainVars, hdlVars, pipes, history
    <3>1. CASE ChildInstall   BY <3>1 DEF ChildInstall
    <3>2. CASE ChildKilled    BY <3>2, ZenonT(40) DEF ChildKilled
    <3>3. CASE EnterChandler  BY <3>3 DEF EnterChandler
    <3>4. CASE ChRead
      <4>1. Head(downPipe) \in Line /\ Tail(downPipe) \in Seq(Line)
        BY <3>4 DEF ChRead
      <4> QED  BY <3>4, <4>1, UpperIsLine DEF ChRead
    <3>5. CASE ChWrite        BY <3>5 DEF ChWrite
    <3>6. CASE ChNotify       BY <3>6 DEF ChNotify
    <3> QED  BY <2>6, <3>1, <3>2, <3>3, <3>4, <3>5, <3>6 DEF Child, Chandler
  <2>7. CASE UNCHANGED vars
    BY <2>7 DEF vars
  <2> QED  BY <2>1, <2>2, <2>3, <2>4, <2>5, <2>6, <2>7 DEF Next
<1> QED  BY <1>1, <1>2, PTL DEF Spec

-----------------------------------------------------------------------------
(* The inductive invariant.                                                *)

\* A pipe that holds one line: written to when empty, empty when read.
LEMMA OneLine ==
  ASSUME NEW l
  PROVE  /\ Append(<<>>, l) = <<l>>
         /\ Head(<<l>>) = l
         /\ Tail(<<l>>) = <<>>
         /\ <<l>> # <<>>
         /\ Len(<<l>>) = 1
  OBVIOUS

\* Right after fork() nothing is under way.
LEMMA InvInit == Init => IInv
<1> SUFFICES ASSUME Init PROVE IInv
  OBVIOUS
<1>1. TypeOK
  BY InitTypeOK
<1>2. Quiet /\ ~Awaiting
  BY DEF Init, Quiet, Idle, Awaiting
<1>3. CtxInv
  BY DEF Init, CtxInv
<1>4. ParentInv
  BY DEF Init, ParentInv, ReplyIsForRequest, Empty
<1>5. ChildInv
  BY <1>2 DEF Init, ChildInv, NoLostWakeup
<1> QED  BY <1>1, <1>2, <1>3, <1>4, <1>5 DEF IInv, Places

\* A step of parent() (base.c:79-111) keeps the line asked in one place.
LEMMA InvParent ==
  ASSUME IInv, TypeOK', Parent
  PROVE  IInv'
<1> USE DEF IInv, At, Places
<1>1. ctx = "main" /\ ph = "off" /\ ~th
  BY DEF Parent, Busy, Install, Fgets, Compose, Write, Kick, Test, Load, Arm, CtxInv
<1>2. CtxInv'
  BY <1>1 DEF Parent, Busy, Install, Fgets, Compose, Write, Kick, Test, Load, Arm,
              CtxInv, hdlVars
<1>3. CASE Install
  <2> USE <1>3 DEF Install, hdlVars, childVars, pipes, history, Awaiting
  <2>1. Quiet /\ Quiet' /\ ~Awaiting'
    BY DEF Quiet, InDown, InChild, InUp, Idle
  <2>2. ParentInv'
    BY DEF ParentInv, ReplyIsForRequest, TypeOK
  <2>3. ChildInv'
    BY <2>1 DEF ChildInv, NoLostWakeup, Quiet, InDown
  <2> QED  BY <1>2, <2>1, <2>2, <2>3
<1>4. CASE Fgets
  <2> USE <1>4 DEF Fgets, hdlVars, childVars, pipes, history, Awaiting
  <2>1. Quiet /\ Quiet' /\ ~Awaiting'
    BY DEF Quiet, InDown, InChild, InUp, Idle
  <2>2. ParentInv'
    BY DEF ParentInv, ReplyIsForRequest
  <2>3. ChildInv'
    BY <2>1 DEF ChildInv, NoLostWakeup, Quiet, InDown
  <2> QED  BY <1>2, <2>1, <2>2, <2>3
<1>5. CASE Compose
  <2> USE <1>5 DEF Compose, hdlVars, childVars, pipes, history, Awaiting
  <2>1. Quiet /\ Quiet' /\ ~Awaiting'
    BY DEF Quiet, InDown, InChild, InUp, Idle
  <2>2. ParentInv'
    BY DEF ParentInv, ReplyIsForRequest, TypeOK, Line
  <2>3. ChildInv'
    BY <2>1 DEF ChildInv, NoLostWakeup, Quiet, InDown
  <2> QED  BY <1>2, <2>1, <2>2, <2>3
<1>6. CASE Write
  <2> USE <1>6 DEF Write, hdlVars, childVars, Awaiting
  <2>1. Quiet
    BY DEF InDown, InChild, InUp
  <2>2. downPipe' = <<asked'>>
    BY <2>1, OneLine DEF Quiet
  <2>3. InDown'
    BY <2>1, <2>2 DEF Quiet, InDown, Idle, ParentInv
  <2>4. ParentInv'
    BY DEF ParentInv, ReplyIsForRequest
  <2>5. alive
    BY <2>1 DEF ChildInv, InDown
  <2>6. ChildInv'
    BY <2>1, <2>3, <2>5 DEF ChildInv, NoLostWakeup, Quiet, Idle
  <2> QED  BY <1>2, <2>3, <2>4, <2>6
<1>7. CASE Kick
  <2> USE <1>7 DEF Kick, SignalChild, hdlVars, childVars, pipes, history, Awaiting
  <2>1. Places'
    BY DEF Quiet, InDown, InChild, InUp, Idle
  <2>2. ParentInv'
    BY DEF ParentInv, ReplyIsForRequest
  <2>3. ChildInv'
    BY DEF ChildInv, NoLostWakeup, InDown, Idle
  <2> QED  BY <1>2, <2>1, <2>2, <2>3
<1>8. CASE Test
  <2> USE <1>8 DEF Test, hdlVars, childVars, pipes, history, Awaiting
  <2>1. rplyRecieved # 0 => Quiet
    BY <1>1 DEF InDown, InChild, InUp
  <2>2. Places'
    BY <1>1, <2>1 DEF Quiet, InDown, InChild, InUp, Idle
  <2>3. ParentInv'
    BY <2>1 DEF ParentInv, ReplyIsForRequest, Quiet
  <2>4. ChildInv'
    BY DEF ChildInv, NoLostWakeup, InDown, Idle
  <2> QED  BY <1>2, <2>2, <2>3, <2>4
<1>9. CASE Load \/ Arm
  <2> USE <1>9 DEF Load, Arm, hdlVars, childVars, pipes, history, Awaiting
  <2>1. Places'
    BY DEF Quiet, InDown, InChild, InUp, Idle
  <2>2. ParentInv'
    BY DEF ParentInv, ReplyIsForRequest
  <2>3. ChildInv'
    BY DEF ChildInv, NoLostWakeup, InDown, Idle
  <2> QED  BY <1>2, <2>1, <2>2, <2>3
<1> QED  BY <1>3, <1>4, <1>5, <1>6, <1>7, <1>8, <1>9 DEF Parent, Busy

\* So does a step of timer_handler or phandler, whatever it interrupted
\* (base.c:30-50).
LEMMA InvHandlers ==
  ASSUME IInv, TypeOK', Expire \/ Resignal \/ EnterPhandler \/ Phandler
  PROVE  IInv'
<1> USE DEF IInv, Places
<1>0. cpc \in {"install", "spin"} /\ alive \in BOOLEAN
  BY DEF TypeOK
<1>1. CASE Expire
  <2> USE <1>1 DEF Expire, mainVars, childVars, pipes, history, Awaiting
  <2>1. Places'
    BY DEF Quiet, InDown, InChild, InUp, Idle
  <2>2. CtxInv'
    BY DEF CtxInv
  <2>3. ParentInv'
    BY DEF ParentInv, ReplyIsForRequest
  <2>4. ChildInv'
    BY DEF ChildInv, NoLostWakeup, InDown, Quiet, Idle
  <2> QED  BY <2>1, <2>2, <2>3, <2>4
<1>2. CASE Resignal
  <2> USE <1>2 DEF Resignal, SignalChild, ReturnFromTimer, mainVars, childVars,
                   pipes, history, Awaiting
  <2>1. Places'
    BY DEF Quiet, InDown, InChild, InUp, Idle
  <2>2. CtxInv'
    BY DEF CtxInv
  <2>3. ParentInv'
    BY DEF ParentInv, ReplyIsForRequest
  <2>4. cpc = "install" => InDown
    BY DEF ChildInv, CtxInv
  <2>5. ChildInv'
    BY <2>4 DEF ChildInv, NoLostWakeup, InDown, Idle
  <2> QED  BY <2>1, <2>2, <2>3, <2>5
<1>3. CASE EnterPhandler
  <2> USE <1>3 DEF EnterPhandler, mainVars, childVars, pipes, history, Awaiting
  <2>1. InUp
    BY DEF Quiet, InDown, InChild, Idle
  <2>2. InUp'
    BY <2>1 DEF InUp
  <2>3. CtxInv'
    BY DEF CtxInv
  <2>4. ParentInv'
    BY DEF ParentInv, ReplyIsForRequest
  <2>5. ChildInv'
    BY <2>1, OneLine DEF ChildInv, NoLostWakeup, InDown, InUp, Quiet
  <2> QED  BY <2>2, <2>3, <2>4, <2>5
<1>4. CASE Phandler
  <2>1. InUp
    BY <1>4 DEF Phandler, PhCancel, PhMark, PhRead, Quiet, InDown, InChild, Idle
  <2>2. cpc = "spin" /\ alive /\ Awaiting
    BY <1>0, <2>1, OneLine DEF ChildInv, InDown, InUp, Quiet
  <2>3. CASE PhCancel \/ PhMark
    <3> USE <2>3 DEF PhCancel, PhMark, mainVars, childVars, pipes, history, Awaiting
    <3>1. InUp'
      BY <2>1 DEF InUp
    <3>2. CtxInv'
      BY DEF CtxInv
    <3>3. ParentInv'
      BY <2>2 DEF ParentInv, ReplyIsForRequest
    <3>4. ChildInv'
      BY <2>1, <2>2 DEF ChildInv, NoLostWakeup, InUp
    <3> QED  BY <3>1, <3>2, <3>3, <3>4
  <2>4. CASE PhRead
    <3> USE <2>4 DEF PhRead, childVars
    <3>1. parentLine' = ToUpper(asked) /\ upPipe' = <<>>
      BY <2>1, OneLine DEF InUp
    <3>2. Quiet'
      BY <2>1, <2>2, <3>1 DEF InUp, Quiet, Idle, Awaiting, ToUpper
    <3>3. CtxInv'
      BY DEF CtxInv
    <3>4. ParentInv'
      BY <2>2 DEF ParentInv, ReplyIsForRequest, Awaiting
    <3>5. ChildInv'
      BY <2>1, <2>2 DEF ChildInv, NoLostWakeup, InUp
    <3> QED  BY <3>2, <3>3, <3>4, <3>5
  <2> QED  BY <1>4, <2>3, <2>4 DEF Phandler
<1> QED  BY <1>1, <1>2, <1>3, <1>4

\* So does a step of the child, its death included (base.c:53-76, 114-120).
LEMMA InvChild ==
  ASSUME IInv, TypeOK', Child
  PROVE  IInv'
<1> USE DEF IInv, Places
<1>0. cpc \in {"install", "spin"} /\ alive \in BOOLEAN
  BY DEF TypeOK
<1>1. CtxInv'
  BY DEF Child, Chandler, ChildInstall, ChildKilled, EnterChandler, ChRead, ChWrite,
         ChNotify, hdlVars, CtxInv
<1>2. ParentInv'
  BY DEF Child, Chandler, ChildInstall, ChildKilled, EnterChandler, ChRead, ChWrite,
         ChNotify, mainVars, history, ParentInv, ReplyIsForRequest
<1>3. CASE ChildInstall
  <2> USE <1>3 DEF ChildInstall, mainVars, hdlVars, pipes, history, Awaiting
  <2>1. Places'
    BY DEF Quiet, InDown, InChild, InUp, Idle
  <2>2. ChildInv'
    BY DEF ChildInv, NoLostWakeup
  <2> QED  BY <1>1, <1>2, <2>1, <2>2
<1>4. CASE ChildKilled
  <2> USE <1>4 DEF ChildKilled, mainVars, hdlVars, pipes, history, Awaiting
  <2>1. InDown
    BY DEF ChildInv
  <2>2. InDown'
    BY <2>1 DEF InDown, Idle
  <2>3. ChildInv'
    BY <2>2 DEF ChildInv, NoLostWakeup
  <2> QED  BY <1>1, <1>2, <2>2, <2>3
<1>5. CASE EnterChandler
  <2> USE <1>5 DEF EnterChandler, mainVars, hdlVars, pipes, history, Awaiting
  <2>1. Places'
    BY DEF Quiet, InDown, InChild, InUp, Idle
  <2>2. ChildInv'
    BY DEF ChildInv, NoLostWakeup
  <2> QED  BY <1>1, <1>2, <2>1, <2>2
<1>6. CASE ChRead
  <2> USE <1>6 DEF ChRead, mainVars, hdlVars, history, Awaiting
  <2>1. InDown /\ cpc = "spin" /\ alive
    BY <1>0 DEF Quiet, InChild, InUp, ChildInv
  <2>2. childLine' = ToUpper(asked) /\ downPipe' = <<>>
    BY <2>1, OneLine DEF InDown
  <2>3. InChild'
    BY <2>1, <2>2 DEF InDown, InChild, Idle, ToUpper
  <2>4. ChildInv'
    BY <2>1, <2>2 DEF ChildInv, NoLostWakeup
  <2> QED  BY <1>1, <1>2, <2>3, <2>4
<1>7. CASE ChWrite
  <2> USE <1>7 DEF ChWrite, mainVars, hdlVars, history, Awaiting
  <2>1. InChild /\ cpc = "spin" /\ alive
    BY <1>0 DEF Quiet, InDown, InUp, Idle, ChildInv
  <2>2. upPipe' = <<ToUpper(asked')>> /\ downPipe' = <<>>
    BY <2>1, OneLine DEF InChild, ToUpper
  <2>3. InUp'
    BY <2>1, <2>2 DEF InChild, InUp
  <2>4. ChildInv'
    BY <2>1, <2>2 DEF ChildInv, NoLostWakeup
  <2> QED  BY <1>1, <1>2, <2>3, <2>4
<1>8. CASE ChNotify
  <2> USE <1>8 DEF ChNotify, mainVars, pipes, history, Awaiting
  <2>1. InUp /\ cpc = "spin" /\ alive
    BY <1>0, OneLine DEF Quiet, InDown, InChild, InUp, Idle, ChildInv
  <2>2. InUp'
    BY <2>1 DEF InUp
  <2>3. ChildInv'
    BY <2>1 DEF ChildInv, NoLostWakeup, InUp
  <2> QED  BY <1>1, <1>2, <2>2, <2>3
<1> QED  BY <1>3, <1>4, <1>5, <1>6, <1>7, <1>8 DEF Child, Chandler

\* And a step that changes nothing.
LEMMA InvStutter ==
  ASSUME IInv, UNCHANGED vars
  PROVE  IInv'
  BY DEF IInv, vars, TypeOK, Places, Quiet, InDown, InChild, InUp, Idle, Awaiting,
         CtxInv, ParentInv, ReplyIsForRequest, ChildInv, NoLostWakeup

\* At every moment the line asked is in exactly one place: nowhere (answered),
\* in downPipe, in chandler, or in upPipe with the signal or the handler that
\* will fetch it.
THEOREM Invariance == Spec => []IInv
<1>1. Init => IInv
  BY InvInit
<1>2. IInv /\ TypeOK' /\ [Next]_vars => IInv'
  BY InvParent, InvHandlers, InvChild, InvStutter DEF Next
<1> QED  BY <1>1, <1>2, TypeCorrect, PTL DEF Spec

-----------------------------------------------------------------------------
(* What follows from it.                                                   *)

\* At most one line is under way between parent() and chandler, so no write()
\* of base.c ever finds its pipe full, whatever the pipe holds.
THEOREM StopAndWaitSafe == Spec => []OneOutstanding
<1>1. IInv => OneOutstanding
  <2> SUFFICES ASSUME IInv PROVE OneOutstanding
    OBVIOUS
  <2>1. CASE Quiet    BY <2>1 DEF Quiet, Idle, OneOutstanding
  <2>2. CASE InDown   BY <2>2, OneLine DEF InDown, Idle, OneOutstanding
  <2>3. CASE InChild  BY <2>3 DEF InChild, OneOutstanding
  <2>4. CASE InUp     BY <2>4, OneLine DEF InUp, OneOutstanding
  <2> QED  BY <2>1, <2>2, <2>3, <2>4 DEF IInv, Places
<1> QED  BY <1>1, Invariance, PTL

\* What the user sees before the next prompt is the answer to the line typed
\* last (parent() and phandler share line[] without a lock).
THEOREM RepliesMatch == Spec => []ReplyIsForRequest
<1>1. IInv => ReplyIsForRequest
  BY DEF IInv, ParentInv
<1> QED  BY <1>1, Invariance, PTL

\* phandler's read() (base.c:44) finds a message whenever it is reached.
THEOREM PhandlerNeverBlocks == Spec => []HandlerNeverBlocks
<1>1. IInv => HandlerNeverBlocks
  BY OneLine DEF IInv, Places, Quiet, InDown, InChild, InUp, Idle, HandlerNeverBlocks
<1> QED  BY <1>1, Invariance, PTL

\* A reply comes in only while parent() waits for it in its loop
\* (base.c:103-109) or is about to enter it.
THEOREM NoSharing == Spec => []LineNotShared
<1>1. IInv => LineNotShared
  BY DEF IInv, Places, Quiet, InDown, InChild, InUp, Idle, LineNotShared
<1> QED  BY <1>1, Invariance, PTL

\* A request is never left in downPipe with no SIGUSR1 pending and no chandler
\* about to read it.
THEOREM NoSignalLost == Spec => []NoLostWakeup
<1>1. IInv => NoLostWakeup
  BY DEF IInv, ChildInv
<1> QED  BY <1>1, Invariance, PTL

\* parent() writes only while its child lives (base.c:98).
THEOREM NoBrokenPipe == Spec => []WriteHasReader
<1>1. IInv => WriteHasReader
  <2> SUFFICES ASSUME IInv, ppc = "write" PROVE alive
    BY DEF WriteHasReader
  <2>1. ~InDown
    BY DEF InDown, Awaiting
  <2> QED  BY <2>1 DEF IInv, ChildInv, TypeOK
<1> QED  BY <1>1, Invariance, PTL

-----------------------------------------------------------------------------
(* Refinement.                                                             *)

\* Nothing asked, nothing answered.
LEMMA AbstractInit == Init => Abstract!Init
  BY DEF Init, Abstract!Init, Outstanding, Empty, Abstract!Empty

\* The write() of a line is the abstract Ask.
LEMMA WriteAsks ==
  ASSUME IInv, Write
  PROVE  Abstract!Ask
<1> USE DEF IInv, Write, At
<1>1. Quiet
  BY DEF Places, InDown, InChild, InUp, Awaiting
<1>2. ~Outstanding
  BY <1>1 DEF Quiet, Idle, Outstanding
<1>3. Outstanding'
  BY <1>1, OneLine DEF Quiet, Outstanding
<1>4. parentLine = [text |-> parentLine.text, up |-> FALSE, ts |-> asked.ts + 1]
  BY DEF ParentInv, TypeOK, Line
<1>5. parentLine.text \in Texts
  BY DEF ParentInv
<1> QED  BY <1>2, <1>3, <1>4, <1>5 DEF Abstract!Ask

\* The read() of phandler is the abstract Answer.
LEMMA PhReadAnswers ==
  ASSUME IInv, PhRead
  PROVE  Abstract!Answer
<1> USE DEF IInv, PhRead
<1>1. InUp /\ ch # "write"
  BY DEF Places, Quiet, InDown, InChild, InUp, Idle
<1>2. reply' = ToUpper(asked) /\ upPipe' = <<>> /\ downPipe' = <<>>
  BY <1>1, OneLine DEF InUp
<1>3. Outstanding /\ ~Outstanding'
  BY <1>1, <1>2 DEF Outstanding, childVars
<1> QED  BY <1>2, <1>3 DEF Abstract!Answer, ToUpper, Abstract!ToUpper

\* The line moves from pipe to child to pipe, and stays outstanding.
LEMMA ChildKeepsOutstanding ==
  ASSUME IInv, ChRead \/ ChWrite
  PROVE  Outstanding' = Outstanding
<1>1. CASE ChRead
  BY <1>1 DEF ChRead, Outstanding
<1>2. CASE ChWrite
  <2>1. InChild
    BY <1>2 DEF IInv, Places, Quiet, InDown, InUp, Idle, ChWrite
  <2>2. upPipe' # <<>>
    BY <1>2, <2>1, OneLine DEF ChWrite, InChild
  <2> QED  BY <1>2, <2>2 DEF ChWrite, Outstanding
<1> QED  BY <1>1, <1>2

\* Every other step of base.c leaves the abstract state alone.
LEMMA AbstractStep ==
  ASSUME IInv, [Next]_vars
  PROVE  [Abstract!Next]_(Abstract!vars)
<1> USE DEF Abstract!vars
<1>1. CASE Write
  BY <1>1, WriteAsks DEF Abstract!Next
<1>2. CASE PhRead
  BY <1>2, PhReadAnswers DEF Abstract!Next
<1>3. CASE ChRead \/ ChWrite
  BY <1>3, ChildKeepsOutstanding DEF ChRead, ChWrite, history
<1>4. CASE Install \/ Fgets \/ Compose \/ Kick \/ Test \/ Load \/ Arm
  BY <1>4 DEF Install, Fgets, Compose, Kick, Test, Load, Arm, At, Outstanding,
              pipes, history, childVars
<1>5. CASE Expire \/ Resignal \/ EnterPhandler \/ PhCancel \/ PhMark
  BY <1>5 DEF Expire, Resignal, EnterPhandler, PhCancel, PhMark, Outstanding,
              pipes, history, childVars
<1>6. CASE ChildInstall \/ ChildKilled \/ EnterChandler \/ ChNotify
  BY <1>6 DEF ChildInstall, ChildKilled, EnterChandler, ChNotify, Outstanding,
              pipes, history
<1>7. CASE UNCHANGED vars
  BY <1>7 DEF vars, Outstanding
<1> QED  BY <1>1, <1>2, <1>3, <1>4, <1>5, <1>6, <1>7
         DEF Next, Parent, Busy, Phandler, Child, Chandler

\* The program of base.c implements StopAndWait: each line is answered by its
\* own upper-case form, once, and before the next one is sent.
THEOREM Refinement == Spec => RefinesStopAndWait
<1>1. Init => Abstract!Init
  BY AbstractInit
<1>2. IInv /\ [Next]_vars => [Abstract!Next]_(Abstract!vars)
  BY AbstractStep
<1> QED  BY <1>1, <1>2, Invariance, PTL DEF Spec, RefinesStopAndWait, Abstract!Spec
=============================================================================
