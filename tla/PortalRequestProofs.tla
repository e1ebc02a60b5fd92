------------------------ MODULE PortalRequestProofs ------------------------
(***************************************************************************)
(* Proofs about PortalRequest, for any set of response codes, any number   *)
(* of signals and any order in which a main loop may dispatch them: the    *)
(* round trip gives back what it took, loses no answer, and implements     *)
(* RoundTrip.                                                              *)
(***************************************************************************)
EXTENDS PortalRequest, TLAPS

USE NullAssumption

-----------------------------------------------------------------------------
(* The main loop, whatever the signals are.                                *)

(* A delivered signal goes to the end of what is pending.                  *)
LEMMA DeliverFacts ==
  ASSUME NEW S, pending \in Seq(S), NEW s \in S, Deliver(s)
  PROVE  /\ pending' \in Seq(S)
         /\ Len(pending') = Len(pending) + 1
         /\ pending'[Len(pending) + 1] = s
         /\ \A i \in 1..Len(pending) : pending'[i] = pending[i]
         /\ UNCHANGED <<batch, timer, ahead, due, expired, quit>>
  BY DEF Deliver

(* Dispatching a signal takes the first one of the batch.                  *)
LEMMA TakeSignalFacts ==
  ASSUME NEW S, batch \in Seq(S), ahead \in Nat, quit \in BOOLEAN,
         NEW quits \in BOOLEAN, TakeSignal(quits)
  PROVE  /\ batch # <<>> /\ Head(batch) \in S /\ batch[1] = Head(batch)
         /\ Len(batch) \in Nat \ {0}
         /\ batch' \in Seq(S)
         /\ Len(batch') = Len(batch) - 1
         /\ \A i \in 1..Len(batch') : batch'[i] = batch[i + 1]
         /\ ahead' \in Nat
         /\ quit' \in BOOLEAN /\ quit' = (quit \/ quits)
         /\ UNCHANGED <<pending, timer, due, expired>>
  BY DEF TakeSignal, SignalNext

(* An iteration moves all that is pending to the batch.                    *)
LEMMA IterateFacts ==
  ASSUME NEW S, pending \in Seq(S), batch \in Seq(S), ahead \in Nat, Iterate
  PROVE  /\ batch = <<>> /\ ~due
         /\ batch' = pending /\ pending' = <<>>
         /\ batch' \in Seq(S) /\ pending' \in Seq(S)
         /\ due' = TimerReady /\ due' \in BOOLEAN
         /\ ahead' \in Nat
         /\ UNCHANGED <<timer, expired, quit>>
  BY DEF Iterate, Dispatched, TimerReady

-----------------------------------------------------------------------------
(* IInv is inductive.                                                      *)

(* Nothing is queued, recorded or armed in the initial state.              *)
LEMMA InitInv == Init => IInv
<1> SUFFICES ASSUME Init PROVE IInv
  OBVIOUS
<1>1. TypeOK
  <2>1. <<>> \in Seq(Responses)
    OBVIOUS
  <2> QED  BY <2>1 DEF Init, LoopInit, TypeOK, LoopTypeOK, PC, Outcomes
<1>2. TimerInv /\ SubsInv /\ EndInv /\ InTimeInv
  BY DEF Init, LoopInit, TimerInv, SubsInv, EndInv, InTimeInv
<1>3. SentInv /\ AnswerHeard
  BY DEF Init, LoopInit, SentInv, AnswerHeard
<1> QED  BY <1>1, <1>2, <1>3 DEF IInv

(* A Response that comes while its path is subscribed to is queued.  The   *)
(* expected one is subscribed to as long as anybody waits for it.          *)
LEMMA EmitStep ==
  ASSUME IInv, NEW r \in Responses, Emit(r)
  PROVE  IInv'
<1>1. CASE r.path \in subs
  <2>1. /\ pending' \in Seq(Responses)
        /\ Len(pending') = Len(pending) + 1 /\ Len(pending) \in Nat
        /\ pending'[Len(pending) + 1] = r
        /\ \A i \in 1..Len(pending) : pending'[i] = pending[i]
        /\ UNCHANGED <<batch, timer, ahead, due, expired, quit>>
    BY <1>1, DeliverFacts DEF IInv, TypeOK, LoopTypeOK, Emit
  <2>2. TypeOK'
    BY <2>1 DEF IInv, TypeOK, LoopTypeOK, Emit
  <2>3. TimerInv' /\ SubsInv' /\ EndInv' /\ InTimeInv'
    BY <2>1 DEF IInv, TimerInv, SubsInv, EndInv, InTimeInv, Emit
  <2>4. SentInv'
    BY <2>1 DEF IInv, SentInv, Emit
  <2>5. AnswerHeard'
    BY <2>1 DEF IInv, AnswerHeard, InQueue, Emit
  <2> QED  BY <2>2, <2>3, <2>4, <2>5 DEF IInv
<1>2. CASE r.path \notin subs
  <2>1. TypeOK'
    BY <1>2 DEF IInv, TypeOK, LoopTypeOK, Emit, mvars
  <2>2. TimerInv' /\ SubsInv' /\ EndInv' /\ InTimeInv'
    BY <1>2 DEF IInv, TimerInv, SubsInv, EndInv, InTimeInv, Emit, mvars
  <2>3. SentInv'
    BY <1>2 DEF IInv, SentInv, Emit, mvars
  <2>4. AnswerHeard'
    BY <1>2 DEF IInv, TypeOK, PC, SubsInv, AnswerHeard, InQueue, Emit, mvars
  <2> QED  BY <2>1, <2>2, <2>3, <2>4 DEF IInv
<1> QED  BY <1>1, <1>2

(* The deadline passes: what was recorded before stays in time.            *)
LEMMA TickStep == ASSUME IInv, Tick PROVE IInv'
<1>1. TypeOK'
  BY DEF IInv, TypeOK, LoopTypeOK, Tick, Expire, rvars
<1>2. TimerInv' /\ SubsInv' /\ SentInv' /\ EndInv' /\ InTimeInv' /\ AnswerHeard'
  BY DEF IInv, TimerInv, SubsInv, SentInv, EndInv, InTimeInv, AnswerHeard, InQueue,
         Tick, Expire, rvars
<1> QED  BY <1>1, <1>2 DEF IInv

(* The steps of _request up to the loop touch neither queue nor result.    *)
LEMMA SubscribeStep == ASSUME IInv, Subscribe PROVE IInv'
<1>1. TypeOK'
  BY DEF IInv, TypeOK, LoopTypeOK, Subscribe, mvars, PC, Paths
<1>2. TimerInv' /\ SubsInv' /\ SentInv' /\ EndInv' /\ InTimeInv' /\ AnswerHeard'
  BY DEF IInv, TimerInv, SubsInv, SentInv, EndInv, InTimeInv, AnswerHeard, InQueue,
         Subscribe, mvars
<1> QED  BY <1>1, <1>2 DEF IInv

(* The reply of the call may add a second path and takes none away.        *)
LEMMA CallReturnsStep ==
  ASSUME IInv, NEW handle \in Paths \cup {NULL}, CallReturns(handle)
  PROVE  IInv'
<1>1. TypeOK'
  BY DEF IInv, TypeOK, LoopTypeOK, CallReturns, mvars, PC
<1>2. TimerInv' /\ SubsInv' /\ SentInv' /\ EndInv' /\ InTimeInv' /\ AnswerHeard'
  BY DEF IInv, TimerInv, SubsInv, SentInv, EndInv, InTimeInv, AnswerHeard, InQueue,
         CallReturns, mvars
<1> QED  BY <1>1, <1>2 DEF IInv

(* A call that raises has armed no timer.                                  *)
LEMMA CallRaisesStep == ASSUME IInv, NEW o \in Outcomes, CallRaises(o) PROVE IInv'
<1>1. TypeOK'
  BY DEF IInv, TypeOK, LoopTypeOK, CallRaises, mvars, PC, Outcomes
<1>2. TimerInv' /\ SubsInv' /\ SentInv' /\ EndInv' /\ InTimeInv' /\ AnswerHeard'
  BY DEF IInv, TimerInv, SubsInv, SentInv, EndInv, InTimeInv, AnswerHeard, InQueue,
         CallRaises, mvars, Dispatched
<1> QED  BY <1>1, <1>2 DEF IInv

(* With the reply there the loop is left out, and no timer is armed.       *)
LEMMA SkipLoopStep == ASSUME IInv, SkipLoop PROVE IInv'
<1>1. TypeOK'
  BY DEF IInv, TypeOK, LoopTypeOK, SkipLoop, mvars, PC
<1>2. TimerInv' /\ SubsInv' /\ SentInv' /\ EndInv' /\ InTimeInv' /\ AnswerHeard'
  BY DEF IInv, TimerInv, SubsInv, SentInv, EndInv, InTimeInv, AnswerHeard, InQueue,
         SkipLoop, mvars
<1> QED  BY <1>1, <1>2 DEF IInv

(* The deadline's source is armed, behind what is pending.                 *)
LEMMA RunLoopStep == ASSUME IInv, RunLoop PROVE IInv'
<1>1. TypeOK'
  <2>1. Len(pending) \in Nat
    BY DEF IInv, TypeOK, LoopTypeOK
  <2> QED  BY <2>1 DEF IInv, TypeOK, LoopTypeOK, RunLoop, ArmTimer, PC
<1>2. TimerInv' /\ SubsInv' /\ SentInv' /\ EndInv' /\ InTimeInv' /\ AnswerHeard'
  BY DEF IInv, TimerInv, SubsInv, SentInv, EndInv, InTimeInv, AnswerHeard, InQueue,
         RunLoop, ArmTimer
<1> QED  BY <1>1, <1>2 DEF IInv

(* What was pending is in the batch; the deadline is in it only if it has  *)
(* passed, and then no reply has been recorded in time.                    *)
LEMMA LoopIteratesStep == ASSUME IInv, LoopIterates PROVE IInv'
<1>1. /\ batch = <<>> /\ ~due
      /\ batch' = pending /\ pending' = <<>>
      /\ batch' \in Seq(Responses) /\ pending' \in Seq(Responses)
      /\ due' = TimerReady /\ due' \in BOOLEAN
      /\ ahead' \in Nat
      /\ UNCHANGED <<timer, expired, quit>>
  BY IterateFacts DEF IInv, TypeOK, LoopTypeOK, LoopIterates
<1>2. TypeOK'
  BY <1>1 DEF IInv, TypeOK, LoopTypeOK, LoopIterates, rvars
<1>3. TimerInv' /\ SubsInv' /\ EndInv' /\ InTimeInv'
  BY <1>1 DEF IInv, TimerInv, SubsInv, EndInv, InTimeInv, LoopIterates, rvars, TimerReady
<1>4. SentInv'
  BY <1>1 DEF IInv, SentInv, LoopIterates, rvars
<1>5. AnswerHeard'
  BY <1>1 DEF IInv, AnswerHeard, InQueue, LoopIterates, rvars
<1> QED  BY <1>2, <1>3, <1>4, <1>5 DEF IInv

(* A dispatched Response is recorded unless it is unreadable or comes too  *)
(* late, and one that is recorded quits the loop.                          *)
LEMMA OnResponseStep == ASSUME IInv, OnResponse PROVE IInv'
<1> DEFINE r == Head(batch)
<1>1. /\ batch # <<>> /\ r \in Responses /\ batch[1] = r
      /\ Len(batch) \in Nat \ {0}
      /\ batch' \in Seq(Responses)
      /\ Len(batch') = Len(batch) - 1
      /\ \A i \in 1..Len(batch') : batch'[i] = batch[i + 1]
      /\ ahead' \in Nat
      /\ quit' \in BOOLEAN /\ quit' = (quit \/ Records(r))
      /\ UNCHANGED <<pending, timer, due, expired>>
  BY TakeSignalFacts DEF IInv, TypeOK, LoopTypeOK, OnResponse, Records
<1>2. /\ pc \in {"call", "run"}
      /\ result' = IF Records(r) THEN r ELSE result
      /\ late'   = IF Records(r) THEN expired ELSE late
      /\ UNCHANGED <<pc, subs, sent, timedOut, outcome>>
  BY DEF OnResponse
<1>3. r \in sent
  BY <1>1 DEF IInv, SentInv
<1> HIDE DEF r
<1>4. TypeOK'
  BY <1>1, <1>2 DEF IInv, TypeOK, LoopTypeOK
<1>5. TimerInv' /\ SubsInv' /\ EndInv' /\ InTimeInv'
  BY <1>1, <1>2 DEF IInv, TimerInv, SubsInv, EndInv, InTimeInv, Records
<1>6. SentInv'
  BY <1>1, <1>2, <1>3 DEF IInv, SentInv, Records
<1>7. AnswerHeard'
  <2>1. ASSUME NEW s \in sent, s.path = "expected", result' = NULL, s.code # NULL
        PROVE  InQueue(s, pending') \/ InQueue(s, batch')
    <3>1. result = NULL /\ ~Records(r)
      BY <1>1, <1>2, <2>1 DEF Records
    <3>2. s # r
      BY <2>1, <3>1 DEF Records
    <3>3. InQueue(s, pending) \/ InQueue(s, batch)
      BY <1>2, <2>1, <3>1 DEF IInv, AnswerHeard
    <3>4. CASE InQueue(s, pending)
      BY <1>1, <3>4 DEF InQueue
    <3>5. CASE InQueue(s, batch)
      <4>1. PICK i \in 1..Len(batch) : batch[i] = s
        BY <3>5 DEF InQueue
      <4>2. i # 1 /\ i - 1 \in 1..Len(batch') /\ batch'[i - 1] = s
        BY <1>1, <3>2, <4>1
      <4> QED  BY <4>2 DEF InQueue
    <3> QED  BY <3>3, <3>4, <3>5
  <2>2. timedOut' /\ result' # NULL => late'
    BY <1>1, <1>2 DEF IInv, AnswerHeard, TimerInv
  <2> QED  BY <1>2, <2>1, <2>2 DEF AnswerHeard
<1> QED  BY <1>4, <1>5, <1>6, <1>7 DEF IInv

(* The deadline is dispatched: with a reply recorded in time it would not  *)
(* have been due.                                                          *)
LEMMA OnTimeoutStep == ASSUME IInv, OnTimeout PROVE IInv'
<1>1. TypeOK'
  BY DEF IInv, TypeOK, LoopTypeOK, OnTimeout, TakeTimer
<1>2. TimerInv' /\ SubsInv' /\ SentInv' /\ EndInv' /\ InTimeInv' /\ AnswerHeard'
  BY DEF IInv, TimerInv, SubsInv, SentInv, EndInv, InTimeInv, AnswerHeard, InQueue,
         OnTimeout, TakeTimer, TimerNext
<1> QED  BY <1>1, <1>2 DEF IInv

(* Both ways out of the loop remove the source exactly if it is there.     *)
LEMMA LoopEndsStep == ASSUME IInv, LoopReturns \/ LoopInterrupted PROVE IInv'
<1>1. TypeOK'
  BY DEF IInv, TypeOK, LoopTypeOK, LoopReturns, LoopInterrupted, RemoveSource,
         RemoveTimer, mvars, PC, Outcomes
<1>2. TimerInv' /\ SubsInv' /\ SentInv' /\ EndInv' /\ InTimeInv' /\ AnswerHeard'
  BY DEF IInv, TimerInv, SubsInv, SentInv, EndInv, InTimeInv, AnswerHeard, InQueue,
         LoopReturns, LoopInterrupted, RemoveSource, RemoveTimer, Dispatched, mvars
<1> QED  BY <1>1, <1>2 DEF IInv

(* The outer finally gives the subscriptions back.                         *)
LEMMA FinishStep == ASSUME IInv, Finish PROVE IInv'
<1>1. TypeOK'
  BY DEF IInv, TypeOK, LoopTypeOK, Finish, mvars, PC, Outcomes
<1>2. TimerInv' /\ SubsInv' /\ SentInv' /\ EndInv' /\ InTimeInv' /\ AnswerHeard'
  BY DEF IInv, TimerInv, SubsInv, SentInv, EndInv, InTimeInv, AnswerHeard, InQueue,
         Finish, mvars
<1> QED  BY <1>1, <1>2 DEF IInv

(* Every step of the portal, the clock or _request keeps IInv.             *)
LEMMA StepInv == IInv /\ [Next]_vars => IInv'
<1> SUFFICES ASSUME IInv, [Next]_vars PROVE IInv'
  OBVIOUS
<1>1. CASE Portal
  BY <1>1, EmitStep DEF Portal
<1>2. CASE Tick
  BY <1>2, TickStep
<1>3. CASE Request
  BY <1>3, SubscribeStep, CallReturnsStep, CallRaisesStep, SkipLoopStep, RunLoopStep,
     LoopIteratesStep, OnResponseStep, OnTimeoutStep, LoopEndsStep, FinishStep
  DEF Request
<1>4. CASE UNCHANGED vars
  BY <1>4 DEF vars, mvars, rvars, IInv, TypeOK, LoopTypeOK, TimerInv, SubsInv, SentInv,
     EndInv, InTimeInv, AnswerHeard, InQueue
<1> QED  BY <1>1, <1>2, <1>3, <1>4 DEF Next

(* IInv holds in every reachable state.                                    *)
LEMMA Invariance == Spec => []IInv
  BY InitInv, StepInv, PTL DEF Spec

-----------------------------------------------------------------------------
(* What follows.                                                           *)

(* The state of _request and of its main loop is always well formed.       *)
THEOREM Typing == Spec => []TypeOK
<1>1. IInv => TypeOK
  BY DEF IInv
<1> QED  BY <1>1, Invariance, PTL

(* However _request ends, its subscriptions and its timer are gone, and    *)
(* nothing is removed twice (portal.py:551-567).                           *)
THEOREM Cleanup == Spec => []CleanedUp
<1>1. IInv => CleanedUp
  BY DEF IInv, TimerInv, SubsInv, CleanedUp
<1> QED  BY <1>1, Invariance, PTL

(* No Response on the expected path is lost, and one recorded in time is   *)
(* the outcome (portal.py:437-450, 545-550).                               *)
THEOREM Racelessness == Spec => []AnswerHeard
<1>1. IInv => AnswerHeard
  BY DEF IInv
<1> QED  BY <1>1, Invariance, PTL

(* A recorded reply is never replaced (portal.py:484-497).                 *)
THEOREM FirstReply == Spec => FirstReplyWins
<1>1. [Next]_vars => [result # NULL => result' = result]_vars
  <2> SUFFICES ASSUME [Next]_vars, result # NULL PROVE result' = result
    OBVIOUS
  <2>1. CASE Portal
    BY <2>1 DEF Portal, Emit
  <2>2. CASE Tick
    BY <2>2 DEF Tick, rvars
  <2>3. CASE Request
    BY <2>3 DEF Request, Subscribe, CallReturns, CallRaises, SkipLoop, RunLoop,
       LoopIterates, OnResponse, Records, OnTimeout, LoopReturns, LoopInterrupted,
       Finish, rvars
  <2>4. CASE UNCHANGED vars
    BY <2>4 DEF vars, rvars
  <2> QED  BY <2>1, <2>2, <2>3, <2>4 DEF Next
<1> QED  BY <1>1, PTL DEF Spec, FirstReplyWins

-----------------------------------------------------------------------------
(* _request implements RoundTrip.                                          *)

(* Only Finish ends the round trip: with the exception under way, with the *)
(* timeout that is then due, or with a code that was sent.                 *)
LEMMA FinishEnds ==
  ASSUME IInv, Finish
  PROVE  \E o \in Codes \cup {"error", "interrupt"} \cup {"timeout"} : Trip!End(o)
<1>1. pc = "cleanup" /\ pc' = "done" /\ UNCHANGED <<sent, result, expired>>
  BY DEF Finish, mvars
<1>2. CASE outcome # "none"
  <2>1. outcome \in {"timeout", "error", "interrupt"} /\ outcome' = outcome
        /\ (outcome = "timeout" => expired)
    BY <1>1, <1>2 DEF IInv, EndInv, Finish
  <2> QED  BY <1>1, <2>1 DEF Trip!End
<1>3. CASE outcome = "none" /\ timedOut
  <2>1. outcome' = "timeout" /\ expired
    BY <1>3 DEF IInv, TimerInv, Finish
  <2> QED  BY <1>1, <2>1 DEF Trip!End
<1>4. CASE outcome = "none" /\ ~timedOut
  <2>1. outcome' = "reply" /\ result # NULL
    BY <1>1, <1>4 DEF IInv, EndInv, Finish
  <2>2. result \in sent /\ result.code \in Codes /\ result.code # NULL
    BY <2>1 DEF IInv, TypeOK, SentInv, Responses
  <2> QED  BY <1>1, <2>1, <2>2 DEF Trip!End
<1> QED  BY <1>2, <1>3, <1>4

(* Every other step is a step of RoundTrip or leaves what it sees alone.   *)
LEMMA StepRefines ==
  ASSUME IInv, [Next]_vars
  PROVE  [Trip!Next]_(Trip!vars)
<1>1. ASSUME NEW r \in Responses, Emit(r) PROVE [Trip!Next]_(Trip!vars)
  <2>1. UNCHANGED <<pc, result, outcome, expired>> /\ sent' = sent \cup {r}
    BY <1>1 DEF Emit, Deliver, mvars
  <2>2. CASE r.code = NULL
    BY <2>1, <2>2 DEF Trip!vars
  <2>3. CASE r.code # NULL
    <3>1. r.code \in Codes
      BY <2>3 DEF Responses
    <3>2. Trip!Answer(r.code)
      BY <2>1, <2>3 DEF Trip!Answer
    <3> QED  BY <3>1, <3>2 DEF Trip!Next
  <2> QED  BY <2>2, <2>3
<1>2. CASE Tick
  <2>1. Trip!Deadline
    BY <1>2 DEF Tick, Expire, rvars, Trip!Deadline
  <2> QED  BY <2>1 DEF Trip!Next
<1>3. CASE Finish
  BY <1>3, FinishEnds DEF Trip!Next
<1>4. ASSUME Request, ~Finish PROVE UNCHANGED Trip!vars
  <2>1. UNCHANGED <<sent, expired>> /\ pc # "done" /\ pc' # "done"
    BY <1>4 DEF Request, Subscribe, CallReturns, CallRaises, SkipLoop, RunLoop, ArmTimer,
       LoopIterates, Iterate, OnResponse, TakeSignal, OnTimeout, TakeTimer, LoopReturns,
       LoopInterrupted, RemoveSource, RemoveTimer, mvars, rvars
  <2> QED  BY <2>1 DEF Trip!vars
<1>5. CASE UNCHANGED vars
  BY <1>5 DEF vars, mvars, rvars, Trip!vars
<1> QED  BY <1>1, <1>2, <1>3, <1>4, <1>5 DEF Next, Portal

(* Every round trip ends at most once, with a code the portal has sent for *)
(* it, a timeout that was due, an error of the call or an interrupt.       *)
THEOREM Refinement == Spec => IsRoundTrip
<1>1. Init => Trip!Init
  BY DEF Init, LoopInit, Trip!Init
<1>2. IInv /\ [Next]_vars => [Trip!Next]_(Trip!vars)
  BY StepRefines
<1> QED  BY <1>1, <1>2, Invariance, PTL DEF Spec, IsRoundTrip, Trip!Spec
=============================================================================
