-------------------------- MODULE SignalWaitProofs --------------------------
(***************************************************************************)
(* Proofs about SignalWait, for any number of signals: the first thing the *)
(* portal tells a session is what the wait for it ends with, nothing it    *)
(* has taken is left behind, and the wait implements SessionWait.          *)
(***************************************************************************)
EXTENDS SignalWait, TLAPS

USE NullAssumption

-----------------------------------------------------------------------------
(* Queues.                                                                 *)

(* A delivered signal goes to the end of what is pending.                  *)
LEMMA DeliverFacts ==
  ASSUME NEW S, pending \in Seq(S), NEW s \in S, Deliver(s)
  PROVE  /\ pending' \in Seq(S)
         /\ Len(pending') = Len(pending) + 1
         /\ pending'[Len(pending) + 1] = s
         /\ \A i \in 1..Len(pending) : pending'[i] = pending[i]
         /\ UNCHANGED <<batch, timer, ahead, due, expired, quit>>
  BY DEF Deliver

(* Dispatching a signal takes the first one of the batch.                  *)
LEMMA TakeSignalFacts ==
  ASSUME NEW S, batch \in Seq(S), ahead \in Nat, quit \in BOOLEAN,
         NEW quits \in BOOLEAN, TakeSignal(quits)
  PROVE  /\ batch # <<>> /\ Head(batch) \in S /\ batch[1] = Head(batch)
         /\ Len(batch) \in Nat \ {0}
         /\ batch' \in Seq(S)
         /\ Len(batch') = Len(batch) - 1
         /\ \A i \in 1..Len(batch') : batch'[i] = batch[i + 1]
         /\ ahead' \in Nat
         /\ quit' \in BOOLEAN /\ quit' = (quit \/ quits)
         /\ UNCHANGED <<pending, timer, due, expired>>
  BY DEF TakeSignal, SignalNext

(* An iteration moves all that is pending to the batch.                    *)
LEMMA IterateFacts ==
  ASSUME NEW S, pending \in Seq(S), batch \in Seq(S), ahead \in Nat, Iterate
  PROVE  /\ batch = <<>> /\ ~due
         /\ batch' = pending /\ pending' = <<>>
         /\ batch' \in Seq(S) /\ pending' \in Seq(S)
         /\ due' = TimerReady /\ due' \in BOOLEAN
         /\ ahead' \in Nat
         /\ UNCHANGED <<timer, expired, quit>>
  BY DEF Iterate, Dispatched, TimerReady

(* A signal that tells the session nothing may join a silent queue; one    *)
(* that tells it something is then the first that does; and a queue that   *)
(* tells it something already goes on telling the same.                    *)
LEMMA AppendTells ==
  ASSUME NEW q \in Seq(Signals), NEW r \in Seq(Signals), NEW s \in Signals, NEW c,
         Len(r) = Len(q) + 1, r[Len(q) + 1] = s,
         \A i \in 1..Len(q) : r[i] = q[i]
  PROVE  /\ Silent(q) /\ Cause(s) = "none" => Silent(r)
         /\ Silent(q) => Tells(r, Cause(s))
         /\ Tells(q, c) => Tells(r, c)
<1>1. Len(q) \in Nat
  OBVIOUS
<1>2. Silent(q) /\ Cause(s) = "none" => Silent(r)
  BY <1>1 DEF Silent
<1>3. Silent(q) => Tells(r, Cause(s))
  <2> SUFFICES ASSUME Silent(q) PROVE Tells(r, Cause(s))
    OBVIOUS
  <2>1. Len(q) + 1 \in 1..Len(r) /\ \A j \in 1..(Len(q) + 1) - 1 : Cause(r[j]) = "none"
    BY <1>1 DEF Silent
  <2> QED  BY <2>1 DEF Tells
<1>4. Tells(q, c) => Tells(r, c)
  BY <1>1 DEF Tells
<1> QED  BY <1>2, <1>3, <1>4

(* Without a silent first element a queue goes on telling the same; with a *)
(* first element that tells something, that is what it tells.              *)
LEMMA TailTells ==
  ASSUME NEW q \in Seq(Signals), NEW r \in Seq(Signals), NEW c,
         Len(q) \in Nat \ {0}, Len(r) = Len(q) - 1,
         \A i \in 1..Len(r) : r[i] = q[i + 1]
  PROVE  /\ Silent(q) => Silent(r) /\ Cause(q[1]) = "none"
         /\ c # "none" /\ Tells(q, c) /\ Cause(q[1]) = "none" => Tells(r, c)
         /\ Tells(q, c) /\ Cause(q[1]) # "none" => Cause(q[1]) = c
<1>1. Silent(q) => Silent(r) /\ Cause(q[1]) = "none"
  BY DEF Silent
<1>2. ASSUME c # "none", Tells(q, c), Cause(q[1]) = "none"
      PROVE  Tells(r, c)
  <2>1. PICK i \in 1..Len(q) : /\ Cause(q[i]) = c
                               /\ \A j \in 1..i - 1 : Cause(q[j]) = "none"
    BY <1>2 DEF Tells
  <2>2. i # 1
    BY <1>2, <2>1
  <2>3. i - 1 \in 1..Len(r) /\ Cause(r[i - 1]) = c
    BY <2>1, <2>2
  <2>4. \A j \in 1..(i - 1) - 1 : Cause(r[j]) = "none"
    BY <2>1, <2>2
  <2> QED  BY <2>3, <2>4 DEF Tells
<1>3. ASSUME Tells(q, c), Cause(q[1]) # "none"
      PROVE  Cause(q[1]) = c
  BY <1>3 DEF Tells
<1> QED  BY <1>1, <1>2, <1>3

-----------------------------------------------------------------------------
(* IInv is inductive.                                                      *)

(* Nothing is queued, recorded or armed in an initial state.               *)
LEMMA InitInv == Init => IInv
<1> SUFFICES ASSUME Init PROVE IInv
  OBVIOUS
<1>1. TypeOK
  <2>1. <<>> \in Seq(Signals)
    OBVIOUS
  <2>2. LoopTypeOK(Signals)
    BY <2>1 DEF Init, LoopInit, LoopTypeOK
  <2>3. emitted \in 0..MaxSignals
    BY MaxAssumption DEF Init
  <2> QED  BY <2>2, <2>3 DEF Init, TypeOK, PC, Outcomes
<1>2. TimerInv /\ OutcomeInv /\ EndInv
  BY DEF Init, LoopInit, TimerInv, OutcomeInv, EndInv
<1>3. HeardInv
  BY DEF Init, LoopInit, HeardInv, Silent
<1> QED  BY <1>1, <1>2, <1>3 DEF IInv

(* A signal that is delivered joins the queue; if it is the first to tell  *)
(* the session anything, the queue was silent before it.                   *)
LEMMA EmitStep == ASSUME IInv, NEW s \in Signals, Emit(s) PROVE IInv'
<1>1. UNCHANGED <<settledVars, pc, timed, subs, timeoutFired, outcome>>
  BY DEF Emit
<1>2. CASE s.name \in subs
  <2>1. /\ pending' \in Seq(Signals)
        /\ Len(pending') = Len(pending) + 1 /\ Len(pending) \in Nat
        /\ pending'[Len(pending) + 1] = s
        /\ \A i \in 1..Len(pending) : pending'[i] = pending[i]
        /\ UNCHANGED <<batch, timer, ahead, due, expired, quit>>
    BY <1>2, DeliverFacts DEF IInv, TypeOK, LoopTypeOK, Emit
  <2>2. first' = IF first = "none" THEN Cause(s) ELSE first
    BY <1>2 DEF Emit
  <2>3. Cause(s) \in {"none", "signal", "protocol", "closed"}
    BY DEF Cause
  <2>4. TypeOK'
    BY <1>1, <2>1, <2>2, <2>3, MaxAssumption
    DEF IInv, TypeOK, LoopTypeOK, Emit, settledVars
  <2>5. TimerInv' /\ EndInv'
    BY <1>1, <2>1 DEF IInv, TimerInv, EndInv, settledVars, Settled
  <2>6. HeardInv'
    <3> SUFFICES ASSUME ~Settled'
                 PROVE  \/ first' = "none" /\ Silent(batch') /\ Silent(pending')
                        \/ first' # "none" /\ Tells(batch', first')
                        \/ first' # "none" /\ Silent(batch') /\ Tells(pending', first')
      BY DEF HeardInv
    <3>1. pending \in Seq(Signals) /\ batch' = batch
      BY <2>1 DEF IInv, TypeOK, LoopTypeOK
    <3>2. /\ Silent(pending) /\ Cause(s) = "none" => Silent(pending')
          /\ Silent(pending) => Tells(pending', Cause(s))
          /\ Tells(pending, first) => Tells(pending', first)
      BY <2>1, <3>1, AppendTells
    <3>3. \/ first = "none" /\ Silent(batch) /\ Silent(pending)
          \/ first # "none" /\ Tells(batch, first)
          \/ first # "none" /\ Silent(batch) /\ Tells(pending, first)
      BY <1>1 DEF IInv, HeardInv, Settled, settledVars
    <3> QED  BY <2>2, <3>1, <3>2, <3>3
  <2>7. OutcomeInv'
    BY <1>1, <2>2 DEF IInv, OutcomeInv, settledVars
  <2> QED  BY <2>4, <2>5, <2>6, <2>7 DEF IInv
<1>3. CASE s.name \notin subs
  <2>1. UNCHANGED <<mvars, first>>
    BY <1>3 DEF Emit
  <2>2. TypeOK'
    BY <1>1, <2>1, MaxAssumption DEF IInv, TypeOK, LoopTypeOK, Emit, settledVars, mvars
  <2>3. TimerInv' /\ EndInv' /\ HeardInv' /\ OutcomeInv'
    BY <1>1, <2>1 DEF IInv, TimerInv, EndInv, HeardInv, OutcomeInv, Settled, Silent, Tells,
       settledVars, mvars
  <2> QED  BY <2>2, <2>3 DEF IInv
<1> QED  BY <1>2, <1>3

(* The deadline passes, which changes nothing yet.                         *)
LEMMA TickStep == ASSUME IInv, Tick PROVE IInv'
<1>1. TypeOK'
  BY DEF IInv, TypeOK, LoopTypeOK, Tick, Expire, svars, settledVars, pvars
<1>2. TimerInv' /\ EndInv' /\ HeardInv' /\ OutcomeInv'
  BY DEF IInv, TimerInv, EndInv, HeardInv, OutcomeInv, Settled, Silent, Tells,
     Tick, Expire, svars, settledVars, pvars
<1> QED  BY <1>1, <1>2 DEF IInv

(* Up to the loop nothing is recorded by the wait itself.                  *)
LEMMA EntryStep ==
  ASSUME IInv, SubscribeSignal \/ SubscribeClosed \/ SkipLoop
  PROVE  IInv'
<1>1. pc' \in PC /\ subs' \subseteq {"Activated", "Closed"}
  BY DEF IInv, TypeOK, PC, SubscribeSignal, SubscribeClosed, SkipLoop
<1>2. TypeOK'
  BY <1>1 DEF IInv, TypeOK, LoopTypeOK, SubscribeSignal, SubscribeClosed, SkipLoop,
     mvars, settledVars, pvars
<1>3. TimerInv' /\ EndInv' /\ HeardInv' /\ OutcomeInv'
  BY DEF IInv, TimerInv, EndInv, HeardInv, OutcomeInv, Settled, Silent, Tells,
     SubscribeSignal, SubscribeClosed, SkipLoop, mvars, settledVars, pvars
<1> QED  BY <1>2, <1>3 DEF IInv

(* The loop is entered with nothing recorded and, with a timeout, its      *)
(* source armed.                                                           *)
LEMMA RunLoopStep == ASSUME IInv, RunLoop PROVE IInv'
<1>1. TypeOK'
  <2>1. Len(pending) \in Nat
    BY DEF IInv, TypeOK, LoopTypeOK
  <2> QED  BY <2>1 DEF IInv, TypeOK, LoopTypeOK, PC, RunLoop, ArmTimer, RunUntimed,
              settledVars, pvars
<1>2. TimerInv' /\ EndInv' /\ HeardInv' /\ OutcomeInv'
  BY DEF IInv, TimerInv, EndInv, HeardInv, OutcomeInv, Settled, Silent, Tells,
     RunLoop, ArmTimer, RunUntimed, settledVars, pvars
<1> QED  BY <1>1, <1>2 DEF IInv

(* What was pending is in the batch, in the same order.                    *)
LEMMA LoopIteratesStep == ASSUME IInv, LoopIterates PROVE IInv'
<1>1. /\ batch = <<>> /\ ~due
      /\ batch' = pending /\ pending' = <<>>
      /\ batch' \in Seq(Signals) /\ pending' \in Seq(Signals)
      /\ due' = TimerReady /\ due' \in BOOLEAN
      /\ ahead' \in Nat
      /\ UNCHANGED <<timer, expired, quit>>
  BY IterateFacts DEF IInv, TypeOK, LoopTypeOK, LoopIterates
<1>2. UNCHANGED svars
  BY DEF LoopIterates
<1>3. TypeOK'
  BY <1>1, <1>2 DEF IInv, TypeOK, LoopTypeOK, svars, settledVars, pvars
<1>4. TimerInv' /\ EndInv' /\ OutcomeInv'
  <2>1. UNCHANGED <<settledVars, pc, subs, first, timeoutFired, outcome>>
    BY <1>2 DEF svars, pvars
  <2>2. TimerInv'
    BY <1>1, <2>1 DEF IInv, TimerInv, TimerReady, LoopIterates, settledVars
  <2>3. EndInv' /\ OutcomeInv'
    BY <1>1, <2>1 DEF IInv, EndInv, OutcomeInv, Settled, settledVars
  <2> QED  BY <2>2, <2>3
<1>5. HeardInv'
  <2>1. Silent(batch) /\ ~Tells(batch, first) /\ Silent(pending')
    BY <1>1 DEF Silent, Tells
  <2> QED  BY <1>1, <1>2, <2>1 DEF IInv, HeardInv, Settled, svars, settledVars, pvars
<1> QED  BY <1>3, <1>4, <1>5 DEF IInv

(* A verdict on a signal is a cause: what is dropped tells the session     *)
(* nothing, and what is recorded records what it tells.                    *)
LEMMA VerdictIsCause ==
  ASSUME NEW s \in Signals, ~Settled
  PROVE  /\ Verdict(s) = "drop" => Cause(s) = "none"
         /\ Verdict(s) = "closed" => Cause(s) = "closed"
         /\ Verdict(s) = "malformed" => Cause(s) = "protocol"
         /\ Verdict(s) = "take" =>
              /\ s \in Pairs
              /\ Cause(s) = IF s.body = "mistyped" THEN "protocol" ELSE "signal"
         /\ Verdict(s) \in {"drop", "closed", "malformed", "take"}
<1>1. CASE s.name = "Closed"
  BY <1>1 DEF Verdict, Cause
<1>2. CASE s.name # "Closed"
  <2>1. /\ s.name = "Activated"
        /\ s.handle \in {"ours", "theirs", NULL}
        /\ s.body \in {"good", "mistyped", "bad"}
    BY <1>2 DEF Signals
  <2>2. Verdict(s) = Classify(s)
    BY <1>2 DEF Verdict
  <2> QED  BY <1>2, <2>1, <2>2 DEF Classify, Cause, Pairs
<1> QED  BY <1>1, <1>2

(* The head of the batch is recorded if nothing has been; only then does   *)
(* it say what the session was told first.                                 *)
LEMMA OnSignalStep == ASSUME IInv, OnSignal PROVE IInv'
<1> DEFINE s == Head(batch)
<1>1. /\ batch # <<>> /\ s \in Signals /\ batch[1] = s
      /\ Len(batch) \in Nat \ {0}
      /\ batch' \in Seq(Signals)
      /\ Len(batch') = Len(batch) - 1
      /\ \A i \in 1..Len(batch') : batch'[i] = batch[i + 1]
      /\ ahead' \in Nat
      /\ quit' \in BOOLEAN /\ quit' = (quit \/ Ends(Verdict(s)))
      /\ UNCHANGED <<pending, timer, due, expired>>
  BY TakeSignalFacts DEF IInv, TypeOK, LoopTypeOK, OnSignal, Ends
<1>2. /\ pc \in {"ready", "run"}
      /\ result'    = IF Verdict(s) = "take" THEN s ELSE result
      /\ malformed' = IF Verdict(s) = "malformed" THEN s ELSE malformed
      /\ sessionClosed' = (sessionClosed \/ Verdict(s) = "closed")
      /\ UNCHANGED <<pc, timed, subs, pvars, timedOut, timeoutFired, outcome>>
  BY DEF OnSignal, Ends
<1>3. batch \in Seq(Signals) /\ pending \in Seq(Signals)
  BY DEF IInv, TypeOK, LoopTypeOK
<1> HIDE DEF s
<1>4. CASE Settled
  <2>1. Verdict(s) = "drop"
    BY <1>4 DEF Verdict
  <2>2. UNCHANGED settledVars
    BY <1>2, <2>1 DEF IInv, TypeOK, settledVars
  <2>3. quit' = quit
    BY <1>1, <2>1 DEF IInv, TypeOK, LoopTypeOK, Ends
  <2>4. TypeOK'
    BY <1>1, <1>2, <2>2 DEF IInv, TypeOK, LoopTypeOK, settledVars, pvars
  <2>5. TimerInv' /\ EndInv' /\ HeardInv' /\ OutcomeInv'
    BY <1>1, <1>2, <1>4, <2>2, <2>3
    DEF IInv, TimerInv, EndInv, HeardInv, OutcomeInv, Settled, settledVars, pvars
  <2> QED  BY <2>4, <2>5 DEF IInv
<1>5. CASE ~Settled
  <2>1. /\ Verdict(s) = "drop" => Cause(s) = "none"
        /\ Verdict(s) = "closed" => Cause(s) = "closed"
        /\ Verdict(s) = "malformed" => Cause(s) = "protocol"
        /\ Verdict(s) = "take" =>
             /\ s \in Pairs
             /\ Cause(s) = IF s.body = "mistyped" THEN "protocol" ELSE "signal"
        /\ Verdict(s) \in {"drop", "closed", "malformed", "take"}
    BY <1>1, <1>5, VerdictIsCause
  <2>2. result = NULL /\ malformed = NULL /\ ~sessionClosed /\ ~timedOut
    BY <1>5 DEF Settled
  <2>3. s # NULL
    BY <1>1
  <2>4. /\ Silent(batch) => Silent(batch') /\ Cause(s) = "none"
        /\ first # "none" /\ Tells(batch, first) /\ Cause(s) = "none" => Tells(batch', first)
        /\ Tells(batch, first) /\ Cause(s) # "none" => Cause(s) = first
    BY <1>1, <1>3, TailTells
  <2>5. Verdict(s) # "drop" => Cause(s) # "none"
    BY <2>1
  <2>6. \/ first = "none" /\ Silent(batch) /\ Silent(pending)
        \/ first # "none" /\ Tells(batch, first)
        \/ first # "none" /\ Silent(batch) /\ Tells(pending, first)
    BY <1>5 DEF IInv, HeardInv
  <2>7. Verdict(s) # "drop" => Cause(s) = first
    BY <2>4, <2>5, <2>6
  <2>8. TypeOK'
    BY <1>1, <1>2, <2>1 DEF IInv, TypeOK, LoopTypeOK, pvars
  <2>9. TimerInv'
    BY <1>1, <1>2 DEF IInv, TimerInv
  <2>10. OutcomeInv'
    BY <1>2, <2>1, <2>2, <2>3, <2>7 DEF OutcomeInv, pvars
  <2>11. EndInv'
    BY <1>1, <1>2, <1>5, <2>1, <2>3 DEF IInv, EndInv, Settled, Ends
  <2>12. HeardInv'
    <3>1. CASE Verdict(s) = "drop"
      BY <1>1, <1>2, <2>1, <2>4, <2>6, <3>1 DEF HeardInv, pvars
    <3>2. CASE Verdict(s) # "drop"
      BY <1>2, <2>1, <2>3, <3>2 DEF HeardInv, Settled
    <3> QED  BY <3>1, <3>2
  <2> QED  BY <2>8, <2>9, <2>10, <2>11, <2>12 DEF IInv
<1> QED  BY <1>4, <1>5

(* The timeout is recorded if nothing else has been.                       *)
LEMMA OnTimeoutStep == ASSUME IInv, OnTimeout PROVE IInv'
<1>1. TypeOK'
  BY DEF IInv, TypeOK, LoopTypeOK, OnTimeout, TakeTimer, pvars, Settled
<1>2. TimerInv' /\ EndInv' /\ OutcomeInv'
  BY DEF IInv, TimerInv, EndInv, OutcomeInv, Settled, OnTimeout, TakeTimer, TimerNext, pvars
<1>3. HeardInv'
  BY DEF HeardInv, Settled, OnTimeout
<1> QED  BY <1>1, <1>2, <1>3 DEF IInv

(* Both ways out of the loop remove the source exactly if it is there.     *)
LEMMA LoopEndsStep == ASSUME IInv, LoopReturns \/ LoopInterrupted PROVE IInv'
<1>1. TypeOK'
  <2>1. pc' \in PC /\ outcome' \in Outcomes
    BY DEF IInv, TypeOK, PC, Outcomes, LoopReturns, LoopInterrupted
  <2>2. UNCHANGED <<settledVars, timed, subs, pvars, timeoutFired>>
    BY DEF LoopReturns, LoopInterrupted
  <2>3. LoopTypeOK(Signals)'
    BY DEF IInv, TypeOK, LoopTypeOK, LoopReturns, LoopInterrupted, RemoveSource,
       RemoveTimer, mvars
  <2> QED  BY <2>1, <2>2, <2>3 DEF IInv, TypeOK, settledVars, pvars
<1>2. TimerInv' /\ EndInv' /\ HeardInv' /\ OutcomeInv'
  BY DEF IInv, TimerInv, EndInv, HeardInv, OutcomeInv, Settled, Silent, Tells,
     LoopReturns, LoopInterrupted, RemoveSource, RemoveTimer, Dispatched,
     mvars, settledVars, pvars
<1> QED  BY <1>1, <1>2 DEF IInv

(* The outer finally gives the subscriptions back.                         *)
LEMMA FinishStep == ASSUME IInv, Finish PROVE IInv'
<1>1. TypeOK'
  BY DEF IInv, TypeOK, LoopTypeOK, PC, Outcomes, Finish, SignalOutcome, mvars,
     settledVars, pvars
<1>2. TimerInv' /\ EndInv' /\ HeardInv' /\ OutcomeInv'
  BY DEF IInv, TimerInv, EndInv, HeardInv, OutcomeInv, Settled, Silent, Tells,
     Finish, mvars, settledVars, pvars
<1> QED  BY <1>1, <1>2 DEF IInv

(* Every step of the portal, the clock or the wait keeps IInv.             *)
LEMMA StepInv == IInv /\ [Next]_vars => IInv'
<1> SUFFICES ASSUME IInv, [Next]_vars PROVE IInv'
  OBVIOUS
<1>1. CASE Wait
  BY <1>1, EntryStep, RunLoopStep, LoopIteratesStep, OnSignalStep, OnTimeoutStep,
     LoopEndsStep, FinishStep
  DEF Wait
<1>2. CASE UNCHANGED vars
  BY <1>2 DEF vars, mvars, svars, settledVars, pvars, IInv, TypeOK, LoopTypeOK, TimerInv,
     EndInv, HeardInv, OutcomeInv, Settled, Silent, Tells
<1> QED  BY <1>1, <1>2, EmitStep, TickStep DEF Next

(* IInv holds in every reachable state.                                    *)
LEMMA Invariance == Spec => []IInv
  BY InitInv, StepInv, PTL DEF Spec

-----------------------------------------------------------------------------
(* What follows.                                                           *)

(* The state of the wait and of its main loop is always well formed.       *)
THEOREM Typing == Spec => []TypeOK
<1>1. IInv => TypeOK
  BY DEF IInv
<1> QED  BY <1>1, Invariance, PTL

(* However the wait ends, both subscriptions and the timer are given back, *)
(* and no source is removed twice (portal.py:1202-1211, 1322-1348).        *)
THEOREM Cleanup == Spec => []CleanedUp
<1>1. IInv => CleanedUp
  BY DEF IInv, TimerInv, EndInv, CleanedUp
<1> QED  BY <1>1, Invariance, PTL

(* What is recorded first is what is recorded, though one iteration may    *)
(* dispatch the signal, Closed and the timeout (portal.py:1214-1225).      *)
THEOREM FirstOutcome == Spec => FirstOutcomeWins
<1>1. IInv /\ [Next]_vars => [Settled => UNCHANGED settledVars]_vars
  <2> SUFFICES ASSUME IInv, [Next]_vars, Settled PROVE UNCHANGED settledVars
    OBVIOUS
  <2>1. ASSUME NEW s \in Signals, Emit(s) PROVE UNCHANGED settledVars
    BY <2>1 DEF Emit
  <2>2. CASE OnSignal
    BY <2>2 DEF IInv, TypeOK, OnSignal, Verdict, Ends, settledVars
  <2>3. CASE OnTimeout
    BY <2>3 DEF IInv, TypeOK, OnTimeout, settledVars
  <2>4. CASE Wait /\ ~OnSignal /\ ~OnTimeout
    BY <2>4 DEF Wait, SubscribeSignal, SubscribeClosed, SkipLoop, RunLoop, LoopIterates,
       LoopReturns, LoopInterrupted, Finish, svars
  <2>5. CASE Tick \/ UNCHANGED vars
    BY <2>5 DEF Tick, vars, svars
  <2> QED  BY <2>1, <2>2, <2>3, <2>4, <2>5 DEF Next
<1> QED  BY <1>1, Invariance, PTL DEF Spec, FirstOutcomeWins

-----------------------------------------------------------------------------
(* The wait implements SessionWait.                                        *)

(* Finish ends a wait that was not interrupted, with what the session was  *)
(* told first or with the timeout that was due.                            *)
LEMMA FinishEnds ==
  ASSUME IInv, Finish, outcome = "none"
  PROVE  \E o \in Promise!Causes \cup {"timeout", "interrupt"} : Promise!End(o)
<1>1. /\ pc = "cleanup" /\ Settled
      /\ outcome' = SignalOutcome
      /\ UNCHANGED <<first, expired>>
  BY DEF IInv, EndInv, Finish, mvars, pvars
<1>2. CASE timedOut
  <2>1. SignalOutcome = "timeout" /\ expired
    BY <1>2 DEF IInv, TimerInv, OutcomeInv, SignalOutcome
  <2> QED  BY <1>1, <2>1 DEF Promise!End
<1>3. CASE ~timedOut
  <2>1. SignalOutcome = first /\ first \in {"signal", "protocol", "closed"}
    BY <1>1, <1>3 DEF IInv, OutcomeInv, Settled, SignalOutcome
  <2> QED  BY <1>1, <2>1 DEF Promise!End, Promise!Causes
<1> QED  BY <1>2, <1>3

(* Every step of the wait, the portal or the clock is one of SessionWait   *)
(* or leaves what it sees alone.                                           *)
LEMMA StepRefines ==
  ASSUME IInv, [Next]_vars
  PROVE  [Promise!Next]_(Promise!vars)
<1>1. ASSUME NEW s \in Signals, Emit(s) PROVE [Promise!Next]_(Promise!vars)
  <2>1. UNCHANGED <<outcome, expired>>
    BY <1>1 DEF Emit, Deliver, mvars
  <2>2. CASE first' = first
    BY <2>1, <2>2 DEF Promise!vars
  <2>3. CASE first' # first
    <3>1. first = "none" /\ first' = Cause(s) /\ Cause(s) # "none"
      BY <1>1, <2>3 DEF Emit
    <3>2. Cause(s) \in Promise!Causes
      BY <3>1 DEF Cause, Promise!Causes
    <3>3. Promise!Tell(Cause(s))
      BY <2>1, <3>1 DEF Promise!Tell
    <3> QED  BY <3>2, <3>3 DEF Promise!Next
  <2> QED  BY <2>2, <2>3
<1>2. CASE Tick
  <2>1. Promise!Deadline
    BY <1>2 DEF Tick, Expire, svars, pvars, Promise!Deadline
  <2> QED  BY <2>1 DEF Promise!Next
<1>3. CASE Finish /\ outcome = "none"
  BY <1>3, FinishEnds DEF Promise!Next
<1>4. CASE Finish /\ outcome # "none"
  BY <1>4 DEF Finish, mvars, pvars, Promise!vars
<1>5. CASE LoopInterrupted
  <2>1. outcome = "none" /\ outcome' = "interrupt" /\ UNCHANGED <<first, expired>>
    BY <1>5 DEF IInv, EndInv, LoopInterrupted, RemoveSource, RemoveTimer, mvars, pvars
  <2>2. Promise!End("interrupt")
    BY <2>1 DEF Promise!End
  <2> QED  BY <2>2 DEF Promise!Next
<1>6. CASE Wait /\ ~Finish /\ ~LoopInterrupted
  <2>1. UNCHANGED <<first, expired, outcome>>
    BY <1>6 DEF Wait, SubscribeSignal, SubscribeClosed, SkipLoop, RunLoop, ArmTimer,
       RunUntimed, LoopIterates, Iterate, OnSignal, TakeSignal, OnTimeout, TakeTimer,
       LoopReturns, RemoveSource, RemoveTimer, mvars, svars, pvars
  <2> QED  BY <2>1 DEF Promise!vars
<1>7. CASE UNCHANGED vars
  BY <1>7 DEF vars, mvars, svars, pvars, Promise!vars
<1> QED  BY <1>1, <1>2, <1>3, <1>4, <1>5, <1>6, <1>7 DEF Next

(* A wait ends at most once, with the first thing the portal tells the     *)
(* session, a timeout that was due or an interrupt, whatever the order in  *)
(* which signals are emitted and dispatched.                               *)
THEOREM Refinement == Spec => IsWait
<1>1. Init => Promise!Init
  BY DEF Init, LoopInit, Promise!Init
<1>2. IInv /\ [Next]_vars => [Promise!Next]_(Promise!vars)
  BY StepRefines
<1> QED  BY <1>1, <1>2, Invariance, PTL DEF Spec, IsWait, Promise!Spec
=============================================================================
