----------------------------- MODULE SignalWait -----------------------------
(***************************************************************************)
(* _wait_for_signal: InputCaptureSession.wait_for_activation and           *)
(* wait_for_deactivation, which block in a nested GLib main loop until     *)
(* the compositor emits Activated (Deactivated) for this session, the      *)
(* session is closed from the other side, or the timeout, if there is one, *)
(* has passed.                                                             *)
(*                                                                         *)
(* A signal is emitted on the portal object for every session and names    *)
(* its session in its first argument; Closed is emitted on the session's   *)
(* own path.  GDBus dispatches in the loop only; a connection that         *)
(* dispatches as soon as it is subscribed to is possible too.              *)
(***************************************************************************)
EXTENDS MainLoop, FiniteSets

CONSTANTS NULL,
          MaxSignals   \* bound: signals the portal emits

ASSUME MaxAssumption == MaxSignals \in Nat

(* A signal: its name; the session handle in its payload, NULL when there  *)
(* is none or it is no string; and the rest of the payload: "good", an     *)
(* option of the wrong type, or not the shape (handle, options) at all.    *)
Signals == [name   : {"Activated"},
            handle : {"ours", "theirs", NULL},
            body   : {"good", "mistyped", "bad"}]
           \cup {[name |-> "Closed", handle |-> "ours", body |-> "good"]}

ASSUME NullAssumption == NULL \notin Signals \cup {"ours", "theirs"}

(* What wait_for_activation can unpack: (session_handle, options).         *)
Pairs == {s \in Signals : s.name = "Activated" /\ s.handle = "ours"
                          /\ s.body # "bad"}

VARIABLES
  pc,            \* where _wait_for_signal is
  timed,         \* timeout is not None
  subs,          \* the signal names subscribed to
  emitted,       \* how many signals the portal has emitted
  open,          \* the portal still has the session
  first,         \* what it told the session first, of what was delivered
  result,        \* result["args"]
  malformed,     \* malformed["args"]
  timedOut,      \* timed_out
  timeoutFired,  \* timeout_fired
  sessionClosed, \* session_closed
  outcome        \* how the wait ends

settledVars == <<result, malformed, timedOut, sessionClosed>>
pvars == <<emitted, open, first>>  \* the portal's
svars == <<settledVars, pc, timed, subs, pvars, timeoutFired, outcome>>
vars  == <<mvars, svars>>

PC == {"start", "half", "ready", "run", "cleanup", "done"}
Outcomes == {"none", "signal", "closed", "protocol", "timeout", "interrupt"}

TypeOK ==
  /\ LoopTypeOK(Signals)
  /\ pc        \in PC
  /\ timed     \in BOOLEAN
  /\ subs      \subseteq {"Activated", "Closed"}
  /\ emitted   \in 0..MaxSignals
  /\ open      \in BOOLEAN
  /\ first     \in {"none", "signal", "protocol", "closed"}
  /\ result    \in Pairs \cup {NULL}
  /\ malformed \in Signals \cup {NULL}
  /\ timedOut      \in BOOLEAN
  /\ timeoutFired  \in BOOLEAN
  /\ sessionClosed \in BOOLEAN
  /\ outcome   \in Outcomes

Init ==
  /\ LoopInit
  /\ pc        = "start"
  /\ timed     \in BOOLEAN
  /\ subs      = {}
  /\ emitted   = 0
  /\ open      = TRUE
  /\ first     = "none"
  /\ result    = NULL
  /\ malformed = NULL
  /\ timedOut      = FALSE
  /\ timeoutFired  = FALSE
  /\ sessionClosed = FALSE
  /\ outcome   = "none"

-----------------------------------------------------------------------------
(* What a signal tells the session, in the terms of SessionWait; one of    *)
(* another session tells it nothing.                                       *)
Cause(s) ==
  IF s.name = "Closed" THEN "closed"
  ELSE CASE s.handle = "theirs" -> "none"
         [] s.handle = "ours" /\ s.body = "good" -> "signal"
         [] OTHER -> "protocol"

(* The portal (external): it ends a session once, and then has nothing     *)
(* more to say for it.                                                     *)
Emit(s) ==
  /\ emitted < MaxSignals
  /\ s.handle = "ours" => open
  /\ emitted' = emitted + 1
  /\ open'    = (open /\ s.name # "Closed")
  /\ IF s.name \in subs
     THEN Deliver(s) /\ first' = IF first = "none" THEN Cause(s) ELSE first
     ELSE UNCHANGED <<mvars, first>>
  /\ UNCHANGED <<settledVars, pc, timed, subs, timeoutFired, outcome>>

(* The timeout runs from timeout_add.                                      *)
Tick ==
  /\ timer = "armed"
  /\ Expire
  /\ UNCHANGED svars

-----------------------------------------------------------------------------
SubscribeSignal ==
  /\ pc = "start"
  /\ pc'   = "half"
  /\ subs' = {"Activated"}
  /\ UNCHANGED <<mvars, settledVars, timed, pvars, timeoutFired, outcome>>

SubscribeClosed ==
  /\ pc = "half"
  /\ pc'   = "ready"
  /\ subs' = subs \cup {"Closed"}
  /\ UNCHANGED <<mvars, settledVars, timed, pvars, timeoutFired, outcome>>

Settled == result # NULL \/ malformed # NULL \/ timedOut \/ sessionClosed

SkipLoop ==
  /\ pc = "ready"
  /\ Dispatched
  /\ result # NULL \/ sessionClosed \/ malformed # NULL
  /\ pc' = "cleanup"
  /\ UNCHANGED <<mvars, settledVars, timed, subs, pvars, timeoutFired,
                 outcome>>

(* Mutant of RunLoop: no timeout source is attached.                       *)
RunLoopUntimed ==
  /\ pc = "ready"
  /\ Dispatched
  /\ result = NULL /\ ~sessionClosed /\ malformed = NULL
  /\ pc' = "run"
  /\ RunUntimed
  /\ UNCHANGED <<settledVars, timed, subs, pvars, timeoutFired, outcome>>

RunLoop ==
  /\ pc = "ready"
  /\ Dispatched
  /\ result = NULL /\ ~sessionClosed /\ malformed = NULL
  /\ pc' = "run"
  /\ IF timed THEN ArmTimer ELSE RunUntimed
  /\ UNCHANGED <<settledVars, timed, subs, pvars, timeoutFired, outcome>>

LoopIterates ==
  /\ \/ pc = "ready" /\ pending # <<>>
     \/ pc = "run" /\ ~quit
  /\ Iterate
  /\ UNCHANGED svars

(* Mutant of Classify: the session a signal names is not looked at.        *)
ClassifyAnySession(s) ==
  IF s.handle = NULL \/ s.body = "bad" THEN "malformed" ELSE "take"

(* _classify_signal_payload: two shape checks, the session between them.   *)
Classify(s) ==
  CASE s.handle = NULL   -> "malformed"
    [] s.handle = "theirs" -> "drop"
    [] OTHER -> IF s.body = "bad" THEN "malformed" ELSE "take"

Verdict(s) ==
  IF Settled THEN "drop" ELSE IF s.name = "Closed" THEN "closed" ELSE Classify(s)

Ends(verdict) == verdict # "drop"

(* on_signal and on_closed: the first outcome is recorded.                 *)
OnSignal ==
  /\ pc \in {"ready", "run"}
  /\ LET s == Head(batch)
         verdict == Verdict(s)
     IN /\ TakeSignal(Ends(verdict))
        /\ result'    = IF verdict = "take" THEN s ELSE result
        /\ malformed' = IF verdict = "malformed" /\ Ends(verdict)
                        THEN s ELSE malformed
        /\ sessionClosed' = (sessionClosed \/ verdict = "closed")
  /\ UNCHANGED <<pc, timed, subs, pvars, timedOut, timeoutFired, outcome>>

(* Mutants of OnTimeout: the timeout is recorded over a recorded outcome;  *)
(* timeout_fired is set on the way that times out only.                    *)
OnTimeoutUnsettled ==
  /\ pc = "run"
  /\ TakeTimer(TRUE)
  /\ timeoutFired' = TRUE
  /\ timedOut' = TRUE
  /\ UNCHANGED <<pc, timed, subs, pvars, result, malformed,
                 sessionClosed, outcome>>

OnTimeoutLateFlag ==
  /\ pc = "run"
  /\ TakeTimer(~Settled)
  /\ timeoutFired' = ~Settled
  /\ timedOut' = (timedOut \/ ~Settled)
  /\ UNCHANGED <<pc, timed, subs, pvars, result, malformed,
                 sessionClosed, outcome>>

OnTimeout ==
  /\ pc = "run"
  /\ TakeTimer(~Settled)
  /\ timeoutFired' = TRUE
  /\ timedOut' = (timedOut \/ ~Settled)
  /\ UNCHANGED <<pc, timed, subs, pvars, result, malformed,
                 sessionClosed, outcome>>

(* The inner finally.                                                      *)
RemoveSource ==
  IF timer # "none" /\ ~timeoutFired THEN RemoveTimer ELSE UNCHANGED mvars

LoopReturns ==
  /\ pc = "run"
  /\ quit
  /\ Dispatched
  /\ RemoveSource
  /\ pc' = "cleanup"
  /\ UNCHANGED <<settledVars, timed, subs, pvars, timeoutFired, outcome>>

LoopInterrupted ==
  /\ pc = "run"
  /\ Dispatched
  /\ RemoveSource
  /\ pc'      = "cleanup"
  /\ outcome' = "interrupt"
  /\ UNCHANGED <<settledVars, timed, subs, pvars, timeoutFired>>

(* _signal_outcome, then the conversion of the options in                  *)
(* wait_for_activation and wait_for_deactivation.                          *)
SignalOutcome ==
  CASE sessionClosed     -> "closed"
    [] malformed # NULL  -> "protocol"
    [] timedOut          -> "timeout"
    [] OTHER -> IF result.body = "mistyped" THEN "protocol" ELSE "signal"

Finish ==
  /\ pc = "cleanup"
  /\ pc'   = "done"
  /\ subs' = {}
  /\ outcome' = IF outcome = "none" THEN SignalOutcome ELSE outcome
  /\ UNCHANGED <<mvars, settledVars, timed, pvars, timeoutFired>>

-----------------------------------------------------------------------------
Wait == \/ SubscribeSignal
        \/ SubscribeClosed
        \/ SkipLoop
        \/ RunLoop
        \/ LoopIterates
        \/ OnSignal
        \/ OnTimeout
        \/ LoopReturns
        \/ LoopInterrupted
        \/ Finish

Next == (\E s \in Signals : Emit(s)) \/ Tick \/ Wait

Spec == Init /\ [][Next]_vars

(* Time passes, the loop and the Python code keep running; the portal and  *)
(* the user owe nothing.                                                   *)
Fairness ==
  /\ WF_vars(Tick)
  /\ WF_vars(LoopIterates \/ OnSignal \/ OnTimeout)
  /\ WF_vars(SubscribeSignal \/ SubscribeClosed \/ SkipLoop \/ RunLoop
             \/ LoopReturns \/ Finish)

FairSpec == Spec /\ Fairness

-----------------------------------------------------------------------------
(* Properties.                                                             *)

(* The first outcome recorded is the only one: a delivered activation is   *)
(* not replaced by a timeout or by Closed dispatched in the same iteration *)
(* (portal.py:1214-1225).                                                  *)
FirstOutcomeWins == [][Settled => UNCHANGED settledVars]_vars

(* The wait implements SessionWait: what the caller gets is the first      *)
(* thing the portal told this session, never a later one, a mixture or     *)
(* what was meant for another session, and a PortalTimeoutError only when  *)
(* the deadline has passed (portal.py:1065-1097, 1214-1276, 1354-1380).    *)
Promise == INSTANCE SessionWait WITH late <- expired
IsWait  == Promise!Spec

(* However the wait ends, both subscriptions and the timer are given back, *)
(* and no source is removed that is gone, also when the signal and the     *)
(* deadline came in the same iteration (portal.py:1202-1211, 1322-1348).   *)
CleanedUp == /\ pc = "done" => subs = {} /\ timer # "armed"
             /\ timer # "missing"

(* The wait ends: at its deadline, whatever the portal does, and with or   *)
(* without one once the portal tells the session anything.  A malformed    *)
(* payload does not hang it, nor does the end of the session while the     *)
(* loop runs (portal.py:1227-1276, 1304-1334).                             *)
WaitEnds ==
  /\ timed ~> pc = "done"
  /\ first # "none" ~> pc = "done"
  /\ [](pc = "run" /\ open => [](~open => <>(pc = "done")))

(* CHANGELOG.md:104: "A portal session closed from the compositor's side   *)
(* now ends a wait instead of hanging it".  Here: also a session that was  *)
(* closed before the wait subscribed to Closed.                            *)
ClosedSessionEndsWait == ~open ~> pc = "done"

-----------------------------------------------------------------------------
(* The inductive invariant behind the safety properties, in parts; proved  *)
(* in SignalWaitProofs.                                                    *)

(* Where the timeout's source is, from its creation to the finally.        *)
TimerInv ==
  /\ pc \in {"start", "half", "ready"} => timer = "none"
  /\ pc = "run" => timer \in {"none", "armed", "fired"}
  /\ pc \in {"cleanup", "done"} => timer # "armed"
  /\ timer # "missing"
  /\ timeoutFired <=> timer = "fired"
  /\ due => pc = "run" /\ timer = "armed" /\ expired
  /\ timedOut => expired

(* One outcome is recorded at most, and it is what the session was told    *)
(* first, unless it is the timeout.                                        *)
OutcomeInv ==
  /\ result # NULL =>
       /\ first = IF result.body = "mistyped" THEN "protocol" ELSE "signal"
       /\ malformed = NULL /\ ~sessionClosed /\ ~timedOut
  /\ malformed # NULL => first = "protocol" /\ ~sessionClosed /\ ~timedOut
  /\ sessionClosed => first = "closed" /\ ~timedOut

(* While nothing is recorded, what the session was told first is the first *)
(* thing in the queue that tells it anything.                              *)
Silent(q)  == \A i \in 1..Len(q) : Cause(q[i]) = "none"
Tells(q, c) ==
  \E i \in 1..Len(q) : /\ Cause(q[i]) = c
                       /\ \A j \in 1..i - 1 : Cause(q[j]) = "none"

HeardInv ==
  ~Settled => \/ first = "none" /\ Silent(batch) /\ Silent(pending)
              \/ first # "none" /\ Tells(batch, first)
              \/ first # "none" /\ Silent(batch) /\ Tells(pending, first)

(* Why the loop was left, and how the wait will end.                       *)
EndInv ==
  /\ pc = "run" /\ quit => Settled
  /\ pc \in {"start", "half", "ready", "run"} => outcome = "none"
  /\ pc = "cleanup" => /\ outcome \in {"none", "interrupt"}
                       /\ outcome = "none" => Settled
  /\ pc = "done" => subs = {}

IInv == TypeOK /\ TimerInv /\ OutcomeInv /\ HeardInv /\ EndInv
=============================================================================
