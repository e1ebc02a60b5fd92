--------------------------- MODULE PortalRequest ---------------------------
(***************************************************************************)
(* _request: one Request-returning portal call (CreateSession, Start,      *)
(* GetZones, ...) and the wait for its Response signal, in a nested GLib   *)
(* main loop with a deadline.                                              *)
(*                                                                         *)
(* The Response may come on the path derived from our own handle_token     *)
(* ("expected") or on another handle the call returns ("other"), at any    *)
(* time after the call was made, also before the call has returned.  Some  *)
(* connections dispatch signals while call_sync is running; GDBus keeps    *)
(* them for the loop.  Both happen here.                                   *)
(*                                                                         *)
(* An interrupt (KeyboardInterrupt) arrives in the two calls that block.   *)
(***************************************************************************)
EXTENDS MainLoop, FiniteSets

CONSTANTS Codes,   \* response codes
          NULL

ASSUME CodesAssumption == NULL \notin Codes

Paths == {"expected", "other"}

(* A Response: the path it is emitted on and its code; a payload that is   *)
(* not the pair (code, results) has none.                                  *)
Responses == [path : Paths, code : Codes \cup {NULL}]

ASSUME NullAssumption == NULL \notin Responses

VARIABLES
  pc,        \* where _request is
  subs,      \* paths the connection has a subscription for
  sent,      \* Responses the portal has emitted
  result,    \* the Response recorded, NULL before
  late,      \* the deadline had passed when result was recorded
  timedOut,  \* timed_out
  outcome    \* how _request ends: "none" while it runs

rvars == <<pc, subs, sent, result, late, timedOut, outcome>>
vars  == <<mvars, rvars>>

PC == {"start", "call", "returned", "run", "cleanup", "done"}
Outcomes == {"none", "reply", "timeout", "error", "interrupt"}

TypeOK ==
  /\ LoopTypeOK(Responses)
  /\ pc       \in PC
  /\ subs     \subseteq Paths
  /\ sent     \subseteq Responses
  /\ result   \in Responses \cup {NULL}
  /\ late     \in BOOLEAN
  /\ timedOut \in BOOLEAN
  /\ outcome  \in Outcomes

Init ==
  /\ LoopInit
  /\ pc       = "start"
  /\ subs     = {}
  /\ sent     = {}
  /\ result   = NULL
  /\ late     = FALSE
  /\ timedOut = FALSE
  /\ outcome  = "none"

-----------------------------------------------------------------------------
(* The portal and the clock (external).                                    *)

(* The portal answers a request at most once on one path.  What nobody has *)
(* subscribed to is lost.                                                  *)
Emit(r) ==
  /\ pc # "start"
  /\ \A s \in sent : s.path # r.path
  /\ sent' = sent \cup {r}
  /\ IF r.path \in subs THEN Deliver(r) ELSE UNCHANGED mvars
  /\ UNCHANGED <<pc, subs, result, late, timedOut, outcome>>

Tick ==
  /\ Expire
  /\ UNCHANGED rvars

-----------------------------------------------------------------------------
(* Mutant of Subscribe: the subscription is left until after the call.     *)
SubscribeLate ==
  /\ pc = "start"
  /\ pc' = "call"
  /\ UNCHANGED <<mvars, subs, sent, result, late, timedOut, outcome>>

(* The deadline is set, the expected path known and subscribed to, before  *)
(* the call is made.                                                       *)
Subscribe ==
  /\ pc = "start"
  /\ pc'   = "call"
  /\ subs' = {"expected"}
  /\ UNCHANGED <<mvars, sent, result, late, timedOut, outcome>>

(* The call returns a request handle, NULL when the reply is unreadable;   *)
(* a handle other than the expected path is subscribed to as well.         *)
CallReturns(handle) ==
  /\ pc = "call"
  /\ Dispatched
  /\ pc'   = "returned"
  /\ subs' = subs \cup ({handle} \ {NULL})
  /\ UNCHANGED <<mvars, sent, result, late, timedOut, outcome>>

(* The call raises: PortalTimeoutError once the deadline has passed,       *)
(* PortalError for another D-Bus failure, KeyboardInterrupt.               *)
CallRaises(o) ==
  /\ pc = "call"
  /\ Dispatched
  /\ o \in {"timeout", "error", "interrupt"}
  /\ o = "timeout" => expired
  /\ pc'      = "cleanup"
  /\ outcome' = o
  /\ UNCHANGED <<mvars, subs, sent, result, late, timedOut>>

(* The answer came during the call: the loop is never run.                 *)
SkipLoop ==
  /\ pc = "returned"
  /\ result # NULL
  /\ pc' = "cleanup"
  /\ UNCHANGED <<mvars, subs, sent, result, late, timedOut, outcome>>

RunLoopUntimed ==
  /\ pc = "returned"
  /\ result = NULL
  /\ pc' = "run"
  /\ RunUntimed
  /\ UNCHANGED <<subs, sent, result, late, timedOut, outcome>>

RunLoop ==
  /\ pc = "returned"
  /\ result = NULL
  /\ pc' = "run"
  /\ ArmTimer
  /\ UNCHANGED <<subs, sent, result, late, timedOut, outcome>>

LoopIterates ==
  /\ \/ pc = "call" /\ pending # <<>>
     \/ pc = "run" /\ ~quit
  /\ Iterate
  /\ UNCHANGED rvars

(* Mutants of Records: the last reply wins; a reply that cannot be         *)
(* unpacked is recorded.                                                   *)
RecordsLast(r) == r.code # NULL
RecordsAny(r)  == result = NULL

(* The first reply that can be unpacked wins.                              *)
Records(r) == result = NULL /\ r.code # NULL

(* The exception that unpacking another one raises dies in the callback.   *)
OnResponse ==
  /\ pc \in {"call", "run"}
  /\ LET r == Head(batch) IN
       /\ TakeSignal(Records(r))
       /\ result' = IF Records(r) THEN r ELSE result
       /\ late'   = IF Records(r) THEN expired ELSE late
  /\ UNCHANGED <<pc, subs, sent, timedOut, outcome>>

OnTimeout ==
  /\ pc = "run"
  /\ TakeTimer(TRUE)
  /\ timedOut' = TRUE
  /\ UNCHANGED <<pc, subs, sent, result, late, outcome>>

(* Mutant of RemoveSource: a fired source is removed once more.            *)
RemoveSourceAlways == RemoveTimer

(* The inner finally.                                                      *)
RemoveSource == IF timedOut THEN UNCHANGED mvars ELSE RemoveTimer

LoopReturns ==
  /\ pc = "run"
  /\ quit
  /\ Dispatched
  /\ RemoveSource
  /\ pc' = "cleanup"
  /\ UNCHANGED <<subs, sent, result, late, timedOut, outcome>>

(* SIGINT: MainLoop.run returns after the iteration and raises.            *)
LoopInterrupted ==
  /\ pc = "run"
  /\ Dispatched
  /\ RemoveSource
  /\ pc'      = "cleanup"
  /\ outcome' = "interrupt"
  /\ UNCHANGED <<subs, sent, result, late, timedOut>>

(* The outer finally, then the exception under way, PortalTimeoutError or  *)
(* the reply.                                                              *)
Finish ==
  /\ pc = "cleanup"
  /\ pc'   = "done"
  /\ subs' = {}
  /\ outcome' = IF outcome # "none" THEN outcome
                ELSE IF timedOut THEN "timeout"
                ELSE "reply"
  /\ UNCHANGED <<mvars, sent, result, late, timedOut>>

-----------------------------------------------------------------------------
Portal == \E r \in Responses : Emit(r)

Request == \/ Subscribe
           \/ \E handle \in Paths \cup {NULL} : CallReturns(handle)
           \/ \E o \in Outcomes : CallRaises(o)
           \/ SkipLoop
           \/ RunLoop
           \/ LoopIterates
           \/ OnResponse
           \/ OnTimeout
           \/ LoopReturns
           \/ LoopInterrupted
           \/ Finish

Next == Portal \/ Tick \/ Request

Spec == Init /\ [][Next]_vars

(* Time passes, GDBus bounds the call by the time that is left, and the    *)
(* loop and the Python code keep running.  The portal owes nothing, and    *)
(* neither the call's reply nor an interrupt need ever come.               *)
Fairness ==
  /\ WF_vars(Tick)
  /\ WF_vars(CallRaises("timeout"))
  /\ WF_vars(LoopIterates \/ OnResponse \/ OnTimeout)
  /\ WF_vars(Subscribe \/ SkipLoop \/ RunLoop \/ LoopReturns \/ Finish)

FairSpec == Spec /\ Fairness

-----------------------------------------------------------------------------
(* Properties.                                                             *)

(* However _request ends, no subscription and no live timer is left on the *)
(* shared connection and main context, where a later request would run     *)
(* them into a dead closure; and no source is removed that is gone, which  *)
(* raises the critical "Source ID was not found" (portal.py:551-567).      *)
CleanedUp == /\ pc = "done" => subs = {} /\ timer # "armed"
             /\ timer # "missing"

(* A reply once recorded is not replaced, whichever subscription fires     *)
(* next (portal.py:484-497).                                               *)
FirstReplyWins == [][result # NULL => result' = result]_vars

(* Racelessness (portal.py:437-450, 545-550): a Response on the expected   *)
(* path is never lost, however early it is emitted.  While _request can    *)
(* still use it, it has been recorded, refused as unreadable or beaten by  *)
(* another reply, or it is waiting to be dispatched; and once recorded in  *)
(* time it is what the caller gets: the loop is not run on, or run again,  *)
(* with the reply already there.                                           *)
InQueue(r, s) == \E i \in 1..Len(s) : s[i] = r

AnswerHeard ==
  /\ \A r \in sent :
       r.path = "expected" /\ pc \notin {"cleanup", "done"}
         => \/ result # NULL
            \/ r.code = NULL
            \/ InQueue(r, pending) \/ InQueue(r, batch)
  /\ timedOut /\ result # NULL => late

(* The round trip ends, at the deadline at the latest, whatever the portal *)
(* does or does not do (portal.py:452-459).                                *)
Ends == pc = "call" ~> pc = "done"

(* _request does what RoundTrip allows: one end, and only a code that was  *)
(* sent or a timeout that was due.                                         *)
Trip == INSTANCE RoundTrip WITH
          Failures <- {"error", "interrupt"},
          answers  <- {r.code : r \in sent} \ {NULL},
          late     <- expired,
          outcome  <- IF pc # "done" THEN "pending"
                      ELSE IF outcome = "reply" THEN result.code ELSE outcome

IsRoundTrip == Trip!Spec

(* docs/troubleshooting.md:88 says of PortalTimeoutError: "A step was      *)
(* accepted and never answered".  A step whose call returned was accepted. *)
TimeoutMeansUnanswered ==
  outcome = "timeout" /\ timer # "none" => result = NULL

-----------------------------------------------------------------------------
(* The inductive invariant behind the safety properties, in parts; proved  *)
(* in PortalRequestProofs.                                                 *)

(* Where the deadline's source is, from its creation to the finally.       *)
TimerInv ==
  /\ pc \in {"start", "call", "returned"} => timer = "none"
  /\ pc = "run" => timer \in {"armed", "fired"}
  /\ pc \in {"cleanup", "done"} => timer # "armed"
  /\ timer # "missing"
  /\ timedOut <=> timer = "fired"
  /\ due => pc = "run" /\ timer = "armed" /\ expired
  /\ timedOut => expired

(* Whoever is subscribed to what.                                          *)
SubsInv ==
  /\ pc = "start" => sent = {}
  /\ pc \in {"call", "returned", "run"} => "expected" \in subs
  /\ pc = "done" => subs = {}

(* What is queued or recorded was sent.                                    *)
SentInv ==
  /\ \A i \in 1..Len(pending) : pending[i] \in sent
  /\ \A i \in 1..Len(batch) : batch[i] \in sent
  /\ result # NULL => result \in sent /\ result.code # NULL

(* Why the loop was left, and how _request will end.                       *)
EndInv ==
  /\ pc = "run" /\ quit => result # NULL \/ timedOut
  /\ pc \in {"start", "call", "returned", "run"} => outcome = "none"
  /\ pc = "cleanup" =>
       /\ outcome \in {"none", "timeout", "error", "interrupt"}
       /\ outcome = "none" => result # NULL \/ timedOut
       /\ outcome = "timeout" => expired

(* A reply recorded in time keeps the loop from another iteration, and the *)
(* current one does not dispatch the deadline.                             *)
InTimeInv == pc = "run" /\ result # NULL /\ ~late => quit /\ ~due

IInv == /\ TypeOK
        /\ TimerInv
        /\ SubsInv
        /\ SentInv
        /\ EndInv
        /\ InTimeInv
        /\ AnswerHeard
=============================================================================
