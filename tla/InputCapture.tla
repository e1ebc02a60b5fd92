---------------------------- MODULE InputCapture ----------------------------
(***************************************************************************)
(* The capture phase of an InputCaptureSession: the caller asks for zones, *)
(* places pointer barriers, enables and disables capture, waits for        *)
(* Activated and Deactivated, releases a capture and closes the session,   *)
(* while the compositor starts and ends captures, changes its zones and    *)
(* ends the session as it likes.                                           *)
(*                                                                         *)
(* Calls and signals travel in order, each way.  A call the caller has     *)
(* given up on is still handled, and its answer still comes.  One round    *)
(* trip is as RoundTrip describes it and one wait as SignalWait does; what *)
(* is checked here is a sequence of them.  The caller is one thread.       *)
(***************************************************************************)
EXTENDS Naturals, Sequences

CONSTANTS MaxCalls,  \* bound: calls sent to the portal
          MaxId,     \* bound: captures
          MaxZone    \* bound: zone sets

ASSUME BoundsAssumption == MaxCalls \in Nat /\ MaxId \in Nat /\ MaxZone \in Nat \ {0}

VARIABLES
  \* the portal and the compositor (external)
  alive,     \* the session exists
  zoneSet,   \* the current zone set
  placed,    \* pointer barriers stand
  enabled,
  active,    \* activation_id of the capture in progress, 0 for none
  lastId,    \* the last activation_id given
  \* the connection, in order
  toPortal, toClient,
  \* the session object and its caller
  op,        \* the method the caller is in, "idle" for none
  n,         \* number of the last call: its D-Bus serial and its handle_token
  handle,    \* _session_handle is not None
  result,    \* how the last method ended: "ok" | "raised"
  known,     \* the zone set zones() last returned, 0 before
  seen,      \* the activation_id wait_for_activation() last returned, 0 before
  over,      \* the one wait_for_deactivation() last returned, 0 before
  since      \* the zone set when the current method was called

pvars == <<alive, zoneSet, placed, enabled, active, lastId>>
kvars == <<known, seen, over>>
vars  == <<pvars, toPortal, toClient, op, n, handle, result, kvars, since>>

Requests == {"GetZones", "SetPointerBarriers"}
Calls    == Requests \cup {"Enable", "Disable", "Release", "Close"}
Waits    == {"Activated", "Deactivated"}

Messages == [method : Calls, n : 1..MaxCalls, arg : 0..MaxZone + MaxId, opt : 0..MaxId]
Replies  == [kind : {"reply"}, n : 1..MaxCalls, method : Calls, ok : BOOLEAN,
             arg : 0..MaxZone]
Signals  == [kind : Waits, id : 1..MaxId, ok : BOOLEAN] \cup [kind : {"Closed"}]

TypeOK ==
  /\ alive    \in BOOLEAN
  /\ zoneSet  \in 1..MaxZone
  /\ placed   \in BOOLEAN
  /\ enabled  \in BOOLEAN
  /\ active   \in 0..MaxId
  /\ lastId   \in 0..MaxId
  /\ toPortal \in Seq(Messages)
  /\ toClient \in Seq(Replies \cup Signals)
  /\ op       \in Calls \cup Waits \cup {"idle"}
  /\ n        \in 0..MaxCalls
  /\ handle   \in BOOLEAN
  /\ result   \in {"ok", "raised"}
  /\ known    \in 0..MaxZone
  /\ seen     \in 0..MaxId
  /\ over     \in 0..MaxId
  /\ since    \in 1..MaxZone
  /\ \A i \in 1..Len(toPortal) :
       toPortal[i].method = "SetPointerBarriers" => toPortal[i].arg \in 1..MaxZone

(* What negotiate() returns: nothing is placed, enabled or captured.       *)
Init ==
  /\ alive    = TRUE
  /\ zoneSet  = 1
  /\ placed   = FALSE
  /\ enabled  = FALSE
  /\ active   = 0
  /\ lastId   = 0
  /\ toPortal = <<>>
  /\ toClient = <<>>
  /\ op       = "idle"
  /\ n        = 0
  /\ handle   = TRUE
  /\ result   = "ok"
  /\ known    = 0
  /\ seen     = 0
  /\ over     = 0
  /\ since    = 1

-----------------------------------------------------------------------------
(* The compositor (external).                                              *)

(* The options of a signal may hold values that are not what they should.  *)
Emit(kind, i) ==
  \E ok \in BOOLEAN : toClient' = Append(toClient, [kind |-> kind, id |-> i, ok |-> ok])

BarrierCrossed ==
  /\ alive /\ placed /\ enabled
  /\ active = 0
  /\ lastId < MaxId
  /\ lastId' = lastId + 1
  /\ active' = lastId'
  /\ Emit("Activated", lastId')
  /\ UNCHANGED <<alive, zoneSet, placed, enabled, toPortal, op, n, handle, result,
                 kvars, since>>

CaptureEnds ==
  /\ active # 0
  /\ active' = 0
  /\ Emit("Deactivated", active)
  /\ UNCHANGED <<alive, zoneSet, placed, enabled, lastId, toPortal, op, n, handle,
                 result, kvars, since>>

ZonesChange ==
  /\ alive
  /\ zoneSet < MaxZone
  /\ zoneSet' = zoneSet + 1
  /\ UNCHANGED <<alive, placed, enabled, active, lastId, toPortal, toClient, op, n,
                 handle, result, kvars, since>>

SessionEnds ==
  /\ alive
  /\ alive'  = FALSE
  /\ active' = 0
  /\ toClient' = Append(toClient, [kind |-> "Closed"])
  /\ UNCHANGED <<zoneSet, placed, enabled, lastId, toPortal, op, n, handle, result,
                 kvars, since>>

(* What a call does, if the portal accepts it.  Placing barriers suspends  *)
(* the session and needs the current zone set; disabling and suspending    *)
(* leave a capture in progress to CaptureEnds; a release without an        *)
(* activation_id would end any capture.                                    *)
Effect(c) ==
  CASE c.method = "SetPointerBarriers" ->
         /\ c.arg = zoneSet
         /\ placed' = TRUE /\ enabled' = FALSE
         /\ UNCHANGED <<alive, active>>
    [] c.method = "Enable"  -> enabled' = TRUE  /\ UNCHANGED <<alive, placed, active>>
    [] c.method = "Disable" -> enabled' = FALSE /\ UNCHANGED <<alive, placed, active>>
    [] c.method = "Release" ->
         /\ active' = IF c.opt \in {0, active} THEN 0 ELSE active
         /\ UNCHANGED <<alive, placed, enabled>>
    [] c.method = "Close" ->
         alive' = FALSE /\ active' = 0 /\ UNCHANGED <<placed, enabled>>
    [] OTHER -> UNCHANGED <<alive, placed, enabled, active>>

Accepts(c) == alive /\ Effect(c)
Refuses    == UNCHANGED <<alive, placed, enabled, active>>

PortalHandles ==
  /\ toPortal # <<>>
  /\ toPortal' = Tail(toPortal)
  /\ LET c == Head(toPortal) IN
     \E ok \in BOOLEAN :
       /\ IF ok THEN Accepts(c) ELSE Refuses
       /\ toClient' = Append(toClient,
            [kind |-> "reply", n |-> c.n, method |-> c.method, ok |-> ok,
             arg |-> IF c.method = "GetZones" THEN zoneSet ELSE 0])
  /\ UNCHANGED <<zoneSet, lastId, op, n, handle, result, kvars, since>>

-----------------------------------------------------------------------------
(* Methods that call the portal.                                           *)

(* session_handle raises on a closed session, before anything is sent.     *)
Send(method, arg, opt) ==
  /\ op = "idle"
  /\ handle
  /\ n < MaxCalls
  /\ n'  = n + 1
  /\ op' = method
  /\ since' = zoneSet
  /\ toPortal' = Append(toPortal,
       [method |-> method, n |-> n + 1, arg |-> arg, opt |-> opt])
  /\ UNCHANGED <<pvars, toClient, handle, result, kvars>>

(* Mutant of ReleaseOption: release() without its activation_id.           *)
NoOption(id) == 0

ReleaseOption(id) == id

Zones              == Send("GetZones", 0, 0)
SetPointerBarriers == known # 0 /\ Send("SetPointerBarriers", known, 0)
Enable             == Send("Enable", 0, 0)
Disable            == Send("Disable", 0, 0)
Release            == seen # 0 /\ Send("Release", seen, ReleaseOption(seen))
Close              == Send("Close", 0, 0)

Return(r) == op' = "idle" /\ result' = r

(* close() swallows what its call comes to, and drops the handle.          *)
CallEnds(ok) ==
  /\ Return(IF ok \/ op = "Close" THEN "ok" ELSE "raised")
  /\ handle' = (handle /\ op # "Close")

(* Mutant of Answers: one handle_token for every request.                  *)
AnswersAnyRequest(r) == r.method = op /\ (op \in Requests \/ r.n = n)

(* A reply is matched by its serial, a Response by its handle_token.       *)
Answers(r) == r.method = op /\ r.n = n

Answered ==
  /\ toClient # <<>>
  /\ LET r == Head(toClient) IN
     /\ r.kind = "reply"
     /\ Answers(r)
     /\ CallEnds(r.ok)
     /\ known' = IF r.ok /\ op = "GetZones" THEN r.arg ELSE known
  /\ toClient' = Tail(toClient)
  /\ UNCHANGED <<pvars, toPortal, n, seen, over, since>>

(* The answer to a call the caller has given up on.                        *)
LateAnswer ==
  /\ toClient # <<>>
  /\ Head(toClient).kind = "reply"
  /\ ~Answers(Head(toClient))
  /\ toClient' = Tail(toClient)
  /\ UNCHANGED <<pvars, toPortal, op, n, handle, result, kvars, since>>

(* A timeout, or an interrupt; it ends a wait too.                         *)
GiveUp ==
  /\ op # "idle"
  /\ CallEnds(FALSE)
  /\ UNCHANGED <<pvars, toPortal, toClient, n, kvars, since>>

-----------------------------------------------------------------------------
(* wait_for_activation() and wait_for_deactivation(): subscribed to their  *)
(* signal and to Closed while they wait, and to nothing in between.        *)

WaitFor(kind) ==
  /\ op = "idle"
  /\ handle
  /\ op' = kind
  /\ UNCHANGED <<pvars, toPortal, toClient, n, handle, result, kvars, since>>

(* Mutant of Listening: subscribed to every signal of the interface.       *)
ListeningToAll(s) == op \in Waits

Listening(s) == op \in Waits /\ s.kind \in {op, "Closed"}

SignalArrives ==
  /\ toClient # <<>>
  /\ LET s == Head(toClient) IN
     /\ s.kind # "reply"
     /\ Listening(s)
     /\ IF s.kind = "Closed" \/ ~s.ok
        THEN Return("raised") /\ UNCHANGED kvars
        ELSE /\ Return("ok")
             /\ seen' = IF op = "Activated"   THEN s.id ELSE seen
             /\ over' = IF op = "Deactivated" THEN s.id ELSE over
             /\ UNCHANGED known
  /\ toClient' = Tail(toClient)
  /\ UNCHANGED <<pvars, toPortal, n, handle, since>>

(* Nobody is subscribed: the signal is lost.                               *)
SignalLost ==
  /\ toClient # <<>>
  /\ Head(toClient).kind # "reply"
  /\ ~Listening(Head(toClient))
  /\ toClient' = Tail(toClient)
  /\ UNCHANGED <<pvars, toPortal, op, n, handle, result, kvars, since>>

-----------------------------------------------------------------------------
Compositor == BarrierCrossed \/ CaptureEnds \/ ZonesChange \/ SessionEnds

Caller == \/ Zones \/ SetPointerBarriers \/ Enable \/ Disable \/ Release \/ Close
          \/ \E kind \in Waits : WaitFor(kind)

Delivery == Answered \/ LateAnswer \/ SignalArrives \/ SignalLost

Next == Compositor \/ PortalHandles \/ Caller \/ Delivery \/ GiveUp

Spec == Init /\ [][Next]_vars

(* The portal handles what it is sent and the connection delivers.  A wait *)
(* without a timeout need not end by itself, and nothing says when the     *)
(* compositor begins or ends a capture.                                    *)
FairSpec == Spec /\ WF_vars(PortalHandles) /\ WF_vars(Delivery)

-----------------------------------------------------------------------------
(* Properties.                                                             *)

Returned(method) == op = method /\ op' = "idle" /\ result' = "ok"

(* The two waits report captures in the order they happened: an activation *)
(* is never reported twice nor after its end, and the end reported is not  *)
(* that of a capture older than the one the caller knows of, though        *)
(* signals are lost between waits (portal.py:1675-1718).                   *)
ReportsInOrder ==
  [][/\ Returned("Activated")   => seen' > seen /\ seen' > over
     /\ Returned("Deactivated") => over' > over /\ over' >= seen]_vars

(* zones() returns a layout that was current during the call, never that   *)
(* of an earlier call whose answer came too late; set_pointer_barriers()   *)
(* depends on it (portal.py:483-486, 1580-1613).                           *)
FreshLayout == [][Returned("GetZones") => known' >= since]_vars

(* release() ends the capture it names and no other, even if that one is   *)
(* over and another has begun (portal.py:1546-1578).                       *)
ReleasesOwn ==
  [][toPortal' # toPortal /\ active # 0 /\ active' = 0
       => Head(toPortal).method = "Close" \/ Head(toPortal).arg = active]_vars

(* wait_for_deactivation: "Block until the current capture ends"           *)
(* (portal.py:1703).  When the capture just reported is over, the wait     *)
(* ends.                                                                   *)
WaitEndsWithCapture ==
  /\ op = "Deactivated"
  /\ alive
  /\ result = "ok"
  /\ over < seen
  /\ active # seen
  ~> op # "Deactivated"

-----------------------------------------------------------------------------
(* The inductive invariant behind the action properties, in parts; proved  *)
(* in InputCaptureProofs.                                                  *)

(* Beginnings and ends of captures happen in the order of their ranks; the *)
(* last of them that can have been reported has rank Now.                  *)
Rank(s) == 2 * s.id + (IF s.kind = "Activated" THEN 0 ELSE 1)
Now     == 2 * lastId + (IF active # 0 THEN 0 ELSE 1)
Reports == {i \in 1..Len(toClient) : toClient[i].kind \in Waits}

(* What is under way is younger than what the caller knows of, and in      *)
(* order.                                                                  *)
SignalInv ==
  /\ active \in {0, lastId}
  /\ 2 * seen <= Now /\ 2 * over + 1 <= Now
  /\ \A i \in Reports :
       /\ Rank(toClient[i]) <= Now
       /\ Rank(toClient[i]) > 2 * seen /\ Rank(toClient[i]) > 2 * over + 1
       /\ \A j \in Reports : i < j => Rank(toClient[i]) < Rank(toClient[j])

(* No call has the number of one to come, and a release names a capture.   *)
CallInv ==
  \A i \in 1..Len(toPortal) :
    /\ toPortal[i].n <= n
    /\ toPortal[i].method = "Release" => toPortal[i].opt = toPortal[i].arg /\ toPortal[i].arg # 0

(* The answer to the call under way was given during it.                   *)
AnswerInv ==
  /\ since <= zoneSet
  /\ \A i \in 1..Len(toClient) : toClient[i].kind = "reply" =>
       /\ toClient[i].n <= n
       /\ op = "GetZones" /\ Answers(toClient[i]) => toClient[i].arg >= since

IInv == TypeOK /\ SignalInv /\ CallInv /\ AnswerInv
=============================================================================
