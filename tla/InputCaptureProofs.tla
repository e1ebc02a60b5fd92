------------------------- MODULE InputCaptureProofs -------------------------
(***************************************************************************)
(* Proofs about InputCapture, for any number of calls, captures and zone   *)
(* sets: the waits report captures in order, zones() returns a layout of   *)
(* its own time, and a release ends no capture but the one it names.       *)
(***************************************************************************)
EXTENDS InputCapture, TLAPS

(* A queue with one more message.                                          *)
LEMMA AppendFacts ==
  ASSUME NEW S, NEW q \in Seq(S), NEW e \in S
  PROVE  /\ Append(q, e) \in Seq(S)
         /\ Len(q) \in Nat /\ Len(Append(q, e)) = Len(q) + 1
         /\ \A i \in 1..Len(q) : Append(q, e)[i] = q[i]
         /\ Append(q, e)[Len(q) + 1] = e
  OBVIOUS

(* A queue with one message less.                                          *)
LEMMA TailFacts ==
  ASSUME NEW S, NEW q \in Seq(S), q # <<>>
  PROVE  /\ Head(q) = q[1] /\ Head(q) \in S
         /\ Len(q) \in Nat /\ 1 <= Len(q)
         /\ Tail(q) \in Seq(S)
         /\ Len(Tail(q)) = Len(q) - 1
         /\ \A i \in 1..Len(q) - 1 : Tail(q)[i] = q[i + 1]
  OBVIOUS

-----------------------------------------------------------------------------
(* The parts of the invariant as statements about one queue each, so that  *)
(* what an append or a delivery does to it is said once.                   *)

(* The reports are in order, younger than s began and o ended.             *)
InOrder(q, s, o, now) ==
  \A i \in 1..Len(q) : q[i].kind \in Waits =>
    /\ Rank(q[i]) <= now
    /\ Rank(q[i]) > 2 * s /\ Rank(q[i]) > 2 * o + 1
    /\ \A j \in 1..Len(q) : q[j].kind \in Waits /\ i < j => Rank(q[i]) < Rank(q[j])

(* The answers to call k, if it is zones(), are no older than z.           *)
Timely(q, method, k, z) ==
  \A i \in 1..Len(q) : q[i].kind = "reply" =>
    /\ q[i].n <= k
    /\ method = "GetZones" /\ q[i].method = method /\ q[i].n = k => q[i].arg >= z

(* Calls up to number k, whose releases name a capture.                    *)
Named(q, k) ==
  \A i \in 1..Len(q) :
    /\ q[i].n <= k
    /\ q[i].method = "Release" => q[i].opt = q[i].arg /\ q[i].arg # 0

(* Barriers are placed for a zone set.                                     *)
Placing(q) ==
  \A i \in 1..Len(q) : q[i].method = "SetPointerBarriers" => q[i].arg \in 1..MaxZone

Incoming == Replies \cup Signals

(* What a message from the portal is.                                      *)
LEMMA MessageFacts ==
  ASSUME NEW m \in Incoming
  PROVE  /\ m.kind \in Waits \cup {"reply", "Closed"}
         /\ m.kind \in Waits => m \in [kind : Waits, id : 1..MaxId, ok : BOOLEAN]
         /\ m.kind \in Waits => m.id \in 1..MaxId /\ Rank(m) \in Nat
         /\ m.kind = "reply" => m \in Replies
<1>1. m.kind \in Waits \cup {"reply", "Closed"}
  BY DEF Incoming, Replies, Signals, Waits
<1>2. m.kind \in Waits => m \in [kind : Waits, id : 1..MaxId, ok : BOOLEAN]
  BY DEF Incoming, Replies, Signals, Waits
<1>3. m.kind \in Waits => m.id \in 1..MaxId
  BY <1>2
<1>4. m.kind \in Waits => Rank(m) \in Nat
  BY <1>3, BoundsAssumption DEF Rank
<1>5. m.kind = "reply" => m \in Replies
  BY DEF Incoming, Replies, Signals, Waits
<1> QED  BY <1>1, <1>2, <1>3, <1>4, <1>5

(* A message that reports nothing, or something younger than all before    *)
(* it, leaves the queue in order.                                          *)
LEMMA OrderedAppend ==
  ASSUME NEW q \in Seq(Incoming), NEW m \in Incoming,
         NEW s \in Nat, NEW o \in Nat, NEW now \in Nat, NEW later \in Nat,
         InOrder(q, s, o, now), now <= later, 2 * s <= now, 2 * o + 1 <= now,
         m.kind \in Waits => now < Rank(m) /\ Rank(m) <= later
  PROVE  InOrder(Append(q, m), s, o, later)
<1> DEFINE p == Append(q, m)
<1>1. /\ Len(q) \in Nat /\ Len(p) = Len(q) + 1
      /\ \A i \in 1..Len(q) : p[i] = q[i] /\ q[i] \in Incoming
      /\ p[Len(q) + 1] = m
  BY AppendFacts
<1> HIDE DEF p
<1>2. \A i \in 1..Len(q) : q[i].kind \in Waits => Rank(q[i]) \in Nat
  BY <1>1, MessageFacts
<1>3. m.kind \in Waits => Rank(m) \in Nat
  BY MessageFacts
<1>4. SUFFICES ASSUME NEW i \in 1..Len(p), p[i].kind \in Waits
               PROVE  /\ Rank(p[i]) <= later
                      /\ Rank(p[i]) > 2 * s /\ Rank(p[i]) > 2 * o + 1
                      /\ \A j \in 1..Len(p) : p[j].kind \in Waits /\ i < j
                           => Rank(p[i]) < Rank(p[j])
  BY DEF InOrder, p
<1>5. CASE i \in 1..Len(q)
  <2>1. /\ p[i] = q[i] /\ Rank(q[i]) \in Nat /\ Rank(q[i]) <= now
        /\ Rank(q[i]) > 2 * s /\ Rank(q[i]) > 2 * o + 1
    BY <1>1, <1>2, <1>4, <1>5 DEF InOrder
  <2>2. ASSUME NEW j \in 1..Len(p), p[j].kind \in Waits, i < j
        PROVE  Rank(p[i]) < Rank(p[j])
    <3>1. CASE j \in 1..Len(q)
      BY <1>1, <1>4, <1>5, <2>2, <3>1 DEF InOrder
    <3>2. CASE j = Len(q) + 1
      BY <1>1, <1>3, <2>1, <2>2, <3>2
    <3> QED  BY <1>1, <3>1, <3>2
  <2> QED  BY <2>1, <2>2
<1>6. CASE i = Len(q) + 1
  BY <1>1, <1>3, <1>4, <1>6
<1> QED  BY <1>1, <1>5, <1>6

(* Delivering the head leaves the rest in order, and younger than what the *)
(* head reports.                                                           *)
LEMMA OrderedTail ==
  ASSUME NEW q \in Seq(Incoming), q # <<>>,
         NEW s, NEW o, NEW s2, NEW o2, NEW now,
         InOrder(q, s, o, now),
         s2 = s \/ (Head(q).kind \in Waits /\ 2 * s2 = Rank(Head(q))),
         o2 = o \/ (Head(q).kind \in Waits /\ 2 * o2 + 1 = Rank(Head(q)))
  PROVE  InOrder(Tail(q), s2, o2, now)
<1> DEFINE p == Tail(q)
<1>1. /\ Head(q) = q[1] /\ Len(q) \in Nat /\ 1 <= Len(q) /\ Len(p) = Len(q) - 1
      /\ \A i \in 1..Len(q) - 1 : p[i] = q[i + 1]
  BY TailFacts
<1>2. \A i \in 1..Len(q) : q[i].kind \in Waits => Rank(q[i]) \in Nat
  BY MessageFacts
<1> HIDE DEF p
<1>3. \A i \in 1..Len(p) : i + 1 \in 1..Len(q) /\ p[i] = q[i + 1] /\ 1 < i + 1
  BY <1>1
<1>4. SUFFICES ASSUME NEW i \in 1..Len(p), p[i].kind \in Waits
               PROVE  /\ Rank(p[i]) <= now
                      /\ Rank(p[i]) > 2 * s2 /\ Rank(p[i]) > 2 * o2 + 1
                      /\ \A j \in 1..Len(p) : p[j].kind \in Waits /\ i < j
                           => Rank(p[i]) < Rank(p[j])
  BY DEF InOrder, p
<1>5. /\ Rank(p[i]) <= now /\ Rank(p[i]) > 2 * s /\ Rank(p[i]) > 2 * o + 1
  BY <1>3, <1>4 DEF InOrder
<1>6. Head(q).kind \in Waits => Rank(Head(q)) < Rank(p[i])
  <2>1. 1 \in 1..Len(q)
    BY <1>1
  <2> QED  BY <1>1, <1>3, <1>4, <2>1 DEF InOrder
<1>7. ASSUME NEW j \in 1..Len(p), p[j].kind \in Waits, i < j
      PROVE  Rank(p[i]) < Rank(p[j])
  <2>1. i + 1 < j + 1
    BY <1>7
  <2> QED  BY <1>3, <1>4, <1>7, <2>1 DEF InOrder
<1> QED  BY <1>5, <1>6, <1>7

(* Time passes: the queue stays in order.                                  *)
LEMMA OrderedLater ==
  ASSUME NEW q \in Seq(Incoming), NEW s, NEW o, NEW now \in Nat, NEW later \in Nat,
         InOrder(q, s, o, now), now <= later
  PROVE  InOrder(q, s, o, later)
<1>1. \A i \in 1..Len(q) : q[i].kind \in Waits => Rank(q[i]) \in Nat
  BY MessageFacts
<1> QED  BY <1>1 DEF InOrder

(* An answer that is in time joins those that are.                         *)
LEMMA TimelyAppend ==
  ASSUME NEW q \in Seq(Incoming), NEW m \in Incoming, NEW method, NEW k, NEW z,
         Timely(q, method, k, z),
         m.kind = "reply" => /\ m.n <= k
                             /\ m.method = "GetZones" => m.arg >= z
  PROVE  Timely(Append(q, m), method, k, z)
<1>1. /\ Len(q) \in Nat /\ Len(Append(q, m)) = Len(q) + 1
      /\ \A i \in 1..Len(q) : Append(q, m)[i] = q[i]
      /\ Append(q, m)[Len(q) + 1] = m
  BY AppendFacts
<1>2. \A i \in 1..Len(q) + 1 : i \in 1..Len(q) \/ i = Len(q) + 1
  BY <1>1
<1> QED  BY <1>1, <1>2 DEF Timely

(* Delivering an answer leaves the others in time.                         *)
LEMMA TimelyTail ==
  ASSUME NEW q \in Seq(Incoming), q # <<>>, NEW method, NEW k, NEW z,
         Timely(q, method, k, z)
  PROVE  Timely(Tail(q), method, k, z)
<1>1. /\ Len(q) \in Nat /\ 1 <= Len(q) /\ Len(Tail(q)) = Len(q) - 1
      /\ \A i \in 1..Len(q) - 1 : Tail(q)[i] = q[i + 1]
  BY TailFacts
<1>2. \A i \in 1..Len(q) - 1 : i + 1 \in 1..Len(q)
  BY <1>1
<1> QED  BY <1>1, <1>2 DEF Timely

(* A call that is over waits for no answer.                                *)
LEMMA TimelyOver ==
  ASSUME NEW q, NEW method, NEW other, NEW k, NEW z,
         Timely(q, method, k, z), other # "GetZones"
  PROVE  Timely(q, other, k, z)
BY DEF Timely

(* The answer to a call that is only now made is not under way.            *)
LEMMA TimelyNew ==
  ASSUME NEW q \in Seq(Incoming), NEW method, NEW other, NEW k \in Nat, NEW z, NEW z2,
         Timely(q, method, k, z)
  PROVE  Timely(q, other, k + 1, z2)
<1>1. \A i \in 1..Len(q) : q[i].kind = "reply" => q[i].n \in Nat
  <2>1. \A m \in Replies : m.n \in 1..MaxCalls
    BY DEF Replies
  <2> QED  BY <2>1, MessageFacts, BoundsAssumption
<1>2. \A i \in 1..Len(q) : q[i].kind = "reply" => q[i].n <= k /\ q[i].n # k + 1
  BY <1>1 DEF Timely
<1> QED  BY <1>1, <1>2 DEF Timely

(* A call with a new number joins those that were sent.                    *)
LEMMA NamedAppend ==
  ASSUME NEW q \in Seq(Messages), NEW c \in Messages, NEW k \in Nat, NEW k2 \in Nat,
         Named(q, k), Placing(q), k <= k2, c.n <= k2,
         c.method = "Release" => c.opt = c.arg /\ c.arg # 0,
         c.method = "SetPointerBarriers" => c.arg \in 1..MaxZone
  PROVE  Named(Append(q, c), k2) /\ Placing(Append(q, c))
<1>1. /\ Len(q) \in Nat /\ Len(Append(q, c)) = Len(q) + 1
      /\ \A i \in 1..Len(q) : Append(q, c)[i] = q[i]
      /\ Append(q, c)[Len(q) + 1] = c
  BY AppendFacts
<1>2. \A i \in 1..Len(q) + 1 : i \in 1..Len(q) \/ i = Len(q) + 1
  BY <1>1
<1>3. \A i \in 1..Len(q) : q[i].n \in Nat
  <2>1. \A d \in Messages : d.n \in 1..MaxCalls
    BY DEF Messages
  <2> QED  BY <2>1, BoundsAssumption
<1>4. Named(Append(q, c), k2)
  BY <1>1, <1>2, <1>3 DEF Named
<1>5. Placing(Append(q, c))
  BY <1>1, <1>2 DEF Placing
<1> QED  BY <1>4, <1>5

(* The calls that are left are as they were.                               *)
LEMMA NamedTail ==
  ASSUME NEW q \in Seq(Messages), q # <<>>, NEW k, Named(q, k), Placing(q)
  PROVE  Named(Tail(q), k) /\ Placing(Tail(q))
<1>1. /\ Len(q) \in Nat /\ 1 <= Len(q) /\ Len(Tail(q)) = Len(q) - 1
      /\ \A i \in 1..Len(q) - 1 : Tail(q)[i] = q[i + 1]
  BY TailFacts
<1>2. \A i \in 1..Len(q) - 1 : i + 1 \in 1..Len(q)
  BY <1>1
<1> QED  BY <1>1, <1>2 DEF Named, Placing

-----------------------------------------------------------------------------
(* The invariant in terms of the queues.                                   *)
LEMMA Parts ==
  ASSUME TypeOK
  PROVE  /\ SignalInv <=> /\ active \in {0, lastId}
                          /\ 2 * seen <= Now /\ 2 * over + 1 <= Now
                          /\ InOrder(toClient, seen, over, Now)
         /\ CallInv   <=> Named(toPortal, n)
         /\ AnswerInv <=> since <= zoneSet /\ Timely(toClient, op, n, since)
         /\ Placing(toPortal)
<1>1. \A i : i \in Reports <=> i \in 1..Len(toClient) /\ toClient[i].kind \in Waits
  BY DEF Reports
<1>2. (\A i \in Reports :
        /\ Rank(toClient[i]) <= Now
        /\ Rank(toClient[i]) > 2 * seen /\ Rank(toClient[i]) > 2 * over + 1
        /\ \A j \in Reports : i < j => Rank(toClient[i]) < Rank(toClient[j]))
      <=> InOrder(toClient, seen, over, Now)
  BY <1>1 DEF InOrder
<1>3. SignalInv <=> /\ active \in {0, lastId}
                    /\ 2 * seen <= Now /\ 2 * over + 1 <= Now
                    /\ InOrder(toClient, seen, over, Now)
  BY <1>2 DEF SignalInv
<1>4. CallInv <=> Named(toPortal, n)
  BY DEF CallInv, Named
<1>5. AnswerInv <=> since <= zoneSet /\ Timely(toClient, op, n, since)
  BY DEF AnswerInv, Timely, Answers
<1>6. Placing(toPortal)
  BY DEF TypeOK, Placing
<1> QED  BY <1>3, <1>4, <1>5, <1>6

(* The same of the next state.                                             *)
LEMMA PartsNext ==
         /\ SignalInv' <=> /\ active' \in {0, lastId'}
                           /\ 2 * seen' <= Now' /\ 2 * over' + 1 <= Now'
                           /\ InOrder(toClient', seen', over', Now')
         /\ CallInv'   <=> Named(toPortal', n')
         /\ AnswerInv' <=> since' <= zoneSet' /\ Timely(toClient', op', n', since')
<1>1. \A i : i \in Reports' <=> i \in 1..Len(toClient') /\ toClient'[i].kind \in Waits
  BY DEF Reports
<1>2. (\A i \in Reports' :
        /\ Rank(toClient'[i]) <= Now'
        /\ Rank(toClient'[i]) > 2 * seen' /\ Rank(toClient'[i]) > 2 * over' + 1
        /\ \A j \in Reports' : i < j => Rank(toClient'[i]) < Rank(toClient'[j]))
      <=> InOrder(toClient', seen', over', Now')
  BY <1>1 DEF InOrder
<1>3. SignalInv' <=> /\ active' \in {0, lastId'}
                     /\ 2 * seen' <= Now' /\ 2 * over' + 1 <= Now'
                     /\ InOrder(toClient', seen', over', Now')
  BY <1>2 DEF SignalInv, Rank
<1>4. CallInv' <=> Named(toPortal', n')
  BY DEF CallInv, Named
<1>5. AnswerInv' <=> since' <= zoneSet' /\ Timely(toClient', op', n', since')
  BY DEF AnswerInv, Timely, Answers
<1> QED  BY <1>3, <1>4, <1>5

(* What the invariant says of the numbers and the queues.                  *)
LEMMA Sizes ==
  ASSUME IInv
  PROVE  /\ MaxCalls \in Nat /\ MaxId \in Nat /\ MaxZone \in Nat /\ MaxZone # 0
         /\ active \in 0..MaxId /\ lastId \in 0..MaxId /\ active \in {0, lastId}
         /\ seen \in 0..MaxId /\ over \in 0..MaxId /\ n \in 0..MaxCalls
         /\ zoneSet \in 1..MaxZone /\ since \in 1..MaxZone /\ since <= zoneSet
         /\ Now \in Nat /\ 2 * seen <= Now /\ 2 * over + 1 <= Now
         /\ toClient \in Seq(Incoming) /\ toPortal \in Seq(Messages)
         /\ InOrder(toClient, seen, over, Now) /\ Timely(toClient, op, n, since)
         /\ Named(toPortal, n) /\ Placing(toPortal)
<1>1. lastId \in 0..MaxId /\ MaxId \in Nat
  BY BoundsAssumption DEF IInv, TypeOK
<1>2. Now \in Nat
  BY <1>1 DEF Now
<1> QED  BY <1>2, Parts, BoundsAssumption DEF IInv, TypeOK, Incoming

(* The numbers among those, and the order of the queue.                    *)
LEMMA Numbers ==
  ASSUME IInv
  PROVE  /\ active \in Nat /\ lastId \in Nat /\ seen \in Nat /\ over \in Nat
         /\ Now \in Nat /\ 2 * seen <= Now /\ 2 * over + 1 <= Now
         /\ toClient \in Seq(Incoming) /\ InOrder(toClient, seen, over, Now)
<1> QED  BY Sizes

(* At the start nothing is under way.                                      *)
LEMMA InitInv == ASSUME Init PROVE IInv
<1> USE BoundsAssumption DEF Init
<1>1. /\ toPortal \in Seq(Messages) /\ Len(toPortal) = 0
      /\ toClient \in Seq(Replies \cup Signals) /\ Len(toClient) = 0
  OBVIOUS
<1>2. TypeOK
  <2>1. 1 \in 1..MaxZone /\ 0 \in 0..MaxZone /\ 0 \in 0..MaxId /\ 0 \in 0..MaxCalls
    OBVIOUS
  <2>2. \A i \in 1..Len(toPortal) : FALSE
    BY <1>1
  <2> QED  BY <1>1, <2>1, <2>2 DEF TypeOK
<1>3. SignalInv
  BY <1>1 DEF SignalInv, Now, Reports
<1>4. CallInv /\ AnswerInv
  BY <1>1 DEF CallInv, AnswerInv
<1> QED  BY <1>2, <1>3, <1>4 DEF IInv

-----------------------------------------------------------------------------
(* A capture begins: its number is new.                                    *)
LEMMA BarrierCrossedStep ==
  ASSUME IInv, BarrierCrossed
  PROVE  IInv'
<1> USE DEF BarrierCrossed, kvars
<1>1. PICK ok \in BOOLEAN :
        toClient' = Append(toClient, [kind |-> "Activated", id |-> lastId', ok |-> ok])
  BY DEF Emit
<1> DEFINE m == [kind |-> "Activated", id |-> lastId', ok |-> ok]
<1>2. /\ lastId' = lastId + 1 /\ lastId' \in 1..MaxId /\ active' = lastId'
      /\ active = 0
  BY Sizes
<1>3. m \in Incoming /\ m.kind = "Activated" /\ m.id = lastId'
  BY <1>2 DEF Incoming, Signals, Waits
<1>5. toClient' = Append(toClient, m) /\ seen' = seen /\ over' = over
  BY <1>1
<1> HIDE DEF m, BarrierCrossed
<1>4. /\ Rank(m) = 2 * lastId + 2 /\ Now = 2 * lastId + 1 /\ Now' = 2 * lastId + 2
      /\ Now' \in Nat /\ Rank(m) \in Nat
  <2>1. Rank(m) = 2 * lastId'
    BY <1>2, <1>3 DEF Rank
  <2>2. Now = 2 * lastId + 1
    BY <1>2 DEF Now
  <2>3. Now' = 2 * lastId'
    BY <1>2 DEF Now
  <2> QED  BY <1>2, <2>1, <2>2, <2>3, Numbers
<1>6. toClient' \in Seq(Incoming)
  BY <1>3, <1>5, Sizes, AppendFacts
<1>7. TypeOK'
  BY <1>2, <1>6, Sizes DEF BarrierCrossed, IInv, TypeOK, Incoming
<1>8. InOrder(toClient', seen', over', Now')
  <2>1. /\ Now <= Now' /\ Now' \in Nat
        /\ m.kind \in Waits => Now < Rank(m) /\ Rank(m) <= Now'
    BY <1>4, Numbers
  <2>2. InOrder(Append(toClient, m), seen, over, Now')
    BY <1>3, <2>1, Numbers, OrderedAppend
  <2> QED  BY <1>5, <2>2
<1>9. Timely(toClient', op', n', since')
  <2>1. op' = op /\ n' = n /\ since' = since
    BY DEF BarrierCrossed
  <2> QED  BY <1>3, <1>5, <2>1, Sizes, TimelyAppend DEF Waits
<1>10. SignalInv'
  BY <1>2, <1>4, <1>5, <1>8, Numbers, PartsNext
<1> QED  BY <1>7, <1>9, <1>10, Sizes, PartsNext DEF IInv, BarrierCrossed

(* A capture ends: that is younger than its beginning.                     *)
LEMMA CaptureEndsStep ==
  ASSUME IInv, CaptureEnds
  PROVE  IInv'
<1> USE DEF CaptureEnds, kvars
<1>1. PICK ok \in BOOLEAN :
        toClient' = Append(toClient, [kind |-> "Deactivated", id |-> active, ok |-> ok])
  BY DEF Emit
<1> DEFINE m == [kind |-> "Deactivated", id |-> active, ok |-> ok]
<1>2. active = lastId /\ active \in 1..MaxId /\ active' = 0 /\ lastId' = lastId
  BY Sizes
<1>3. m \in Incoming /\ m.kind = "Deactivated" /\ m.id = lastId
  BY <1>2 DEF Incoming, Signals, Waits
<1>4. /\ Rank(m) = 2 * lastId + 1 /\ Now = 2 * lastId /\ Now' = 2 * lastId + 1
      /\ Now' \in Nat
  BY <1>2, <1>3, Sizes DEF Rank, Now
<1>5. toClient' = Append(toClient, m) /\ seen' = seen /\ over' = over
  BY <1>1
<1> HIDE DEF m, CaptureEnds
<1>6. toClient' \in Seq(Incoming)
  BY <1>3, <1>5, Sizes, AppendFacts
<1>7. TypeOK'
  BY <1>2, <1>6, Sizes DEF CaptureEnds, IInv, TypeOK, Incoming
<1>8. InOrder(toClient', seen', over', Now')
  <2>1. /\ Now <= Now' /\ Now' \in Nat
        /\ m.kind \in Waits => Now < Rank(m) /\ Rank(m) <= Now'
    BY <1>4, Numbers
  <2>2. InOrder(Append(toClient, m), seen, over, Now')
    BY <1>3, <2>1, Numbers, OrderedAppend
  <2> QED  BY <1>5, <2>2
<1>9. Timely(toClient', op', n', since')
  <2>1. op' = op /\ n' = n /\ since' = since
    BY DEF CaptureEnds
  <2> QED  BY <1>3, <1>5, <2>1, Sizes, TimelyAppend DEF Waits
<1>10. SignalInv'
  BY <1>2, <1>4, <1>5, <1>8, Numbers, PartsNext
<1> QED  BY <1>7, <1>9, <1>10, Sizes, PartsNext DEF IInv, CaptureEnds

(* The zones change: older answers grow older, and none is under way that  *)
(* was not given since the call began.                                     *)
LEMMA ZonesChangeStep ==
  ASSUME IInv, ZonesChange
  PROVE  IInv'
<1> USE DEF ZonesChange, kvars
<1>1. zoneSet' \in 1..MaxZone /\ since' <= zoneSet'
  BY Sizes
<1>2. Now' = Now
  BY DEF Now
<1>3. TypeOK'
  BY <1>1 DEF IInv, TypeOK
<1> QED  BY <1>1, <1>2, <1>3, Sizes, PartsNext DEF IInv

(* The session ends, and the capture with it, unreported.                  *)
LEMMA SessionEndsStep ==
  ASSUME IInv, SessionEnds
  PROVE  IInv'
<1> USE DEF SessionEnds, kvars
<1> DEFINE m == [kind |-> "Closed"]
<1>1. m \in Incoming /\ m.kind = "Closed" /\ m.kind \notin Waits
  BY DEF Incoming, Signals, Waits
<1>2. toClient' = Append(toClient, m)
  OBVIOUS
<1>9. seen' = seen /\ over' = over /\ op' = op /\ n' = n /\ since' = since
  OBVIOUS
<1>3. Now' \in Nat /\ Now <= Now' /\ active' = 0 /\ lastId' = lastId
  BY Sizes DEF Now
<1> HIDE DEF m, SessionEnds
<1>4. toClient' \in Seq(Incoming)
  BY <1>1, <1>2, Sizes, AppendFacts
<1>5. TypeOK'
  <2>1. active' \in 0..MaxId
    BY <1>3, Sizes
  <2> QED  BY <1>4, <2>1 DEF SessionEnds, kvars, IInv, TypeOK, Incoming
<1>6. InOrder(toClient', seen', over', Now')
  <2>1. InOrder(Append(toClient, m), seen, over, Now')
    BY <1>1, <1>3, Numbers, OrderedAppend
  <2> QED  BY <1>2, <1>9, <2>1
<1>7. Timely(toClient', op', n', since')
  BY <1>1, <1>2, <1>9, Sizes, TimelyAppend
<1>8. SignalInv'
  BY <1>3, <1>6, <1>9, Sizes, PartsNext
<1> QED  BY <1>5, <1>7, <1>8, Sizes, PartsNext DEF IInv, SessionEnds

(* The portal handles a call: its effect starts no capture, and its answer *)
(* is of this moment.                                                      *)
LEMMA PortalHandlesStep ==
  ASSUME IInv, PortalHandles
  PROVE  IInv'
<1> DEFINE c == Head(toPortal)
<1>1. PICK ok \in BOOLEAN :
        /\ IF ok THEN Accepts(c) ELSE Refuses
        /\ toClient' = Append(toClient,
             [kind |-> "reply", n |-> c.n, method |-> c.method, ok |-> ok,
              arg |-> IF c.method = "GetZones" THEN zoneSet ELSE 0])
  BY DEF PortalHandles
<1> DEFINE m == [kind |-> "reply", n |-> c.n, method |-> c.method, ok |-> ok,
                 arg |-> IF c.method = "GetZones" THEN zoneSet ELSE 0]
<1>2. /\ toPortal' = Tail(toPortal) /\ toPortal # <<>> /\ zoneSet' = zoneSet
      /\ lastId' = lastId /\ op' = op /\ n' = n /\ handle' = handle /\ result' = result
      /\ known' = known /\ seen' = seen /\ over' = over /\ since' = since
  BY DEF PortalHandles, kvars
<1>3. c \in Messages /\ c = toPortal[1] /\ 1 \in 1..Len(toPortal)
  BY <1>2, Sizes, TailFacts
<1>4. c.n \in 1..MaxCalls /\ c.n <= n /\ c.method \in Calls
  <2>1. c.n <= n
    BY <1>3, Sizes DEF Named
  <2> QED  BY <1>3, <2>1 DEF Messages
<1>5. active' \in {0, active}
  BY <1>1 DEF Accepts, Refuses, Effect
<1>6. alive' \in BOOLEAN /\ placed' \in BOOLEAN /\ enabled' \in BOOLEAN
  <2>1. alive \in BOOLEAN /\ placed \in BOOLEAN /\ enabled \in BOOLEAN
    BY DEF IInv, TypeOK
  <2>2. CASE ok
    BY <1>1, <2>1, <2>2 DEF Accepts, Effect
  <2>3. CASE ~ok
    BY <1>1, <2>1, <2>3 DEF Refuses
  <2> QED  BY <2>2, <2>3
<1>7. toClient' = Append(toClient, m)
  BY <1>1
<1>8. /\ m \in Replies /\ m.kind = "reply" /\ m.n <= n
      /\ m.method = "GetZones" => m.arg = zoneSet
  BY <1>4, Sizes DEF Replies
<1> HIDE DEF m, c
<1>9. m \in Incoming /\ m.kind \notin Waits
  BY <1>8 DEF Incoming, Waits
<1>10. toClient' \in Seq(Incoming) /\ toPortal' \in Seq(Messages)
  BY <1>2, <1>7, <1>9, Sizes, AppendFacts, TailFacts
<1>11. Named(toPortal', n') /\ Placing(toPortal')
  BY <1>2, Sizes, NamedTail
<1>12. TypeOK'
  <2>1. active' \in 0..MaxId
    BY <1>5, Sizes
  <2> QED  BY <1>2, <1>6, <1>10, <1>11, <2>1 DEF IInv, TypeOK, Incoming, Placing
<1>13. Now' \in Nat /\ Now <= Now' /\ active' \in {0, lastId'}
  <2>1. active' \in {0, lastId'}
    BY <1>2, <1>5, Sizes
  <2>2. lastId \in Nat /\ active \in Nat
    BY Numbers
  <2> QED  BY <1>2, <1>5, <2>1, <2>2 DEF Now
<1>14. InOrder(toClient', seen', over', Now')
  <2>1. InOrder(Append(toClient, m), seen, over, Now')
    BY <1>9, <1>13, Numbers, OrderedAppend
  <2> QED  BY <1>2, <1>7, <2>1
<1>15. Timely(toClient', op', n', since')
  <2>1. m.method = "GetZones" => m.arg >= since
    BY <1>8, Sizes
  <2>2. Timely(Append(toClient, m), op, n, since)
    BY <1>8, <1>9, <2>1, Sizes, TimelyAppend
  <2> QED  BY <1>2, <1>7, <2>2
<1>16. SignalInv'
  BY <1>2, <1>13, <1>14, Numbers, PartsNext
<1>17. CallInv' /\ AnswerInv'
  BY <1>2, <1>11, <1>15, Sizes, PartsNext
<1> QED  BY <1>12, <1>16, <1>17 DEF IInv

-----------------------------------------------------------------------------
(* A call is sent: its number is new, and no answer to it is under way.    *)
LEMMA SendStep ==
  ASSUME IInv, NEW method \in Calls, NEW arg \in 0..MaxZone + MaxId, NEW opt \in 0..MaxId,
         Send(method, arg, opt),
         method = "Release" => opt = arg /\ arg # 0,
         method = "SetPointerBarriers" => arg \in 1..MaxZone
  PROVE  IInv'
<1> DEFINE c == [method |-> method, n |-> n + 1, arg |-> arg, opt |-> opt]
<1>1. /\ n' = n + 1 /\ n < MaxCalls /\ op' = method /\ since' = zoneSet
      /\ toPortal' = Append(toPortal, c)
  BY DEF Send
<1>2. /\ alive' = alive /\ zoneSet' = zoneSet /\ placed' = placed /\ enabled' = enabled
      /\ active' = active /\ lastId' = lastId /\ toClient' = toClient
      /\ handle' = handle /\ result' = result
      /\ known' = known /\ seen' = seen /\ over' = over
  BY DEF Send, pvars, kvars
<1>3. n \in Nat /\ n' \in 0..MaxCalls /\ n + 1 \in 1..MaxCalls /\ MaxCalls \in Nat
  <2>1. n \in 0..MaxCalls /\ MaxCalls \in Nat
    BY Sizes
  <2> QED  BY <1>1, <2>1
<1>4. /\ c \in Messages /\ c.n = n' /\ c.n <= n'
      /\ c.method = "Release" => c.opt = c.arg /\ c.arg # 0
      /\ c.method = "SetPointerBarriers" => c.arg \in 1..MaxZone
  BY <1>1, <1>3 DEF Messages
<1> HIDE DEF c
<1>5. toPortal' \in Seq(Messages)
  BY <1>1, <1>4, Sizes, AppendFacts
<1>6. Named(toPortal', n') /\ Placing(toPortal')
  <2>1. Named(toPortal, n) /\ Placing(toPortal) /\ toPortal \in Seq(Messages)
    BY Sizes
  <2>2. n' \in Nat /\ n <= n'
    BY <1>1, <1>3
  <2>3. Named(Append(toPortal, c), n') /\ Placing(Append(toPortal, c))
    BY <1>3, <1>4, <2>1, <2>2, NamedAppend
  <2> QED  BY <1>1, <2>3
<1>7. TypeOK'
  BY <1>1, <1>2, <1>3, <1>5, <1>6 DEF IInv, TypeOK, Placing
<1>8. Now' = Now
  BY <1>2 DEF Now
<1>9. SignalInv'
  BY <1>2, <1>8, Sizes, PartsNext
<1>10. Timely(toClient', op', n', since')
  <2>1. Timely(toClient, op', n + 1, since')
    BY <1>3, Sizes, TimelyNew
  <2> QED  BY <1>1, <1>2, <2>1
<1>11. since' <= zoneSet'
  BY <1>1, <1>2, Sizes
<1> QED  BY <1>6, <1>7, <1>9, <1>10, <1>11, PartsNext DEF IInv

(* The calls a caller makes are of that form.                              *)
LEMMA CallStep ==
  ASSUME IInv, Zones \/ SetPointerBarriers \/ Enable \/ Disable \/ Release \/ Close
  PROVE  IInv'
<1>1. 0 \in 0..MaxId /\ 0 \in 0..MaxZone + MaxId
  BY Sizes
<1>2. CASE Zones
  BY <1>1, <1>2, SendStep DEF Zones, Calls, Requests
<1>3. CASE SetPointerBarriers
  <2>1. known # 0 /\ Send("SetPointerBarriers", known, 0)
    BY <1>3 DEF SetPointerBarriers
  <2>2. known \in 1..MaxZone
    BY <2>1 DEF IInv, TypeOK
  <2>3. known \in 0..MaxZone + MaxId
    BY <2>2, Sizes
  <2> QED  BY <1>1, <2>1, <2>2, <2>3, SendStep DEF Calls, Requests
<1>4. CASE Enable
  BY <1>1, <1>4, SendStep DEF Enable, Calls, Requests
<1>5. CASE Disable
  BY <1>1, <1>5, SendStep DEF Disable, Calls, Requests
<1>6. CASE Release
  <2>1. seen # 0 /\ Send("Release", seen, seen)
    BY <1>6 DEF Release, ReleaseOption
  <2>2. seen \in 0..MaxId /\ seen \in 0..MaxZone + MaxId
    BY Sizes
  <2> QED  BY <2>1, <2>2, SendStep DEF Calls, Requests
<1>7. CASE Close
  BY <1>1, <1>7, SendStep DEF Close, Calls, Requests
<1> QED  BY <1>2, <1>3, <1>4, <1>5, <1>6, <1>7

(* A wait begins, or a method ends without an answer.                      *)
LEMMA QuietStep ==
  ASSUME IInv, GiveUp \/ \E kind \in Waits : WaitFor(kind)
  PROVE  IInv'
<1>1. /\ alive' = alive /\ zoneSet' = zoneSet /\ placed' = placed /\ enabled' = enabled
      /\ active' = active /\ lastId' = lastId /\ toClient' = toClient
      /\ toPortal' = toPortal /\ n' = n /\ since' = since
      /\ known' = known /\ seen' = seen /\ over' = over
  BY DEF GiveUp, WaitFor, pvars, kvars
<1>2. op' \in Waits \cup {"idle"} /\ result' \in {"ok", "raised"}
  <2>1. result \in {"ok", "raised"}
    BY DEF IInv, TypeOK
  <2> QED  BY <2>1 DEF GiveUp, WaitFor, CallEnds, Return
<1>3. handle' \in BOOLEAN
  <2>1. handle \in BOOLEAN
    BY DEF IInv, TypeOK
  <2>2. CASE GiveUp
    BY <2>2 DEF GiveUp, CallEnds
  <2>3. CASE \E kind \in Waits : WaitFor(kind)
    BY <2>1, <2>3 DEF WaitFor
  <2> QED  BY <2>2, <2>3
<1>4. TypeOK'
  BY <1>1, <1>2, <1>3 DEF IInv, TypeOK
<1>5. Now' = Now
  BY <1>1 DEF Now
<1>6. Timely(toClient, op', n, since)
  BY <1>2, Sizes, TimelyOver DEF Waits
<1>7. SignalInv'
  BY <1>1, <1>5, Sizes, PartsNext
<1>8. CallInv' /\ AnswerInv'
  BY <1>1, <1>6, Sizes, PartsNext
<1> QED  BY <1>4, <1>7, <1>8 DEF IInv

-----------------------------------------------------------------------------
(* The connection delivers a message; what the caller then knows of        *)
(* captures it knew before, or has just read.                              *)
LEMMA DeliveryStep ==
  ASSUME IInv, toClient # <<>>, toClient' = Tail(toClient),
         UNCHANGED <<pvars, toPortal, n, since>>,
         op' \in {op, "idle"}, handle' \in BOOLEAN, result' \in {"ok", "raised"},
         known' \in 0..MaxZone,
         seen' = seen \/ /\ Head(toClient).kind = "Activated"
                         /\ seen' = Head(toClient).id,
         over' = over \/ /\ Head(toClient).kind = "Deactivated"
                         /\ over' = Head(toClient).id
  PROVE  IInv'
<1> DEFINE h == Head(toClient)
<1>1. /\ alive' = alive /\ zoneSet' = zoneSet /\ placed' = placed /\ enabled' = enabled
      /\ active' = active /\ lastId' = lastId
      /\ toPortal' = toPortal /\ n' = n /\ since' = since
  BY DEF pvars
<1>2. h \in Incoming /\ h = toClient[1] /\ 1 \in 1..Len(toClient)
  BY Numbers, TailFacts
<1>3. /\ toClient' \in Seq(Incoming)
  BY Numbers, TailFacts
<1> HIDE DEF h
<1>4. h.kind \in Waits => h.id \in 1..MaxId /\ Rank(h) \in Nat /\ Rank(h) <= Now
  BY <1>2, Numbers, MessageFacts DEF InOrder
<1>5. /\ seen' = seen \/ (h.kind \in Waits /\ 2 * seen' = Rank(h) /\ seen' = h.id)
      /\ over' = over \/ (h.kind \in Waits /\ 2 * over' + 1 = Rank(h) /\ over' = h.id)
  <2>1. h.kind = "Activated" => h.kind \in Waits /\ Rank(h) = 2 * h.id
    BY <1>4 DEF Rank, Waits
  <2>2. h.kind = "Deactivated" => h.kind \in Waits /\ Rank(h) = 2 * h.id + 1
    BY DEF Rank, Waits
  <2> QED  BY <2>1, <2>2 DEF h
<1>6. /\ seen' \in 0..MaxId /\ over' \in 0..MaxId
      /\ 2 * seen' <= Now /\ 2 * over' + 1 <= Now
  <2>1. /\ seen \in 0..MaxId /\ over \in 0..MaxId /\ MaxId \in Nat
        /\ 2 * seen <= Now /\ 2 * over + 1 <= Now
    BY Sizes
  <2> QED  BY <1>4, <1>5, <2>1
<1>7. TypeOK'
  BY <1>1, <1>3, <1>6 DEF IInv, TypeOK, Incoming
<1>8. Now' = Now
  BY <1>1 DEF Now
<1>9. InOrder(toClient', seen', over', Now)
  BY <1>5, Numbers, OrderedTail DEF h
<1>10. SignalInv'
  BY <1>1, <1>6, <1>8, <1>9, Sizes, PartsNext
<1>11. Timely(toClient', op', n, since)
  <2>1. Timely(toClient', op, n, since)
    BY Sizes, TimelyTail
  <2> QED  BY <2>1, TimelyOver
<1>12. CallInv' /\ AnswerInv'
  BY <1>1, <1>11, Sizes, PartsNext
<1> QED  BY <1>7, <1>10, <1>12 DEF IInv

(* An answer is delivered, to the call it belongs to or to nobody.         *)
LEMMA AnswerStep ==
  ASSUME IInv, Answered \/ LateAnswer
  PROVE  IInv'
<1>1. /\ handle \in BOOLEAN /\ result \in {"ok", "raised"} /\ known \in 0..MaxZone
  BY DEF IInv, TypeOK
<1>2. CASE Answered
  <2> DEFINE h == Head(toClient)
  <2>1. /\ toClient # <<>> /\ toClient' = Tail(toClient)
        /\ UNCHANGED <<pvars, toPortal, n, since>> /\ seen' = seen /\ over' = over
        /\ h.kind = "reply"
        /\ op' = "idle" /\ result' \in {"ok", "raised"} /\ handle' \in BOOLEAN
        /\ known' \in {h.arg, known}
    BY <1>2 DEF Answered, CallEnds, Return
  <2>2. h \in Incoming
    BY <2>1, Numbers, TailFacts
  <2>3. h.arg \in 0..MaxZone
    BY <2>1, <2>2, MessageFacts DEF Replies
  <2> QED  BY <1>1, <2>1, <2>3, DeliveryStep
<1>3. CASE LateAnswer
  <2>1. /\ toClient # <<>> /\ toClient' = Tail(toClient)
        /\ UNCHANGED <<pvars, toPortal, n, since>> /\ seen' = seen /\ over' = over
        /\ op' = op /\ result' = result /\ handle' = handle /\ known' = known
    BY <1>3 DEF LateAnswer, kvars
  <2> QED  BY <1>1, <2>1, DeliveryStep
<1> QED  BY <1>2, <1>3

(* A signal is delivered, to the wait it ends or to nobody.                *)
LEMMA SignalStep ==
  ASSUME IInv, SignalArrives \/ SignalLost
  PROVE  IInv'
<1>1. /\ handle \in BOOLEAN /\ result \in {"ok", "raised"} /\ known \in 0..MaxZone
  BY DEF IInv, TypeOK
<1>2. CASE SignalArrives
  <2> DEFINE h == Head(toClient)
  <2>1. /\ toClient # <<>> /\ toClient' = Tail(toClient)
        /\ UNCHANGED <<pvars, toPortal, n, since>> /\ handle' = handle /\ known' = known
        /\ op' = "idle" /\ result' \in {"ok", "raised"}
    BY <1>2 DEF SignalArrives, kvars, Return
  <2>2. h.kind \in {op, "Closed"}
    BY <1>2 DEF SignalArrives, Listening
  <2>3. /\ seen' = seen \/ (h.kind = "Activated" /\ seen' = h.id)
        /\ over' = over \/ (h.kind = "Deactivated" /\ over' = h.id)
    BY <1>2, <2>2 DEF SignalArrives, kvars
  <2> QED  BY <1>1, <2>1, <2>3, DeliveryStep
<1>3. CASE SignalLost
  <2>1. /\ toClient # <<>> /\ toClient' = Tail(toClient)
        /\ UNCHANGED <<pvars, toPortal, n, since>> /\ seen' = seen /\ over' = over
        /\ op' = op /\ result' = result /\ handle' = handle /\ known' = known
    BY <1>3 DEF SignalLost, kvars
  <2> QED  BY <1>1, <2>1, DeliveryStep
<1> QED  BY <1>2, <1>3

-----------------------------------------------------------------------------
(* Every step keeps the invariant.                                         *)
LEMMA StepInv == ASSUME IInv, [Next]_vars PROVE IInv'
<1>1. CASE Compositor
  BY <1>1, BarrierCrossedStep, CaptureEndsStep, ZonesChangeStep, SessionEndsStep
     DEF Compositor
<1>2. CASE PortalHandles
  BY <1>2, PortalHandlesStep
<1>3. CASE Caller
  BY <1>3, CallStep, QuietStep DEF Caller
<1>4. CASE Delivery
  BY <1>4, AnswerStep, SignalStep DEF Delivery
<1>5. CASE GiveUp
  BY <1>5, QuietStep
<1>6. CASE UNCHANGED vars
  <2> USE <1>6 DEF vars, pvars, kvars
  <2>1. TypeOK'
    BY DEF IInv, TypeOK
  <2>2. SignalInv'
    BY DEF IInv, SignalInv, Now, Reports, Rank
  <2>3. CallInv' /\ AnswerInv'
    BY DEF IInv, CallInv, AnswerInv, Answers
  <2> QED  BY <2>1, <2>2, <2>3 DEF IInv
<1> QED  BY <1>1, <1>2, <1>3, <1>4, <1>5, <1>6 DEF Next

(* The invariant holds in every state.                                     *)
THEOREM Inductive == Spec => []IInv
<1>1. Init => IInv
  BY InitInv
<1>2. IInv /\ [Next]_vars => IInv'
  BY StepInv
<1> QED  BY <1>1, <1>2, PTL DEF Spec

(* The session, its caller and the connection keep to their types: every   *)
(* message that is under way is a whole one (portal.py:1474-1720).         *)
THEOREM Typing == Spec => []TypeOK
<1>1. IInv => TypeOK
  BY DEF IInv
<1> QED  BY <1>1, Inductive, PTL

-----------------------------------------------------------------------------
(* A wait that ends with a report has read it off the head of the queue.   *)
LEMMA ReportRead ==
  ASSUME IInv, [Next]_vars, NEW kind \in Waits, Returned(kind)
  PROVE  /\ Head(toClient) \in Incoming /\ Head(toClient).kind = kind
         /\ Rank(Head(toClient)) > 2 * seen /\ Rank(Head(toClient)) > 2 * over + 1
         /\ kind = "Activated"   => seen' = Head(toClient).id /\ over' = over
         /\ kind = "Deactivated" => over' = Head(toClient).id /\ seen' = seen
<1> DEFINE h == Head(toClient)
<1>1. op = kind /\ op' = "idle" /\ result' = "ok" /\ kind \notin Calls \cup {"idle"}
  BY DEF Returned, Waits, Calls, Requests
<1>2. SignalArrives
  <2>1. ~Compositor /\ ~PortalHandles /\ ~LateAnswer /\ ~SignalLost /\ ~UNCHANGED vars
    BY <1>1 DEF Compositor, BarrierCrossed, CaptureEnds, ZonesChange, SessionEnds,
       PortalHandles, LateAnswer, SignalLost, vars
  <2>2. ~Caller
    BY <1>1 DEF Caller, Zones, SetPointerBarriers, Enable, Disable, Release, Close, Send,
       WaitFor, Waits
  <2>3. ~GiveUp
    BY <1>1 DEF GiveUp, CallEnds, Return, Waits
  <2>4. ~Answered
    <3>1. SUFFICES ASSUME Answered PROVE FALSE
      OBVIOUS
    <3>2. h.kind = "reply" /\ h.method = op /\ toClient # <<>>
      BY <3>1 DEF Answered, Answers
    <3>3. h \in Replies
      BY <3>2, Numbers, TailFacts, MessageFacts
    <3> QED  BY <1>1, <3>2, <3>3 DEF Replies
  <2> QED  BY <2>1, <2>2, <2>3, <2>4 DEF Next, Delivery
<1>3. /\ toClient # <<>> /\ h.kind = kind
      /\ kind = "Activated"   => seen' = h.id /\ over' = over
      /\ kind = "Deactivated" => over' = h.id /\ seen' = seen
  BY <1>1, <1>2 DEF SignalArrives, Listening, Return
<1>4. h \in Incoming /\ h = toClient[1] /\ 1 \in 1..Len(toClient)
  BY <1>3, Numbers, TailFacts
<1> QED  BY <1>3, <1>4, Numbers DEF InOrder

(* Activations and ends are reported in the order they happened, each at   *)
(* most once, whatever signals the caller missed between its waits         *)
(* (portal.py:1675-1718).                                                  *)
THEOREM Ordered == Spec => ReportsInOrder
<1>1. ASSUME IInv, [Next]_vars, Returned("Activated")
      PROVE  seen' > seen /\ seen' > over
  <2>1. /\ Rank(Head(toClient)) = 2 * seen' /\ seen' \in Nat
        /\ Rank(Head(toClient)) > 2 * seen /\ Rank(Head(toClient)) > 2 * over + 1
    BY <1>1, ReportRead, MessageFacts, BoundsAssumption DEF Waits, Rank
  <2> QED  BY <2>1, Numbers, <1>1
<1>2. ASSUME IInv, [Next]_vars, Returned("Deactivated")
      PROVE  over' > over /\ over' >= seen
  <2>1. /\ Rank(Head(toClient)) = 2 * over' + 1 /\ over' \in Nat
        /\ Rank(Head(toClient)) > 2 * seen /\ Rank(Head(toClient)) > 2 * over + 1
    BY <1>2, ReportRead, MessageFacts, BoundsAssumption DEF Waits, Rank
  <2> QED  BY <2>1, Numbers, <1>2
<1>3. IInv /\ [Next]_vars =>
        [/\ Returned("Activated")   => seen' > seen /\ seen' > over
         /\ Returned("Deactivated") => over' > over /\ over' >= seen]_vars
  BY <1>1, <1>2
<1> QED  BY <1>3, Inductive, PTL DEF Spec, ReportsInOrder

(* The layout zones() returns was current while it was called, even if the *)
(* answer to an earlier zones() that timed out is still to come            *)
(* (portal.py:483-486, 1580-1613).                                         *)
THEOREM Current == Spec => FreshLayout
<1>1. ASSUME IInv, [Next]_vars, Returned("GetZones")
      PROVE  known' >= since
  <2> DEFINE h == Head(toClient)
  <2>1. op = "GetZones" /\ op' = "idle" /\ result' = "ok"
    BY <1>1 DEF Returned
  <2>2. Answered
    <3>1. ~Compositor /\ ~PortalHandles /\ ~LateAnswer /\ ~SignalLost /\ ~UNCHANGED vars
      BY <2>1 DEF Compositor, BarrierCrossed, CaptureEnds, ZonesChange, SessionEnds,
         PortalHandles, LateAnswer, SignalLost, vars
    <3>2. ~Caller
      BY <2>1 DEF Caller, Zones, SetPointerBarriers, Enable, Disable, Release, Close, Send,
         WaitFor
    <3>3. ~GiveUp
      BY <2>1 DEF GiveUp, CallEnds, Return
    <3>4. ~SignalArrives
      BY <2>1 DEF SignalArrives, Listening, Waits
    <3> QED  BY <1>1, <3>1, <3>2, <3>3, <3>4 DEF Next, Delivery
  <2>3. /\ toClient # <<>> /\ h.kind = "reply" /\ h.method = "GetZones" /\ h.n = n
        /\ known' = h.arg
    BY <2>1, <2>2 DEF Answered, Answers, CallEnds, Return
  <2>4. h = toClient[1] /\ 1 \in 1..Len(toClient)
    BY <1>1, <2>3, Numbers, TailFacts
  <2>5. Timely(toClient, op, n, since)
    BY <1>1, Sizes
  <2> QED  BY <2>1, <2>3, <2>4, <2>5 DEF Timely
<1>2. IInv /\ [Next]_vars => [Returned("GetZones") => known' >= since]_vars
  BY <1>1
<1> QED  BY <1>2, Inductive, PTL DEF Spec, FreshLayout

(* A release that comes too late ends nothing: the capture it ends is the  *)
(* one the caller named (portal.py:1546-1578).                             *)
THEOREM Released == Spec => ReleasesOwn
<1>1. ASSUME IInv, [Next]_vars, toPortal' # toPortal, active # 0, active' = 0
      PROVE  Head(toPortal).method = "Close" \/ Head(toPortal).arg = active
  <2> DEFINE c == Head(toPortal)
  <2>1. PortalHandles
    <3>1. ~Compositor /\ ~Delivery /\ ~GiveUp /\ ~UNCHANGED vars
      BY <1>1 DEF Compositor, BarrierCrossed, CaptureEnds, ZonesChange, SessionEnds,
         Delivery, Answered, LateAnswer, SignalArrives, SignalLost, GiveUp, vars
    <3>2. ~Caller
      BY <1>1 DEF Caller, Zones, SetPointerBarriers, Enable, Disable, Release, Close, Send,
         WaitFor, pvars
    <3> QED  BY <1>1, <3>1, <3>2 DEF Next
  <2>2. toPortal # <<>> /\ \E ok \in BOOLEAN : IF ok THEN Accepts(c) ELSE Refuses
    BY <2>1 DEF PortalHandles
  <2>3. Effect(c)
    BY <1>1, <2>2 DEF Refuses, Accepts
  <2>4. c.method \in {"Close", "Release"} /\ (c.method = "Release" => c.opt \in {0, active})
    BY <1>1, <2>3 DEF Effect
  <2>5. c = toPortal[1] /\ 1 \in 1..Len(toPortal)
    BY <1>1, <2>2, Sizes, TailFacts
  <2>6. c.method = "Release" => c.opt = c.arg /\ c.arg # 0
    BY <1>1, <2>5, Sizes DEF Named
  <2> QED  BY <2>4, <2>6
<1>2. IInv /\ [Next]_vars =>
        [toPortal' # toPortal /\ active # 0 /\ active' = 0
           => Head(toPortal).method = "Close" \/ Head(toPortal).arg = active]_vars
  BY <1>1
<1> QED  BY <1>2, Inductive, PTL DEF Spec, ReleasesOwn
=============================================================================
