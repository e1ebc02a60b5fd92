-------------------------- MODULE EventQueueProofs ---------------------------
(***************************************************************************)
(* Proofs about EventQueue, for any number of loops, events, addresses,    *)
(* pings and event types: each event is yielded once and in order, held by *)
(* the loop that is at it, and freed by its own wrapper; pings are counted *)
(* right; and an accessor reads its own event.                             *)
(***************************************************************************)
EXTENDS EventQueue, TLAPS

(* A queue with one more element.                                          *)
LEMMA AppendFacts ==
  ASSUME NEW S, NEW q \in Seq(S), NEW e \in S
  PROVE  /\ Append(q, e) \in Seq(S)
         /\ Len(q) \in Nat /\ Len(Append(q, e)) = Len(q) + 1
         /\ \A i \in 1..Len(q) : Append(q, e)[i] = q[i]
         /\ Append(q, e)[Len(q) + 1] = e
  OBVIOUS

(* A queue without its first element.                                      *)
LEMMA TailFacts ==
  ASSUME NEW S, NEW q \in Seq(S), q # <<>>
  PROVE  /\ Head(q) = q[1] /\ Head(q) \in S
         /\ Len(q) \in Nat /\ 1 <= Len(q)
         /\ Tail(q) \in Seq(S)
         /\ Len(Tail(q)) = Len(q) - 1
         /\ \A i \in 1..Len(q) - 1 : Tail(q)[i] = q[i + 1]
  OBVIOUS

(* The accessor event.pong is for PONG events only.                        *)
LEMMA PongOnly == Valid["pong"] = {"PONG"}
<1>1. CommonValid["pong"] = {"PONG"} /\ "pong" \in DOMAIN CommonValid
  BY DEF CommonValid
<1> QED  BY <1>1 DEF Valid

(* What the invariant says of the sizes.                                   *)
LEMMA Sizes ==
  ASSUME IInv
  PROVE  /\ Len(queue) \in Nat /\ Len(yielded) \in Nat /\ arrived \in 0..MaxEvents
         /\ MaxEvents \in Nat /\ NULL \notin Pointers
         /\ Len(yielded) + Len(queue) = arrived
         /\ queue \in Seq(Events) /\ yielded \in Seq(Events)
  BY EventsAssumption DEF IInv, TypeOK, OrderInv

(* Only an event that has arrived has references.                          *)
LEMMA Arrived ==
  ASSUME IInv, NEW e \in Events
  PROVE  e \in Nat /\ e # 0 /\ refs[e] \in 0..2 /\ (refs[e] > 0 => e \in 1..arrived)
<1> refs[e] \in 0..2
  BY DEF IInv, TypeOK
<1>1. e \in Nat /\ 1 <= e
  BY Sizes DEF Events
<1>2. ptr[e] # NULL => e <= Len(yielded)
  BY DEF IInv, WrapperInv
<1>3. peeking = e => e <= arrived
  BY <1>1 DEF IInv, OrderInv
<1>4. refs[e] > 0 => e <= arrived
  BY <1>1, <1>2, <1>3, Sizes DEF IInv, CountInv
<1> QED  BY <1>1, <1>4, Sizes

(* At the start there are no events and no pings.                          *)
LEMMA InitInv == ASSUME Init PROVE IInv
<1> USE EventsAssumption DEF Init
<1>1. queue \in Seq(Events) /\ yielded \in Seq(Events) /\ Len(queue) = 0 /\ Len(yielded) = 0
  OBVIOUS
<1>2. TypeOK
  BY <1>1 DEF TypeOK, Events
<1>3. OrderInv
  BY <1>1 DEF OrderInv, EachEventOnce
<1>4. PlaceInv /\ WrapperInv /\ CountInv
  BY <1>1 DEF PlaceInv, WrapperInv, CountInv, Events
<1>5. AnswerInv /\ PingRefs /\ ReadInv
  BY DEF AnswerInv, PingRefs, ReadInv
<1> QED  BY <1>2, <1>3, <1>4, <1>5 DEF IInv

-----------------------------------------------------------------------------
(* An event arrives, at an address that is free.                           *)
LEMMA DispatchStep ==
  ASSUME IInv, NEW p \in Pointers, NEW k \in Types \cup Pings, Dispatch(p, k)
  PROVE  IInv'
<1> DEFINE a == arrived + 1
<1> USE DEF Dispatch, wvars, gvars
<1>1. a \in Events /\ a \in Nat /\ arrived' = a
  BY Sizes DEF Events
<1>2. /\ queue' \in Seq(Events) /\ Len(queue') = Len(queue) + 1
      /\ \A i \in 1..Len(queue) : queue'[i] = queue[i]
      /\ queue'[Len(queue) + 1] = a
  BY <1>1, Sizes, AppendFacts
<1>3. /\ refs[a] = 0 /\ peeking # a /\ ptr[a] = NULL
      /\ \A q \in Pointers : place[q] # a
  <2>1. peeking # a /\ ptr[a] = NULL
    BY <1>1, Sizes DEF IInv, OrderInv, WrapperInv
  <2>2. refs[a] = 0
    BY <1>1, <2>1, Sizes DEF IInv, CountInv
  <2>3. a # 0
    BY Sizes
  <2> QED  BY <2>1, <2>2, <2>3 DEF IInv, PlaceInv
<1>4. /\ \A e \in Events : refs'[e] = IF e = a THEN 1 ELSE refs[e]
      /\ \A e \in Events : kind'[e] = IF e = a THEN k ELSE kind[e]
      /\ \A q \in Pointers : place'[q] = IF q = p THEN a ELSE place[q]
  BY <1>1 DEF IInv, TypeOK
<1>5. TypeOK'
  BY <1>1, <1>2, Sizes DEF IInv, TypeOK, Events
<1>6. OrderInv'
  <2>1. \A i \in 1..Len(queue') : queue'[i] = Len(yielded) + i
    <3> SUFFICES ASSUME NEW i \in 1..Len(queue') PROVE queue'[i] = Len(yielded) + i
      OBVIOUS
    <3>1. CASE i \in 1..Len(queue)
      BY <1>2, <3>1 DEF IInv, OrderInv
    <3>2. CASE i = Len(queue) + 1
      BY <1>2, <3>2, Sizes
    <3> QED  BY <1>2, <3>1, <3>2, Sizes
  <2>2. Len(yielded) + Len(queue') = arrived'
    BY <1>1, <1>2, Sizes
  <2>3. peeking # 0 => peeking = Len(yielded) + 1 /\ peeking <= arrived'
    BY <1>1, Sizes DEF IInv, OrderInv
  <2> QED  BY <2>1, <2>2, <2>3 DEF IInv, OrderInv, EachEventOnce
<1>7. PlaceInv'
  BY <1>1, <1>3, <1>4 DEF IInv, TypeOK, PlaceInv, Events
<1>8. WrapperInv'
  <2>1. \A e \in Events : ptr[e] # NULL => ptr[e] \in Pointers /\ place'[ptr[e]] = e
    BY <1>4 DEF IInv, TypeOK, WrapperInv, Events
  <2> QED  BY <2>1 DEF IInv, WrapperInv
<1>9. CountInv'
  <2>1. Len(yielded) < a /\ a <= arrived'
    BY <1>1, Sizes
  <2>2. \A e \in Events : e # a => (e <= arrived' <=> e <= arrived)
    BY <1>1, Sizes DEF Events
  <2> QED  BY <1>3, <1>4, <2>1, <2>2 DEF IInv, CountInv
<1>10. AnswerInv'
  BY <1>1, <1>4, Sizes DEF IInv, TypeOK, AnswerInv, Events
<1>11. PingRefs'
  <2> SUFFICES ASSUME NEW i \in Pings
               PROVE  pingRefs'[i] = (IF wrapper'[i] = "live" THEN 1 ELSE 0)
                        + (IF flight'[i] = "sent" THEN 1 ELSE 0)
                        + (IF \E e \in Events : kind'[e] = i /\ refs'[e] > 0 THEN 1 ELSE 0)
    BY DEF PingRefs
  <2>1. \A e \in Events : refs[e] > 0 => e \in 1..arrived
    BY Arrived
  <2>2. CASE k = i
    <3>1. flight[i] = "sent" /\ flight'[i] = "answered"
      BY <2>2 DEF IInv, TypeOK
    <3>2. ~\E e \in Events : kind[e] = i /\ refs[e] > 0
      BY <2>1, <3>1 DEF IInv, AnswerInv
    <3>3. kind'[a] = i /\ refs'[a] > 0
      BY <1>1, <1>4, <2>2
    <3> QED  BY <1>1, <3>1, <3>2, <3>3 DEF IInv, PingRefs
  <2>3. CASE k # i
    <3>1. flight'[i] = flight[i]
      BY <2>3 DEF IInv, TypeOK
    <3>2. (\E e \in Events : kind'[e] = i /\ refs'[e] > 0)
            <=> (\E e \in Events : kind[e] = i /\ refs[e] > 0)
      BY <1>3, <1>4, <2>3
    <3> QED  BY <3>1, <3>2 DEF IInv, PingRefs
  <2> QED  BY <2>2, <2>3
<1>12. ReadInv'
  BY <1>1, <1>4, Sizes DEF IInv, ReadInv, Type, Events
<1> QED  BY <1>5, <1>6, <1>7, <1>8, <1>9, <1>10, <1>11, <1>12 DEF IInv

-----------------------------------------------------------------------------
(* An unref at an address where there is an event: the event goes with its *)
(* last reference, and a PONG's reference to its ping with it.             *)
LEMMA UnrefFacts ==
  ASSUME IInv, NEW p \in Pointers, NEW e \in Events, place[p] = e, Unref(p)
  PROVE  /\ refs' = [refs EXCEPT ![e] = @ - 1] /\ refs[e] \in 1..2 /\ e \in 1..arrived
         /\ refs' \in [Events -> 0..2] /\ place' \in [Pointers -> 0..MaxEvents]
         /\ pingRefs' \in [Pings -> 0..3]
         /\ \A q \in Pointers : place'[q] = IF q = p /\ refs[e] = 1 THEN 0 ELSE place[q]
         /\ UNCHANGED <<flight, wrapper, kind>> => PingRefs'
         /\ PlaceInv'
<1>1. refs[e] \in 1..2 /\ refs \in [Events -> 0..2] /\ place \in [Pointers -> 0..MaxEvents]
  BY Arrived DEF IInv, TypeOK, PlaceInv
<1>2. e \in 1..arrived
  BY <1>1, Arrived
<1>3. refs' = [refs EXCEPT ![e] = @ - 1] /\ refs' \in [Events -> 0..2]
  BY <1>1 DEF Unref
<1>4. /\ \A q \in Pointers : place'[q] = IF q = p /\ refs[e] = 1 THEN 0 ELSE place[q]
      /\ place' \in [Pointers -> 0..MaxEvents]
  BY <1>1, Sizes DEF Unref
<1>5. PlaceInv'
  BY <1>1, <1>3, <1>4 DEF IInv, TypeOK, PlaceInv, Events
<1>6. ASSUME NEW i \in Pings
      PROVE  /\ pingRefs'[i] \in 0..3
             /\ UNCHANGED <<flight, wrapper, kind>> =>
                  pingRefs'[i] = (IF wrapper'[i] = "live" THEN 1 ELSE 0)
                    + (IF flight'[i] = "sent" THEN 1 ELSE 0)
                    + (IF \E f \in Events : kind'[f] = i /\ refs'[f] > 0 THEN 1 ELSE 0)
  <2> DEFINE carried == \E f \in Events : kind[f] = i /\ refs[f] > 0
             carries == \E f \in Events : kind[f] = i /\ refs'[f] > 0
             rest    == (IF wrapper[i] = "live" THEN 1 ELSE 0) + (IF flight[i] = "sent" THEN 1 ELSE 0)
  <2>1. pingRefs[i] = rest + (IF carried THEN 1 ELSE 0) /\ pingRefs[i] \in 0..3 /\ rest \in 0..2
    BY DEF IInv, TypeOK, PingRefs
  <2>2. CASE refs[e] = 1 /\ kind[e] = i
    <3>1. pingRefs'[i] = pingRefs[i] - 1
      BY <1>1, <2>2 DEF Unref, IInv, TypeOK
    <3>2. carried
      BY <2>2
    <3>3. ASSUME NEW f \in Events, kind[f] = i, refs'[f] > 0 PROVE FALSE
      <4>1. f # e
        BY <1>1, <1>3, <2>2, <3>3
      <4>2. f \in 1..arrived
        BY <1>1, <1>3, <3>3, <4>1, Arrived
      <4> QED  BY <1>2, <2>2, <3>3, <4>1, <4>2 DEF IInv, AnswerInv
    <3>4. ~carries
      BY <3>3
    <3>5. pingRefs'[i] = rest
      BY <2>1, <3>1, <3>2
    <3> QED  BY <2>1, <3>4, <3>5
  <2>3. CASE ~(refs[e] = 1 /\ kind[e] = i)
    <3>1. pingRefs'[i] = pingRefs[i]
      BY <1>1, <2>3 DEF Unref, IInv, TypeOK
    <3>2. \A f \in Events : kind[f] = i => (refs'[f] > 0 <=> refs[f] > 0)
      BY <1>1, <1>3, <2>3
    <3>3. carries <=> carried
      BY <3>2
    <3> QED  BY <2>1, <3>1, <3>3
  <2> QED  BY <2>2, <2>3
<1>7. DOMAIN pingRefs' = Pings /\ pingRefs' = [i \in Pings |-> pingRefs'[i]]
  BY DEF Unref, IInv, TypeOK
<1>8. pingRefs' \in [Pings -> 0..3]
  BY <1>6, <1>7
<1>9. UNCHANGED <<flight, wrapper, kind>> => PingRefs'
  BY <1>6 DEF PingRefs
<1> QED  BY <1>1, <1>2, <1>3, <1>4, <1>5, <1>8, <1>9

(* What holds of the wrappers but for who holds them.                      *)
Wrappers ==
  /\ cache \in [Pointers -> 0..MaxEvents] /\ ptr \in [Events -> Pointers \cup {NULL}]
  /\ \A p \in Pointers : cache[p] # 0 => ptr[cache[p]] = p
  /\ \A f \in Events : ptr[f] # NULL =>
       f <= Len(yielded) /\ place[ptr[f]] = f /\ cache[ptr[f]] = f

(* What the rest of the invariant says, which no loop is needed for.       *)
Others == /\ place \in [Pointers -> 0..MaxEvents] /\ refs \in [Events -> 0..2]
          /\ pingRefs \in [Pings -> 0..3]
          /\ OrderInv /\ PlaceInv /\ CountInv /\ AnswerInv /\ PingRefs /\ ReadInv

(* Giving an event back frees it and leaves every other event alone; one   *)
(* that has been released already is not given back again.                 *)
LEMMA ReleaseFacts ==
  ASSUME IInv, peeking = 0, NEW e \in Events, Release(e),
         UNCHANGED <<avars, flight, wrapper, yielded, peeking, reading>>
  PROVE  /\ Wrappers' /\ Others'
         /\ \A f \in Events : ptr'[f] # NULL => f # e /\ ptr[f] # NULL
<1> USE DEF avars
<1>1. IInv => Wrappers /\ Others
  BY DEF IInv, TypeOK, WrapperInv, Wrappers, Others
<1>2. CASE ptr[e] = NULL
  <2>1. UNCHANGED <<refs, place, pingRefs, cache, ptr>>
    BY <1>2 DEF Release, wvars
  <2>2. Wrappers'
    BY <1>1, <2>1 DEF Wrappers
  <2>3. Others'
    BY <1>1, <2>1 DEF Others, OrderInv, EachEventOnce, PlaceInv, CountInv, AnswerInv, PingRefs,
       ReadInv, Type
  <2> QED  BY <1>2, <2>1, <2>2, <2>3
<1>3. CASE ptr[e] # NULL
  <2> DEFINE p == ptr[e]
  <2>1. /\ p \in Pointers /\ place[p] = e /\ cache[p] = e /\ e <= Len(yielded)
        /\ e \in Nat /\ e # 0
    BY <1>3, Arrived DEF IInv, TypeOK, WrapperInv
  <2>2. /\ Unref(p)
        /\ ptr'   = [ptr EXCEPT ![e] = NULL]
        /\ cache' = [cache EXCEPT ![p] = 0]
    BY <1>3, <2>1 DEF Release
  <2>3. refs[e] = 1
    BY <1>3, <2>1, Sizes DEF IInv, CountInv
  <2>4. /\ refs' = [refs EXCEPT ![e] = @ - 1]
        /\ refs' \in [Events -> 0..2] /\ place' \in [Pointers -> 0..MaxEvents]
        /\ pingRefs' \in [Pings -> 0..3]
        /\ \A q \in Pointers : place'[q] = IF q = p THEN 0 ELSE place[q]
        /\ PingRefs'
        /\ PlaceInv'
    BY <2>1, <2>2, <2>3, UnrefFacts
  <2>5. Wrappers'
    <3>1. cache' \in [Pointers -> 0..MaxEvents] /\ ptr' \in [Events -> Pointers \cup {NULL}]
      BY <1>1, <2>1, <2>2, Sizes DEF Wrappers
    <3>2. ASSUME NEW q \in Pointers, cache'[q] # 0 PROVE ptr'[cache'[q]] = q
      <4>1. q # p /\ cache'[q] = cache[q]
        BY <1>1, <2>1, <2>2, <3>2 DEF Wrappers
      <4>2. ptr[cache[q]] = q /\ cache[q] \in Events /\ cache[q] # e
        BY <1>1, <3>2, <4>1, Sizes DEF Wrappers, Events
      <4> QED  BY <1>1, <2>2, <4>1, <4>2 DEF Wrappers
    <3>3. ASSUME NEW f \in Events, ptr'[f] # NULL
          PROVE  f <= Len(yielded') /\ place'[ptr'[f]] = f /\ cache'[ptr'[f]] = f
      <4>1. f # e /\ ptr'[f] = ptr[f]
        BY <1>1, <2>2, <3>3 DEF Wrappers
      <4>2. /\ ptr[f] \in Pointers /\ place[ptr[f]] = f /\ cache[ptr[f]] = f /\ f <= Len(yielded)
            /\ ptr[f] # p
        BY <1>1, <2>1, <3>3, <4>1 DEF Wrappers
      <4> QED  BY <1>1, <2>2, <2>4, <4>1, <4>2 DEF Wrappers
    <3> QED  BY <3>1, <3>2, <3>3 DEF Wrappers
  <2>6. CountInv'
    <3>1. refs'[e] = 0 /\ ptr'[e] = NULL
      BY <1>1, <2>2, <2>3, <2>4 DEF Others, Wrappers
    <3>2. \A f \in Events : f # e => refs'[f] = refs[f] /\ ptr'[f] = ptr[f]
      BY <1>1, <2>2, <2>4 DEF Others, Wrappers
    <3>3. ~(Len(yielded) < e) /\ peeking # e
      BY <2>1, Sizes
    <3> QED  BY <3>1, <3>2, <3>3 DEF IInv, CountInv
  <2>7. OrderInv' /\ AnswerInv' /\ ReadInv'
    BY <1>1 DEF Others, OrderInv, EachEventOnce, AnswerInv, ReadInv, Type
  <2>8. \A f \in Events : ptr'[f] # NULL => f # e /\ ptr[f] # NULL
    BY <1>1, <2>2 DEF Wrappers
  <2> QED  BY <2>4, <2>5, <2>6, <2>7, <2>8 DEF Others
<1> QED  BY <1>1, <1>2, <1>3

(* Put together again, with the loops.                                     *)
LEMMA Together ==
  ASSUME Wrappers', Others',
         /\ queue' \in Seq(Events) /\ yielded' \in Seq(Events)
         /\ arrived' \in 0..MaxEvents /\ peeking' \in 0..MaxEvents
         /\ loop' \in [Loops -> {"new", "yielded", "done"}] /\ cur' \in [Loops -> 0..MaxEvents]
         /\ kind' \in [Events -> Types \cup Pings \cup {NULL}]
         /\ flight' \in [Pings -> {"unsent", "sent", "answered"}]
         /\ wrapper' \in [Pings -> {"none", "live", "dropped"}]
         /\ reading' \in (Events \X Getters) \cup {<<>>},
         /\ \A e \in Events : ptr'[e] # NULL => \E l \in Loops : cur'[l] = e
         /\ \A l \in Loops : cur'[l] <= Len(yielded')
  PROVE  IInv'
<1>1. TypeOK'
  BY DEF TypeOK, Wrappers, Others
<1>2. WrapperInv'
  BY DEF Wrappers, WrapperInv
<1> QED  BY <1>1, <1>2 DEF IInv, Others

(* A loop goes on or ends, and has given its event back.                   *)
LEMMA GiveBackStep ==
  ASSUME IInv, NEW l \in Loops, GiveBack(l) \/ Leave(l)
  PROVE  IInv'
<1> USE DEF GiveBack, Leave
<1>1. cur[l] \in Events /\ cur' = [cur EXCEPT ![l] = 0]
  BY Sizes DEF IInv, TypeOK, Events
<1>2. /\ Wrappers' /\ Others'
      /\ \A f \in Events : ptr'[f] # NULL => f # cur[l] /\ ptr[f] # NULL
  BY <1>1, ReleaseFacts
<1>3. \A e \in Events : ptr'[e] # NULL => \E m \in Loops : cur'[m] = e
  BY <1>1, <1>2 DEF IInv, TypeOK, WrapperInv
<1>4. \A m \in Loops : cur'[m] <= Len(yielded')
  BY <1>1, Sizes DEF IInv, TypeOK, WrapperInv
<1>5. loop' \in [Loops -> {"new", "yielded", "done"}] /\ cur' \in [Loops -> 0..MaxEvents]
  BY <1>1, Sizes DEF IInv, TypeOK
<1> QED  BY <1>2, <1>3, <1>4, <1>5, Together DEF IInv, TypeOK, avars

(* The program releases an event that it has been given.                   *)
LEMMA UserReleasesStep ==
  ASSUME IInv, NEW e \in Events, UserReleases(e)
  PROVE  IInv'
<1> USE DEF UserReleases, gvars
<1>1. /\ Wrappers' /\ Others'
      /\ \A f \in Events : ptr'[f] # NULL => f # e /\ ptr[f] # NULL
  BY ReleaseFacts
<1>2. \A f \in Events : ptr'[f] # NULL => \E m \in Loops : cur'[m] = f
  BY <1>1 DEF IInv, WrapperInv
<1>3. \A m \in Loops : cur'[m] <= Len(yielded')
  BY DEF IInv, WrapperInv
<1> QED  BY <1>1, <1>2, <1>3, Together DEF IInv, TypeOK, avars

(* A loop takes the first of the queue, under a wrapper of its own.        *)
LEMMA TakeStep == ASSUME IInv, NEW l \in Loops, Take(l) PROVE IInv'
<1> DEFINE n == Len(yielded) + 1
<1> USE DEF Take, pvars
<1>1. /\ Head(queue) = queue[1] /\ 1 <= Len(queue)
      /\ queue' \in Seq(Events)
      /\ Len(queue') = Len(queue) - 1
      /\ \A i \in 1..Len(queue) - 1 : queue'[i] = queue[i + 1]
  BY Sizes, TailFacts
<1>2. Head(queue) = n /\ n \in Events /\ n \in Nat
  BY <1>1, Sizes DEF IInv, OrderInv, Events
<1>3. ptr[n] = NULL /\ \A m \in Loops : cur[m] # n
  BY <1>2, Sizes DEF IInv, TypeOK, WrapperInv
<1>4. PICK p \in Pointers :
        /\ place[p] = n
        /\ cur'     = [cur EXCEPT ![l] = Wrapped(p)]
        /\ yielded' = Append(yielded, Wrapped(p))
        /\ IF cache[p] # 0 THEN UNCHANGED <<cache, ptr>>
           ELSE /\ cache' = [cache EXCEPT ![p] = Wrapped(p)]
                /\ ptr'   = [ptr EXCEPT ![Wrapped(p)] = p]
  BY <1>2
<1>5. cache[p] = 0
  <2>1. CASE cache[p] # 0
    <3>1. cache[p] \in Events /\ ptr[cache[p]] = p
      BY <2>1, Sizes DEF IInv, TypeOK, WrapperInv, Events
    <3>2. cache[p] = n
      BY <1>4, <3>1, Sizes DEF IInv, WrapperInv
    <3> QED  BY <1>3, <3>1, <3>2, Sizes
  <2> QED  BY <2>1
<1>6. /\ cur' = [cur EXCEPT ![l] = n] /\ yielded' = Append(yielded, n)
      /\ cache' = [cache EXCEPT ![p] = n] /\ ptr' = [ptr EXCEPT ![n] = p]
  BY <1>4, <1>5 DEF Wrapped
<1>7. /\ yielded' \in Seq(Events) /\ Len(yielded') = n
      /\ \A i \in 1..Len(yielded) : yielded'[i] = yielded[i]
      /\ yielded'[n] = n
  BY <1>2, <1>6, Sizes, AppendFacts
<1>8. OrderInv'
  <2>1. \A i \in 1..Len(yielded') : yielded'[i] = i
    <3> SUFFICES ASSUME NEW i \in 1..Len(yielded') PROVE yielded'[i] = i
      OBVIOUS
    <3>1. CASE i \in 1..Len(yielded)
      BY <1>7, <3>1 DEF IInv, OrderInv, EachEventOnce
    <3>2. CASE i = n
      BY <1>7, <3>2
    <3> QED  BY <1>7, <3>1, <3>2, Sizes
  <2>2. \A i \in 1..Len(queue') : queue'[i] = n + i
    BY <1>1, Sizes DEF IInv, OrderInv
  <2>3. Len(yielded') + Len(queue') = arrived'
    BY <1>1, <1>7, Sizes
  <2> QED  BY <1>7, <2>1, <2>2, <2>3 DEF OrderInv, EachEventOnce
<1>9. CountInv'
  <2> SUFFICES ASSUME NEW e \in Events
               PROVE  refs'[e] = (IF Len(yielded') < e /\ e <= arrived' THEN 1 ELSE 0)
                                 + (IF ptr'[e] # NULL THEN 1 ELSE 0)
                                 + (IF peeking' = e THEN 1 ELSE 0)
    BY DEF CountInv
  <2>1. CASE e = n
    <3>1. ptr'[n] # NULL
      BY <1>2, <1>6, Sizes DEF IInv, TypeOK
    <3>2. Len(yielded) < n /\ n <= arrived /\ ~(Len(yielded') < n)
      BY <1>1, <1>7, Sizes
    <3> QED  BY <1>3, <2>1, <3>1, <3>2 DEF IInv, CountInv
  <2>2. CASE e # n
    <3>1. ptr'[e] = ptr[e]
      BY <1>6, <2>2 DEF IInv, TypeOK
    <3>2. Len(yielded') < e <=> Len(yielded) < e
      BY <1>7, <2>2, Sizes, Arrived
    <3> QED  BY <3>1, <3>2 DEF IInv, CountInv
  <2> QED  BY <2>1, <2>2
<1>10. Wrappers'
  <2>1. cache' \in [Pointers -> 0..MaxEvents] /\ ptr' \in [Events -> Pointers \cup {NULL}]
    BY <1>2, <1>6, Sizes DEF IInv, TypeOK, Events
  <2>2. ASSUME NEW q \in Pointers, cache'[q] # 0 PROVE ptr'[cache'[q]] = q
    <3>1. CASE q = p
      BY <1>2, <1>6, <3>1 DEF IInv, TypeOK
    <3>2. CASE q # p
      BY <1>2, <1>3, <1>6, <2>2, <3>2, Sizes DEF IInv, TypeOK, WrapperInv, Events
    <3> QED  BY <3>1, <3>2
  <2>3. ASSUME NEW f \in Events, ptr'[f] # NULL
        PROVE  f <= Len(yielded') /\ place'[ptr'[f]] = f /\ cache'[ptr'[f]] = f
    <3>1. CASE f = n
      BY <1>2, <1>4, <1>6, <1>7, <3>1, Sizes DEF IInv, TypeOK
    <3>2. CASE f # n
      <4>1. ptr'[f] = ptr[f] /\ ptr[f] \in Pointers /\ place[ptr[f]] = f /\ cache[ptr[f]] = f
            /\ f <= Len(yielded)
        BY <1>6, <2>3, <3>2 DEF IInv, TypeOK, WrapperInv
      <4>2. ptr[f] # p
        BY <1>4, <3>2, <4>1
      <4> QED  BY <1>6, <1>7, <4>1, <4>2, Sizes, Arrived DEF IInv, TypeOK
    <3> QED  BY <3>1, <3>2
  <2> QED  BY <2>1, <2>2, <2>3 DEF Wrappers
<1>11. Others'
  <2>1. /\ place' \in [Pointers -> 0..MaxEvents] /\ refs' \in [Events -> 0..2]
        /\ pingRefs' \in [Pings -> 0..3]
    BY DEF IInv, TypeOK
  <2>2. PlaceInv' /\ AnswerInv' /\ PingRefs'
    BY DEF IInv, PlaceInv, AnswerInv, PingRefs
  <2>3. ReadInv'
    BY DEF IInv, ReadInv, Type
  <2> QED  BY <1>8, <1>9, <2>1, <2>2, <2>3 DEF Others
<1>12. \A e \in Events : ptr'[e] # NULL => \E m \in Loops : cur'[m] = e
  <2> SUFFICES ASSUME NEW e \in Events, ptr'[e] # NULL PROVE \E m \in Loops : cur'[m] = e
    OBVIOUS
  <2>1. CASE e = n
    BY <1>6, <2>1 DEF IInv, TypeOK
  <2>2. CASE e # n
    <3>1. PICK m \in Loops : cur[m] = e
      BY <1>6, <2>2 DEF IInv, TypeOK, WrapperInv
    <3>2. m # l
      BY <3>1, Arrived
    <3> QED  BY <1>6, <3>1, <3>2 DEF IInv, TypeOK
  <2> QED  BY <2>1, <2>2
<1>13. \A m \in Loops : cur'[m] <= Len(yielded')
  BY <1>2, <1>6, <1>7, Sizes DEF IInv, TypeOK, WrapperInv
<1>14. loop' \in [Loops -> {"new", "yielded", "done"}] /\ cur' \in [Loops -> 0..MaxEvents]
  BY <1>2, <1>6, Sizes DEF IInv, TypeOK, Events
<1> QED  BY <1>1, <1>7, <1>10, <1>11, <1>12, <1>13, <1>14, Together DEF IInv, TypeOK

(* A loop that finds nothing ends, and another one may follow.             *)
LEMMA LoopEndsStep ==
  ASSUME IInv, NEW l \in Loops, Exhausted(l) \/ Again(l)
  PROVE  IInv'
<1> USE DEF Exhausted, Again, avars, pvars, wvars
<1>1. /\ loop' \in [Loops -> {"new", "yielded", "done"}]
      /\ UNCHANGED <<avars, place, refs, pvars, wvars, cur, yielded, peeking, reading>>
  BY DEF IInv, TypeOK
<1> HIDE DEF Exhausted, Again
<1>2. TypeOK'
  BY <1>1 DEF IInv, TypeOK
<1>3. OrderInv' /\ PlaceInv' /\ WrapperInv' /\ CountInv'
  BY <1>1 DEF IInv, OrderInv, EachEventOnce, PlaceInv, WrapperInv, CountInv
<1>4. AnswerInv' /\ PingRefs' /\ ReadInv'
  BY <1>1 DEF IInv, AnswerInv, PingRefs, ReadInv, Type
<1> QED  BY <1>2, <1>3, <1>4 DEF IInv

(* peek_event_type() holds the first of the queue ...                      *)
LEMMA PeekStep == ASSUME IInv, Peek PROVE IInv'
<1> USE DEF Peek, avars, pvars, wvars, gvars
<1>1. peeking' = Len(yielded) + 1 /\ peeking' \in Events /\ peeking' <= arrived
  <2>1. Head(queue) = queue[1] /\ Head(queue) \in Events /\ 1 <= Len(queue)
    BY Sizes, TailFacts
  <2> QED  BY <2>1, Sizes DEF IInv, OrderInv
<1>2. ptr[peeking'] = NULL /\ refs[peeking'] = 1 /\ peeking' # 0
  <2>1. ptr[peeking'] = NULL
    BY <1>1, Sizes DEF IInv, WrapperInv
  <2>4. peeking = 0
    OBVIOUS
  <2> HIDE DEF Peek
  <2>2. peeking' # 0
    BY <1>1, Sizes
  <2>3. ASSUME NEW n \in Events, n = Len(yielded) + 1, n # 0, n <= arrived, ptr[n] = NULL
        PROVE  refs[n] = 1
    BY <2>3, <2>4, Sizes DEF IInv, CountInv
  <2> QED  BY <1>1, <2>1, <2>2, <2>3
<1>3. refs' = [refs EXCEPT ![peeking'] = refs[peeking'] + 1]
  OBVIOUS
<1>4. refs' \in [Events -> 0..2] /\ peeking' \in 0..MaxEvents
  <2>1. refs[peeking'] + 1 \in 0..2
    BY <1>2
  <2>2. refs' \in [Events -> 0..2]
    BY <1>3, <2>1 DEF IInv, TypeOK
  <2> QED  BY <1>1, <2>2 DEF Events
<1>5. \A e \in Events : refs'[e] > 0 <=> refs[e] > 0
  BY <1>1, <1>2, <1>3 DEF IInv, TypeOK
<1>6. TypeOK'
  BY <1>4 DEF IInv, TypeOK
<1>7. OrderInv'
  BY <1>1 DEF IInv, OrderInv, EachEventOnce
<1>8. PlaceInv'
  BY <1>5 DEF IInv, TypeOK, PlaceInv, Events
<1>9. CountInv'
  <2> SUFFICES ASSUME NEW e \in Events
               PROVE  refs'[e] = (IF Len(yielded) < e /\ e <= arrived THEN 1 ELSE 0)
                                 + (IF ptr[e] # NULL THEN 1 ELSE 0)
                                 + (IF peeking' = e THEN 1 ELSE 0)
    BY DEF CountInv
  <2>1. CASE e = peeking'
    <3>1. refs'[e] = 2 /\ ptr[e] = NULL
      BY <1>2, <1>3, <2>1 DEF IInv, TypeOK
    <3> QED  BY <1>1, <2>1, <3>1, Sizes
  <2>2. CASE e # peeking'
    <3>1. refs'[e] = refs[e] /\ peeking # e
      BY <1>3, <2>2, Arrived DEF IInv, TypeOK
    <3> QED  BY <2>2, <3>1 DEF IInv, CountInv
  <2> QED  BY <2>1, <2>2
<1>10. WrapperInv' /\ AnswerInv' /\ ReadInv'
  BY DEF IInv, WrapperInv, AnswerInv, ReadInv, Type
<1>11. PingRefs'
  BY <1>5 DEF IInv, PingRefs
<1> QED  BY <1>6, <1>7, <1>8, <1>9, <1>10, <1>11 DEF IInv

(* ... and gives it back: it is still in the queue.                        *)
LEMMA PeekEndStep == ASSUME IInv, PeekEnd PROVE IInv'
<1> USE DEF PeekEnd, avars, wvars, gvars
<1>1. PICK p \in Pointers : place[p] = peeking /\ Unref(p)
  OBVIOUS
<1>2. /\ peeking = Len(yielded) + 1 /\ peeking <= arrived /\ peeking \in Events
  BY Sizes DEF IInv, TypeOK, OrderInv, Events
<1>3. ptr[peeking] = NULL /\ refs[peeking] = 2
  <2>1. ptr[peeking] = NULL
    BY <1>2, Sizes DEF IInv, WrapperInv
  <2> QED  BY <1>2, <2>1, Sizes DEF IInv, CountInv
<1>4. /\ refs' = [refs EXCEPT ![peeking] = @ - 1]
      /\ refs' \in [Events -> 0..2] /\ place' \in [Pointers -> 0..MaxEvents]
      /\ pingRefs' \in [Pings -> 0..3]
      /\ \A q \in Pointers : place'[q] = place[q]
      /\ PingRefs' /\ PlaceInv'
  BY <1>1, <1>2, <1>3, UnrefFacts
<1>5. TypeOK'
  BY <1>4, Sizes DEF IInv, TypeOK
<1>6. OrderInv'
  BY DEF IInv, OrderInv, EachEventOnce
<1>7. CountInv'
  <2> SUFFICES ASSUME NEW e \in Events
               PROVE  refs'[e] = (IF Len(yielded) < e /\ e <= arrived THEN 1 ELSE 0)
                                 + (IF ptr[e] # NULL THEN 1 ELSE 0)
                                 + (IF peeking' = e THEN 1 ELSE 0)
    BY DEF CountInv
  <2>1. CASE e = peeking
    <3>1. refs'[e] = 1 /\ ptr[e] = NULL /\ peeking' # e
      BY <1>3, <1>4, <2>1, Arrived DEF IInv, TypeOK
    <3> QED  BY <1>2, <2>1, <3>1, Sizes
  <2>2. CASE e # peeking
    <3>1. refs'[e] = refs[e] /\ peeking' # e
      BY <1>4, <2>2, Arrived DEF IInv, TypeOK
    <3> QED  BY <2>2, <3>1 DEF IInv, CountInv
  <2> QED  BY <2>1, <2>2
<1>8. WrapperInv'
  BY <1>4 DEF IInv, TypeOK, WrapperInv
<1>9. AnswerInv' /\ ReadInv'
  BY DEF IInv, AnswerInv, ReadInv, Type
<1> QED  BY <1>4, <1>5, <1>6, <1>7, <1>8, <1>9 DEF IInv

(* An accessor has seen the type of its event ...                          *)
LEMMA RequireStep ==
  ASSUME IInv, NEW e \in Events, NEW g \in Getters, Require(e, g)
  PROVE  IInv'
<1> USE DEF Require, avars, pvars, wvars, gvars
<1>1. TypeOK'
  BY DEF IInv, TypeOK
<1>2. OrderInv' /\ PlaceInv' /\ WrapperInv' /\ CountInv' /\ AnswerInv' /\ PingRefs'
  BY DEF IInv, OrderInv, EachEventOnce, PlaceInv, WrapperInv, CountInv, AnswerInv, PingRefs
<1>3. place[ptr[e]] = e /\ e <= arrived
  BY Sizes, Arrived DEF IInv, WrapperInv
<1>4. ReadInv'
  BY <1>3 DEF ReadInv, Type
<1> QED  BY <1>1, <1>2, <1>4 DEF IInv

(* ... which is a PONG, with a ping, if event.pong reads it.               *)
LEMMA PongFacts ==
  ASSUME IInv, NEW e \in Events, reading = <<e, "pong">>, "pong" \in Getters, ptr[e] # NULL
  PROVE  place[ptr[e]] = e /\ kind[e] \in Pings
<1>1. e \in 1..arrived /\ Type(e) \in Valid["pong"]
  BY Arrived DEF IInv, ReadInv
<1>2. kind[e] \in Types \cup Pings
  BY <1>1 DEF IInv, AnswerInv
<1>3. Type(e) = "PONG"
  BY <1>1, PongOnly
<1> QED  BY <1>2, <1>3, EventsAssumption, Arrived DEF IInv, WrapperInv, Type

(* Reading ends; event.pong takes a reference of its own.                  *)
LEMMA ReadStep ==
  ASSUME IInv, NEW e \in Events, NEW g \in Getters, Read(e, g)
  PROVE  IInv'
<1> USE DEF avars, wvars, gvars
<1>1. /\ reading' = <<>>
      /\ UNCHANGED <<avars, place, refs, flight, wvars, gvars, peeking>>
  BY DEF Read
<1>2. /\ wrapper' \in [Pings -> {"none", "live", "dropped"}] /\ pingRefs' \in [Pings -> 0..3]
      /\ PingRefs'
  <2>1. CASE g = "pong" /\ ptr[e] # NULL /\ wrapper[kind[place[ptr[e]]]] # "live"
    <3> DEFINE i == kind[e]
    <3>1. place[ptr[e]] = e /\ i \in Pings
      BY <2>1, PongFacts DEF Read
    <3>2. /\ wrapper'  = [wrapper EXCEPT ![i] = "live"] /\ wrapper[i] # "live"
          /\ pingRefs' = [pingRefs EXCEPT ![i] = @ + 1]
      BY <2>1, <3>1 DEF Read
    <3>3. PingRefs'
      BY <1>1, <3>1, <3>2 DEF IInv, TypeOK, PingRefs
    <3>4. wrapper' \in [Pings -> {"none", "live", "dropped"}]
      BY <3>1, <3>2 DEF IInv, TypeOK
    <3>5. pingRefs[i] \in 0..2
      BY <3>1, <3>2 DEF IInv, PingRefs
    <3>6. pingRefs' \in [Pings -> 0..3]
      BY <3>1, <3>2, <3>5 DEF IInv, TypeOK
    <3> QED  BY <3>3, <3>4, <3>6
  <2>2. CASE UNCHANGED <<wrapper, pingRefs>>
    BY <1>1, <2>2 DEF IInv, TypeOK, PingRefs
  <2> QED  BY <2>1, <2>2 DEF Read
<1>3. TypeOK'
  BY <1>1, <1>2 DEF IInv, TypeOK
<1>4. OrderInv' /\ PlaceInv' /\ WrapperInv' /\ CountInv' /\ AnswerInv'
  BY <1>1 DEF IInv, OrderInv, EachEventOnce, PlaceInv, WrapperInv, CountInv, AnswerInv
<1>5. ReadInv'
  BY <1>1 DEF ReadInv
<1> QED  BY <1>2, <1>3, <1>4, <1>5 DEF IInv

(* The wrapper of a ping and the library each hold a reference to it.      *)
LEMMA PingStep == ASSUME IInv, NEW i \in Pings, Ping(i) PROVE IInv'
<1> USE DEF Ping, NewPing, Send, DropPing, avars, wvars, gvars
<1>1. UNCHANGED <<avars, place, refs, wvars, gvars, peeking, reading>>
  OBVIOUS
<1>2. /\ \/ wrapper[i] # "live" /\ wrapper' = [wrapper EXCEPT ![i] = "live"] /\ UNCHANGED flight
            /\ pingRefs' = [pingRefs EXCEPT ![i] = @ + 1]
         \/ flight[i] = "unsent" /\ flight' = [flight EXCEPT ![i] = "sent"] /\ UNCHANGED wrapper
            /\ pingRefs' = [pingRefs EXCEPT ![i] = @ + 1]
         \/ wrapper[i] = "live" /\ wrapper' = [wrapper EXCEPT ![i] = "dropped"] /\ UNCHANGED flight
            /\ pingRefs' = [pingRefs EXCEPT ![i] = @ - 1]
  OBVIOUS
<1> HIDE DEF Ping, NewPing, Send, DropPing
<1>3. wrapper' \in [Pings -> {"none", "live", "dropped"}]
  BY <1>2 DEF IInv, TypeOK
<1>4. flight' \in [Pings -> {"unsent", "sent", "answered"}]
  BY <1>2 DEF IInv, TypeOK
<1>5. PingRefs'
  BY <1>1, <1>2 DEF IInv, TypeOK, PingRefs
<1>6. pingRefs' \in [Pings -> 0..3]
  <2>1. DOMAIN pingRefs' = Pings /\ pingRefs' = [j \in Pings |-> pingRefs'[j]]
    BY <1>2 DEF IInv, TypeOK
  <2>2. \A j \in Pings : pingRefs'[j] \in 0..3
    BY <1>5 DEF PingRefs
  <2> QED  BY <2>1, <2>2
<1>7. TypeOK'
  BY <1>1, <1>3, <1>4, <1>6 DEF IInv, TypeOK
<1>8. OrderInv' /\ PlaceInv' /\ WrapperInv' /\ CountInv' /\ ReadInv'
  BY <1>1 DEF IInv, OrderInv, EachEventOnce, PlaceInv, WrapperInv, CountInv, ReadInv, Type
<1>9. AnswerInv'
  BY <1>1, <1>2 DEF IInv, TypeOK, AnswerInv
<1> QED  BY <1>5, <1>7, <1>8, <1>9 DEF IInv

-----------------------------------------------------------------------------
(* Every step keeps the invariant.                                         *)
LEMMA StepInv == ASSUME IInv, [Next]_vars PROVE IInv'
<1>1. CASE UNCHANGED vars
  <2> USE <1>1 DEF vars, avars, pvars, wvars, gvars
  <2>1. TypeOK'
    BY DEF IInv, TypeOK
  <2>2. OrderInv' /\ PlaceInv' /\ WrapperInv' /\ CountInv'
    BY DEF IInv, OrderInv, EachEventOnce, PlaceInv, WrapperInv, CountInv
  <2>3. AnswerInv' /\ PingRefs' /\ ReadInv'
    BY DEF IInv, AnswerInv, PingRefs, ReadInv, Type
  <2> QED  BY <2>1, <2>2, <2>3 DEF IInv
<1>2. CASE Next
  BY <1>2, DispatchStep, GiveBackStep, UserReleasesStep, TakeStep, LoopEndsStep, PeekStep,
     PeekEndStep, RequireStep, ReadStep, PingStep
  DEF Next, Loop
<1> QED  BY <1>1, <1>2

(* The invariant holds in every state.                                     *)
LEMMA Inductive == Spec => []IInv
  BY InitInv, StepInv, PTL DEF Spec

-----------------------------------------------------------------------------
(* The results.                                                            *)

(* Every variable keeps its type.                                          *)
THEOREM Typing == Spec => []TypeOK
  BY Inductive, PTL DEF IInv

(* Each event is yielded once, in the order of arrival (ei.py:1126-1131).  *)
THEOREM Order == Spec => []EachEventOnce
<1>1. IInv => EachEventOnce
  BY DEF IInv, OrderInv
<1> QED  BY <1>1, Inductive, PTL

(* An event taken from the queue is held by the loop that is at it and by  *)
(* nothing else (ei.py:1113-1125, 1132-1139).                              *)
THEOREM Held == Spec => []HeldByItsLoop
<1>1. ASSUME IInv PROVE HeldByItsLoop
  <2> SUFFICES ASSUME NEW e \in Events, e \in 1..Len(yielded), refs[e] > 0
               PROVE  \E l \in Loops : cur[l] = e
    BY DEF HeldByItsLoop
  <2>1. peeking # e
    BY <1>1, Sizes, Arrived DEF IInv, OrderInv
  <2>2. ptr[e] # NULL
    BY <1>1, <2>1, Sizes DEF IInv, CountInv
  <2> QED  BY <1>1, <2>2 DEF IInv, WrapperInv
<1> QED  BY <1>1, Inductive, PTL

(* A wrapper frees its own event only (ei.py:1132-1139).                   *)
THEOREM Freed == Spec => []OwnEventFreed
<1>1. ASSUME IInv PROVE OwnEventFreed
  <2> SUFFICES ASSUME NEW e \in Events, e <= arrived
               PROVE  refs[e] = (IF \E i \in 1..Len(queue) : queue[i] = e THEN 1 ELSE 0)
                                + (IF ptr[e] # NULL THEN 1 ELSE 0)
                                + (IF peeking = e THEN 1 ELSE 0)
    BY DEF OwnEventFreed
  <2>1. ASSUME NEW i \in 1..Len(queue), queue[i] = e PROVE Len(yielded) < e
    BY <1>1, <2>1, Sizes, Arrived DEF IInv, OrderInv
  <2>2. ASSUME Len(yielded) < e PROVE \E i \in 1..Len(queue) : queue[i] = e
    <3>1. e - Len(yielded) \in 1..Len(queue)
      BY <1>1, <2>2, Sizes, Arrived
    <3>2. queue[e - Len(yielded)] = e
      BY <1>1, <3>1, Sizes, Arrived DEF IInv, OrderInv
    <3> QED  BY <3>1, <3>2
  <2>3. (\E i \in 1..Len(queue) : queue[i] = e) <=> Len(yielded) < e /\ e <= arrived
    BY <2>1, <2>2
  <2> QED  BY <1>1, <2>3 DEF IInv, CountInv
<1> QED  BY <1>1, Inductive, PTL

(* A ping lives as long as somebody has a reference to it                  *)
(* (ei.py:1005-1015, 1208-1218, eis.py:823-833, 1087-1096).                *)
THEOREM Pinged == Spec => []PingRefs
  BY Inductive, PTL DEF IInv

(* An accessor returns the payload of its own event, of a type that has it *)
(* (ei.py:847-861, eis.py:919-933).                                        *)
THEOREM OwnPayload == Spec => []ReadsOwnPayload
<1>1. ASSUME IInv PROVE ReadsOwnPayload
  BY <1>1 DEF IInv, WrapperInv, ReadInv, ReadsOwnPayload
<1> QED  BY <1>1, Inductive, PTL
=============================================================================
