----------------------------- MODULE EventQueue -----------------------------
(***************************************************************************)
(* The events of one context, ei.Context or eis.Eis: dispatch() queues     *)
(* them in the C library, the events generators hand them out and give     *)
(* each one back when they are resumed or closed, peek_event_type() looks  *)
(* at the first.  Giving an event back is what sends the reply to a SYNC.  *)
(* The typed accessors read an event in several C calls; the PONG of a     *)
(* ping carries a reference to it.                                         *)
(*                                                                         *)
(* A program may run one loop inside another, leave a loop by break or by  *)
(* an exception, release an event itself, and keep an event it should not. *)
(* Events are C objects at addresses that are reused; their wrappers come  *)
(* from the identity cache, which CObjectCache describes in full.          *)
(*                                                                         *)
(* One loop may run between any two C calls of another, as with threads or *)
(* nested loops; a C call is one step.  Nobody else calls into the context *)
(* inside peek_event_type(): libei leaves that undefined.                  *)
(***************************************************************************)
EXTENDS Naturals, Sequences

CONSTANTS Loops,      \* generators made by the events property
          Pointers,   \* addresses of events
          Pings,      \* round trips the program may start
          Types,      \* event types that arrive, PONG apart
          Getters,    \* typed accessors the program uses
          MaxEvents,  \* bound: events that arrive
          NULL

(* The typed accessors and the event types each is for: those that client  *)
(* and server both have,                                                   *)
CommonValid ==
  [emulating_sequence     |-> {"DEVICE_START_EMULATING"},
   key_event              |-> {"KEYBOARD_KEY"},
   button_event           |-> {"BUTTON_BUTTON"},
   pointer_event          |-> {"POINTER_MOTION"},
   pointer_absolute_event |-> {"POINTER_MOTION_ABSOLUTE"},
   scroll_event           |-> {"SCROLL_DELTA"},
   scroll_discrete_event  |-> {"SCROLL_DISCRETE"},
   scroll_stop_event      |-> {"SCROLL_STOP", "SCROLL_CANCEL"},
   touch_event            |-> {"TOUCH_DOWN", "TOUCH_MOTION"},
   touch_up_event         |-> {"TOUCH_UP"},
   text_utf8_event        |-> {"TEXT_UTF8"},
   text_keysym_event      |-> {"TEXT_KEYSYM"},
   pong                   |-> {"PONG"}]

(* and the one that only a client's and only a server's events have.       *)
Valid ==
  [g \in DOMAIN CommonValid \cup {"keyboard_xkb_modifiers", "seat_capabilities"} |->
     CASE g = "keyboard_xkb_modifiers" -> {"KEYBOARD_MODIFIERS"}
       [] g = "seat_capabilities" -> {"SEAT_BIND"}
       [] OTHER -> CommonValid[g]]

ASSUME EventsAssumption == /\ NULL \notin Pointers
                           /\ MaxEvents \in Nat
                           /\ Getters \subseteq DOMAIN Valid
                           /\ Pings \cap Types = {} /\ "PONG" \notin Types

Events == 1..MaxEvents  \* an event, and its wrapper, by order of arrival

VARIABLES
  \* the C library (external)
  queue,     \* events not handed out yet
  arrived,   \* how many events have arrived
  place,     \* place[p]: the event at address p, 0 for none
  refs,      \* refs[e]: references to e, the queue's included
  kind,      \* kind[e]: its type, or the ping whose PONG it is
  pingRefs,  \* pingRefs[i]: references to ping i
  flight,    \* flight[i]: "unsent" | "sent" | "answered"
  \* the wrappers
  cache,     \* _instances of Event: address -> event wrapped, 0 for none
  ptr,       \* ptr[e]: _pointer of e's wrapper, NULL if released or not made
  wrapper,   \* wrapper[i]: of ping i, "none" | "live" | "dropped"
  \* the program
  loop,      \* "new" | "yielded" (suspended with an event) | "done"
  cur,       \* cur[l]: the event wrapper the loop yielded last, 0 for none
  yielded,   \* the events all loops have yielded, in order
  peeking,   \* the event peek_event_type() has a reference to, 0 for none
  reading    \* <<event, accessor>> whose type was checked, or <<>>

avars == <<queue, arrived, kind>>
pvars == <<pingRefs, flight, wrapper>>
wvars == <<cache, ptr>>
gvars == <<loop, cur, yielded>>
vars  == <<avars, place, refs, pvars, wvars, gvars, peeking, reading>>

TypeOK ==
  /\ queue   \in Seq(Events)
  /\ arrived \in 0..MaxEvents
  /\ place   \in [Pointers -> 0..MaxEvents]
  /\ refs    \in [Events -> 0..2]
  /\ cache   \in [Pointers -> 0..MaxEvents]
  /\ ptr     \in [Events -> Pointers \cup {NULL}]
  /\ loop    \in [Loops -> {"new", "yielded", "done"}]
  /\ cur     \in [Loops -> 0..MaxEvents]
  /\ yielded \in Seq(Events)
  /\ peeking \in 0..MaxEvents
  /\ kind     \in [Events -> Types \cup Pings \cup {NULL}]
  /\ pingRefs \in [Pings -> 0..3]
  /\ flight   \in [Pings -> {"unsent", "sent", "answered"}]
  /\ wrapper  \in [Pings -> {"none", "live", "dropped"}]
  /\ reading  \in (Events \X Getters) \cup {<<>>}

Init ==
  /\ queue   = <<>>
  /\ arrived = 0
  /\ place   = [p \in Pointers |-> 0]
  /\ refs    = [e \in Events |-> 0]
  /\ cache   = [p \in Pointers |-> 0]
  /\ ptr     = [e \in Events |-> NULL]
  /\ loop    = [l \in Loops |-> "new"]
  /\ cur     = [l \in Loops |-> 0]
  /\ yielded = <<>>
  /\ peeking = 0
  /\ kind     = [e \in Events |-> NULL]
  /\ pingRefs = [i \in Pings |-> 0]
  /\ flight   = [i \in Pings |-> "unsent"]
  /\ wrapper  = [i \in Pings |-> "none"]
  /\ reading  = <<>>

(* The type of an event; an address with no event has none.                *)
Type(e) == IF e = 0 THEN NULL ELSE IF kind[e] \in Pings THEN "PONG" ELSE kind[e]

-----------------------------------------------------------------------------
(* dispatch(): the library reads the connection and queues what it finds,  *)
(* an event at a time; a PONG takes over the library's reference to its    *)
(* ping.                                                                   *)
Dispatch(p, k) ==
  /\ arrived < MaxEvents
  /\ place[p] = 0
  /\ k \in Pings => flight[k] = "sent"
  /\ arrived' = arrived + 1
  /\ place'   = [place EXCEPT ![p] = arrived']
  /\ refs'    = [refs EXCEPT ![arrived'] = 1]
  /\ kind'    = [kind EXCEPT ![arrived'] = k]
  /\ queue'   = Append(queue, arrived')
  /\ flight'  = IF k \in Pings THEN [flight EXCEPT ![k] = "answered"] ELSE flight
  /\ UNCHANGED <<pingRefs, wrapper, wvars, gvars, peeking, reading>>

(* ei_event_unref on what is at p: freed with its last reference, and with *)
(* it the reference a PONG has to its ping.                                *)
Unref(p) ==
  LET e == place[p] IN
  /\ refs'  = [refs EXCEPT ![e] = @ - 1]
  /\ place' = IF refs[e] = 1 THEN [place EXCEPT ![p] = 0] ELSE place
  /\ pingRefs' = IF refs[e] = 1 /\ kind[e] \in Pings
                 THEN [pingRefs EXCEPT ![kind[e]] = @ - 1] ELSE pingRefs

(* Mutant of Release: the wrapper stays in the cache.                      *)
ReleaseCached(e) ==
  IF e # 0 /\ ptr[e] # NULL
  THEN /\ Unref(ptr[e])
       /\ ptr' = [ptr EXCEPT ![e] = NULL]
       /\ UNCHANGED cache
  ELSE UNCHANGED <<refs, place, pingRefs, wvars>>

(* Mutant of Release: the pointer of the wrapper is not cleared.           *)
ReleaseKeepsPointer(e) ==
  IF e # 0 /\ ptr[e] # NULL /\ place[ptr[e]] # 0
  THEN /\ Unref(ptr[e])
       /\ cache' = [cache EXCEPT ![ptr[e]] = 0]
       /\ UNCHANGED ptr
  ELSE UNCHANGED <<refs, place, pingRefs, wvars>>

(* event.release(); a second one does nothing.                             *)
Release(e) ==
  IF e # 0 /\ ptr[e] # NULL
  THEN /\ Unref(ptr[e])
       /\ ptr'   = [ptr EXCEPT ![e] = NULL]
       /\ cache' = IF cache[ptr[e]] = e THEN [cache EXCEPT ![ptr[e]] = 0] ELSE cache
  ELSE UNCHANGED <<refs, place, pingRefs, wvars>>

-----------------------------------------------------------------------------
(* The generator.                                                          *)

(* Mutant of GiveBack: the event is left to the collector.                 *)
GiveBackHolding(l) ==
  /\ loop[l] = "yielded"
  /\ cur[l] # 0
  /\ peeking = 0
  /\ cur' = [cur EXCEPT ![l] = 0]
  /\ UNCHANGED <<avars, place, refs, pvars, wvars, loop, yielded, peeking, reading>>

(* Resumed, it first gives back the event it has yielded.                  *)
GiveBack(l) ==
  /\ loop[l] = "yielded"
  /\ cur[l] # 0
  /\ peeking = 0
  /\ Release(cur[l])
  /\ cur' = [cur EXCEPT ![l] = 0]
  /\ UNCHANGED <<avars, flight, wrapper, loop, yielded, peeking, reading>>

(* Event.wrap(pointer): the wrapper the cache has for it, or a new one.    *)
Wrapped(p) == IF cache[p] # 0 THEN cache[p] ELSE place[p]

(* Then it takes the next event, and yields it.                            *)
Take(l) ==
  /\ loop[l] # "done"
  /\ cur[l] = 0
  /\ peeking = 0
  /\ queue # <<>>
  /\ \E p \in Pointers :
       /\ place[p] = Head(queue)
       /\ LET w == Wrapped(p) IN
          /\ cur'     = [cur EXCEPT ![l] = w]
          /\ yielded' = Append(yielded, w)
          /\ IF cache[p] # 0 THEN UNCHANGED <<cache, ptr>>
             ELSE /\ cache' = [cache EXCEPT ![p] = w]
                  /\ ptr'   = [ptr EXCEPT ![w] = p]
  /\ queue' = Tail(queue)
  /\ loop'  = [loop EXCEPT ![l] = "yielded"]
  /\ UNCHANGED <<arrived, kind, place, refs, pvars, peeking, reading>>

(* A generator that has ended is followed by another one: context.events.  *)
Again(l) ==
  /\ loop[l] = "done"
  /\ loop' = [loop EXCEPT ![l] = "new"]
  /\ UNCHANGED <<avars, place, refs, pvars, wvars, cur, yielded, peeking, reading>>

(* Nothing is queued: the loop ends.                                       *)
Exhausted(l) ==
  /\ loop[l] # "done"
  /\ cur[l] = 0
  /\ peeking = 0
  /\ queue = <<>>
  /\ loop' = [loop EXCEPT ![l] = "done"]
  /\ UNCHANGED <<avars, place, refs, pvars, wvars, cur, yielded, peeking, reading>>

(* Mutant of Leave: the release after the yield is not in a finally.       *)
LeaveHolding(l) ==
  /\ loop[l] = "yielded"
  /\ cur[l] # 0
  /\ peeking = 0
  /\ loop' = [loop EXCEPT ![l] = "done"]
  /\ cur'  = [cur EXCEPT ![l] = 0]
  /\ UNCHANGED <<avars, place, refs, pvars, wvars, yielded, peeking, reading>>

(* break, an exception or close(): GeneratorExit at the yield, and the     *)
(* finally gives the event back.                                           *)
Leave(l) ==
  /\ loop[l] = "yielded"
  /\ cur[l] # 0
  /\ peeking = 0
  /\ Release(cur[l])
  /\ loop' = [loop EXCEPT ![l] = "done"]
  /\ cur'  = [cur EXCEPT ![l] = 0]
  /\ UNCHANGED <<avars, flight, wrapper, yielded, peeking, reading>>

-----------------------------------------------------------------------------
(* The program releases an event in the body of its loop, or later.        *)
UserReleases(e) ==
  /\ peeking = 0
  /\ ptr[e] # NULL
  /\ Release(e)
  /\ UNCHANGED <<avars, flight, wrapper, gvars, peeking, reading>>

(* peek_event_type(): a reference to the first event ...                   *)
Peek ==
  /\ peeking = 0
  /\ queue # <<>>
  /\ peeking' = Head(queue)
  /\ refs'    = [refs EXCEPT ![peeking'] = @ + 1]
  /\ UNCHANGED <<avars, place, pvars, wvars, gvars, reading>>

(* Mutant of PeekEnd: the reference is left to the garbage collector.      *)
PeekKeeps ==
  /\ peeking # 0
  /\ peeking' = 0
  /\ UNCHANGED <<avars, place, refs, pvars, wvars, gvars, reading>>

(* ... given back once the type is read, whatever comes of reading it.     *)
PeekEnd ==
  /\ peeking # 0
  /\ \E p \in Pointers : place[p] = peeking /\ Unref(p)
  /\ peeking' = 0
  /\ UNCHANGED <<avars, flight, wrapper, wvars, gvars, reading>>

-----------------------------------------------------------------------------
(* A typed accessor: _require reads the type, and raises TypeError unless  *)
(* it is a valid one ...                                                   *)
Require(e, g) ==
  /\ reading = <<>>
  /\ ptr[e] # NULL
  /\ Type(place[ptr[e]]) \in Valid[g]
  /\ reading' = <<e, g>>
  /\ UNCHANGED <<avars, place, refs, pvars, wvars, gvars, peeking>>

(* Mutant of Read: the reference of the event is taken over.               *)
ReadAdopts(e, g) ==
  /\ reading = <<e, g>>
  /\ reading' = <<>>
  /\ IF g = "pong" /\ ptr[e] # NULL
     THEN wrapper' = [wrapper EXCEPT ![kind[place[ptr[e]]]] = "live"]
     ELSE UNCHANGED wrapper
  /\ UNCHANGED <<avars, place, refs, pingRefs, flight, wvars, gvars, peeking>>

(* ... then the payload is read, field by field; every C call asks the     *)
(* wrapper for its pointer anew, and raises if it was released in between. *)
(* A field is read at any moment before the accessor returns, which is     *)
(* this step, and changes nothing; but event.pong wraps the ping: the      *)
(* wrapper that lives, or a new one with a reference.                      *)
Read(e, g) ==
  /\ reading = <<e, g>>
  /\ reading' = <<>>
  /\ IF g = "pong" /\ ptr[e] # NULL /\ wrapper[kind[place[ptr[e]]]] # "live"
     THEN LET i == kind[place[ptr[e]]] IN
          /\ wrapper'  = [wrapper EXCEPT ![i] = "live"]
          /\ pingRefs' = [pingRefs EXCEPT ![i] = @ + 1]
     ELSE UNCHANGED <<wrapper, pingRefs>>
  /\ UNCHANGED <<avars, place, refs, flight, wvars, gvars, peeking>>

(* new_ping() adopts the reference the library returns.                    *)
NewPing(i) ==
  /\ wrapper[i] = "none"
  /\ wrapper'  = [wrapper EXCEPT ![i] = "live"]
  /\ pingRefs' = [pingRefs EXCEPT ![i] = @ + 1]
  /\ UNCHANGED <<avars, place, refs, flight, wvars, gvars, peeking, reading>>

(* send(): the library keeps a reference until the answer comes.           *)
Send(i) ==
  /\ wrapper[i] = "live"
  /\ flight[i] = "unsent"
  /\ flight'   = [flight EXCEPT ![i] = "sent"]
  /\ pingRefs' = [pingRefs EXCEPT ![i] = @ + 1]
  /\ UNCHANGED <<avars, place, refs, wrapper, wvars, gvars, peeking, reading>>

(* The program forgets the ping, or releases it.                           *)
DropPing(i) ==
  /\ wrapper[i] = "live"
  /\ wrapper'  = [wrapper EXCEPT ![i] = "dropped"]
  /\ pingRefs' = [pingRefs EXCEPT ![i] = @ - 1]
  /\ UNCHANGED <<avars, place, refs, flight, wvars, gvars, peeking, reading>>

-----------------------------------------------------------------------------
Loop(l) == Again(l) \/ GiveBack(l) \/ Take(l) \/ Exhausted(l) \/ Leave(l)

Ping(i) == NewPing(i) \/ Send(i) \/ DropPing(i)

Next == \/ \E p \in Pointers, k \in Types \cup Pings : Dispatch(p, k)
        \/ \E l \in Loops : Loop(l)
        \/ \E e \in Events : UserReleases(e)
        \/ \E e \in Events, g \in Getters : Require(e, g) \/ Read(e, g)
        \/ \E i \in Pings : Ping(i)
        \/ Peek \/ PeekEnd

Spec == Init /\ [][Next]_vars

(* The program runs its loops: each is resumed or left, also when other    *)
(* code peeks time and again, and a loop that has ended is followed by     *)
(* another one.  It need not read events, release them or keep pings.      *)
FairSpec == /\ Spec
            /\ WF_vars(PeekEnd)
            /\ \A l \in Loops : SF_vars(Loop(l))

-----------------------------------------------------------------------------
(* Properties.                                                             *)

(* Whatever loops drain the queue, each event is yielded once, by one of   *)
(* them, in the order of arrival, and under a wrapper of its own: no stale *)
(* wrapper of an event that lived at the same address (ei.py:1126-1131).   *)
EachEventOnce == \A i \in 1..Len(yielded) : yielded[i] = i

(* An event taken from the queue is held by the loop that is suspended on  *)
(* it and by nothing else, so its reply is due when that loop goes on or   *)
(* ends, not when the collector runs (ei.py:1113-1125, 1132-1139).         *)
HeldByItsLoop ==
  \A e \in Events :
    e \in 1..Len(yielded) /\ refs[e] > 0 => \E l \in Loops : cur[l] = e

(* A wrapper frees its own event only: a loop that gives back an event the *)
(* program has released already does not free the event that has come to   *)
(* the same address since, nor does a queued event lose its reference.     *)
OwnEventFreed ==
  \A e \in Events : e <= arrived =>
    refs[e] = (IF \E i \in 1..Len(queue) : queue[i] = e THEN 1 ELSE 0)
              + (IF ptr[e] # NULL THEN 1 ELSE 0)
              + (IF peeking = e THEN 1 ELSE 0)

(* What a typed accessor returns is the payload of its own event, of a     *)
(* type that has it, also when another loop releases the event between the *)
(* check and a read, or between the reads of two fields, and another event *)
(* comes to its address: never zeroes and never a mixture.  A field is     *)
(* read in any state from the check on, so this is said of all of them     *)
(* (ei.py:847-861, 884-887, eis.py:919-933).                               *)
ReadsOwnPayload ==
  \A e \in Events, g \in Getters :
    reading = <<e, g>> /\ ptr[e] # NULL
      => place[ptr[e]] = e /\ Type(e) \in Valid[g]

(* A ping lives as long as its wrapper, the library that waits for the     *)
(* answer or the PONG has a reference to it, and no longer: event.pong     *)
(* outlives its event, and a round trip nobody looks at is freed           *)
(* (ei.py:1005-1015, 1208-1218, eis.py:823-833, 1087-1096).                *)
PingRefs ==
  \A i \in Pings :
    pingRefs[i] = (IF wrapper[i] = "live" THEN 1 ELSE 0)
                  + (IF flight[i] = "sent" THEN 1 ELSE 0)
                  + (IF \E e \in Events : kind[e] = i /\ refs[e] > 0 THEN 1 ELSE 0)

(* The reply to a SYNC, sent when the event is freed, is sent: no loop,    *)
(* however it is left, keeps the event (ei.py:1113-1125).                  *)
SyncAnswered ==
  \A e \in Events : kind[e] = "SYNC" ~> refs[e] = 0

-----------------------------------------------------------------------------
(* The inductive invariant behind the safety properties, in parts; proved  *)
(* in EventQueueProofs.                                                    *)

(* The loops share one queue: what they have yielded, then what is queued, *)
(* are the events in the order of arrival, and a peek looks at the first   *)
(* of the queue.                                                           *)
OrderInv ==
  /\ EachEventOnce
  /\ \A i \in 1..Len(queue) : queue[i] = Len(yielded) + i
  /\ Len(yielded) + Len(queue) = arrived
  /\ peeking # 0 => peeking = Len(yielded) + 1 /\ peeking <= arrived

(* An address has one event, and no event has two addresses.               *)
PlaceInv ==
  \A p \in Pointers : place[p] # 0 =>
    /\ refs[place[p]] > 0
    /\ \A q \in Pointers : place[q] = place[p] => q = p

(* A wrapper with a pointer has been yielded by a loop that still is at    *)
(* it; it is the cached one for the address, and its event is there.       *)
WrapperInv ==
  /\ \A p \in Pointers : cache[p] # 0 => ptr[cache[p]] = p
  /\ \A e \in Events : ptr[e] # NULL =>
       /\ e <= Len(yielded) /\ place[ptr[e]] = e /\ cache[ptr[e]] = e
       /\ \E l \in Loops : cur[l] = e
  /\ \A l \in Loops : cur[l] <= Len(yielded)

(* The queue, a wrapper and a peek hold an event, once each.               *)
CountInv ==
  \A e \in Events :
    refs[e] = (IF Len(yielded) < e /\ e <= arrived THEN 1 ELSE 0)
              + (IF ptr[e] # NULL THEN 1 ELSE 0)
              + (IF peeking = e THEN 1 ELSE 0)

(* A ping is answered by one PONG.                                         *)
AnswerInv ==
  \A e \in 1..arrived :
    /\ kind[e] \in Types \cup Pings
    /\ kind[e] \in Pings => /\ flight[kind[e]] = "answered"
                           /\ \A f \in 1..arrived : kind[f] = kind[e] => f = e

(* The type that was checked is the type the event still has.              *)
ReadInv ==
  \A e \in Events, g \in Getters :
    reading = <<e, g>> => e <= arrived /\ Type(e) \in Valid[g]

IInv == /\ TypeOK /\ OrderInv /\ PlaceInv /\ WrapperInv /\ CountInv
        /\ AnswerInv /\ PingRefs /\ ReadInv
=============================================================================
