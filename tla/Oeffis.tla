------------------------------- MODULE Oeffis -------------------------------
(***************************************************************************)
(* libei.oeffis.Oeffis: a liboeffis context for one portal session, polled *)
(* by the program, and the EIS fd it hands on.                             *)
(*                                                                         *)
(* liboeffis (external) works on its D-Bus connection inside               *)
(* oeffis_dispatch() only, may come several events further in one call,    *)
(* and keeps them in a queue that oeffis_get_event() takes from; get_fd()  *)
(* is readable while there is something to dispatch or to take.            *)
(***************************************************************************)
EXTENDS EisFd, Integers, Sequences

CONSTANTS MaxUnknown  \* bound: events of a type this binding does not know

EventTypes == {"CONNECTED_TO_EIS", "CLOSED", "DISCONNECTED", "unknown"}

VARIABLES
  \* liboeffis and the process (external)
  session,  \* "new" | "connected" | "CLOSED" | "DISCONNECTED"; "freed" by unref
  queue,    \* events not yet taken
  unknown,  \* events of unknown type so far
  \* the Oeffis object
  pc,       \* "none" | "idle" | "lib" (in oeffis_dispatch) | "drain" | "gone"
  state,    \* _state
  eisFd,    \* _eis_fd
  claimed,  \* _eis_fd_claimed
  answer    \* how the last dispatch() ended

lvars == <<session, queue, unknown>>
ovars == <<state, eisFd, claimed>>
vars  == <<lvars, fdvars, pc, ovars, answer>>

Ended == {"CLOSED", "DISCONNECTED"}

TypeOK ==
  /\ session   \in {"new", "connected", "CLOSED", "DISCONNECTED", "freed"}
  /\ queue     \in Seq(EventTypes)
  /\ unknown   \in 0..MaxUnknown
  /\ FdTypeOK
  /\ pc        \in {"none", "idle", "lib", "drain", "gone"}
  /\ state     \in {"NONE", "CONNECTED_TO_EIS"} \cup Ended
  /\ eisFd     \in Fds \cup {NULL}
  /\ claimed   \in BOOLEAN
  /\ answer    \in {"none", "True", "False"} \cup Ended

Init ==
  /\ session   = "new"
  /\ queue     = <<>>
  /\ unknown   = 0
  /\ FdInit
  /\ pc        = "none"
  /\ state     = "NONE"
  /\ eisFd     = NULL
  /\ claimed   = FALSE
  /\ answer    = "none"

-----------------------------------------------------------------------------
(* liboeffis works inside oeffis_dispatch(), and the rest of the process.  *)

LibEvent(e) ==
  /\ pc = "lib"
  /\ CASE e = "CONNECTED_TO_EIS" -> session = "new" /\ session' = "connected"
       [] e \in Ended -> session \in {"new", "connected"} /\ session' = e
       [] OTHER -> unknown < MaxUnknown /\ UNCHANGED session
  /\ unknown' = IF e = "unknown" THEN unknown + 1 ELSE unknown
  /\ queue'   = Append(queue, e)
  /\ UNCHANGED <<fdvars, pc, ovars, answer>>

LibReturns ==
  /\ pc = "lib"
  /\ pc' = "drain"
  /\ UNCHANGED <<lvars, fdvars, ovars, answer>>

(* The rest of the process, and what the caller does with fds.             *)
Process ==
  /\ FdStep
  /\ UNCHANGED <<lvars, pc, ovars, answer>>

-----------------------------------------------------------------------------
(* create(): oeffis_new and the session request.                           *)
Create ==
  /\ pc = "none"
  /\ pc' = "idle"
  /\ UNCHANGED <<lvars, fdvars, ovars, answer>>

(* oeffis_new() returned NULL: __init__ raises, and __del__ of the half    *)
(* built object finds nothing to give back.                                *)
CreateFails ==
  /\ pc = "none"
  /\ pc' = "gone"
  /\ session' = "freed"
  /\ UNCHANGED <<queue, unknown, fdvars, ovars, answer>>

(* dispatch(): the terminal states raise what they raised before.          *)
Dispatch ==
  /\ pc = "idle"
  /\ IF state \in Ended
     THEN answer' = state /\ UNCHANGED pc
     ELSE pc' = "lib" /\ UNCHANGED answer
  /\ UNCHANGED <<lvars, fdvars, ovars>>

(* dispatch() ends: returns a truth value, or raises and stays ended.      *)
DispatchEnds(result) ==
  /\ answer' = result
  /\ pc'     = "idle"

Take == queue # <<>> /\ queue' = Tail(queue) /\ UNCHANGED <<session, unknown>>

(* An event of a type this binding does not know is skipped.               *)
SkipUnknown ==
  /\ pc = "drain"
  /\ Take
  /\ Head(queue) = "unknown"
  /\ UNCHANGED <<fdvars, pc, ovars, answer>>

NoMoreEvents ==
  /\ pc = "drain"
  /\ queue = <<>>
  /\ DispatchEnds("False")
  /\ UNCHANGED <<lvars, fdvars, ovars>>

(* Mutant of Connected: some number is taken for an fd without a look.     *)
ConnectedUnchecked ==
  /\ pc = "drain"
  /\ Take
  /\ Head(queue) = "CONNECTED_TO_EIS"
  /\ \E fd \in Fds :
       /\ IF session = "connected" THEN Opens(fd, "eis") ELSE UNCHANGED fdvars
       /\ eisFd' = fd
  /\ state' = "CONNECTED_TO_EIS"
  /\ DispatchEnds("True")
  /\ UNCHANGED claimed

(* get_eis_fd() duplicates the fd; it fails once the session has ended, or *)
(* when no more fds are to be had, and the session then counts as ended.   *)
Connected ==
  /\ pc = "drain"
  /\ Take
  /\ Head(queue) = "CONNECTED_TO_EIS"
  /\ \/ /\ session = "connected"
        /\ \E fd \in Fds : Opens(fd, "eis") /\ eisFd' = fd
        /\ state' = "CONNECTED_TO_EIS"
        /\ DispatchEnds("True")
     \/ /\ state' = "DISCONNECTED"
        /\ DispatchEnds("DISCONNECTED")
        /\ UNCHANGED <<fdvars, eisFd>>
  /\ UNCHANGED claimed

(* Mutant of SessionEnds: the end of a session counts as no event.         *)
SessionEndsSilently ==
  /\ pc = "drain"
  /\ Take
  /\ Head(queue) \in Ended
  /\ DispatchEnds("False")
  /\ UNCHANGED <<fdvars, ovars>>

SessionEnds ==
  /\ pc = "drain"
  /\ Take
  /\ Head(queue) \in Ended
  /\ state' = Head(queue)
  /\ DispatchEnds(Head(queue))
  /\ UNCHANGED <<fdvars, eisFd, claimed>>

(* eis_fd: raises unless connected; hands the ownership on.                *)
ReadFd ==
  /\ pc = "idle"
  /\ state = "CONNECTED_TO_EIS"
  /\ claimed' = TRUE
  /\ IF file[eisFd] = "eis" THEN Becomes(eisFd, "user") ELSE UNCHANGED fdvars
  /\ UNCHANGED <<lvars, pc, state, eisFd, answer>>

(* __del__: the fd, unless it was handed on, and the liboeffis context.    *)
Del ==
  /\ pc = "idle"
  /\ pc' = "gone"
  /\ session' = "freed"
  /\ IF eisFd # NULL /\ ~claimed
     THEN ClosesAs(eisFd, "eis") /\ UNCHANGED wrapped
     ELSE UNCHANGED fdvars
  /\ UNCHANGED <<queue, unknown, ovars, answer>>

-----------------------------------------------------------------------------
Lib == (\E e \in EventTypes : LibEvent(e)) \/ LibReturns

Drain == SkipUnknown \/ NoMoreEvents \/ Connected \/ SessionEnds

Object == Create \/ CreateFails \/ Dispatch \/ Drain \/ ReadFd \/ Del

Next == Lib \/ Process \/ Object

Spec == Init /\ [][Next]_vars

(* oeffis_dispatch() returns, the draining loop runs, and the program      *)
(* dispatches again while the fd is readable.  It need not keep the object.*)
FairSpec == /\ Spec
            /\ WF_vars(LibReturns)
            /\ WF_vars(Drain)
            /\ WF_vars(Dispatch /\ queue # <<>>)

-----------------------------------------------------------------------------
(* Properties.                                                             *)

(* Once a session has ended, every dispatch() raises, the same class each  *)
(* time, and none returns True or False any more (oeffis.py:167-177).      *)
EndKeepsRaising ==
  [][(answer \in Ended) => answer' = answer]_vars

(* The fd is closed once, by its owner: never after it was handed on, and  *)
(* never a number that has come to mean another file; an fd nobody read is *)
(* closed with the object, also when the session ended in between          *)
(* (oeffis.py:113-122, 127-147).                                           *)
FdClosedByOwner ==
  /\ ~misclosed
  /\ pc = "gone" => \A fd \in Fds : file[fd] # "eis"

(* eis_fd gives an fd that was really there: a context that ended before   *)
(* its CONNECTED_TO_EIS was taken is disconnected, and no -1 or other      *)
(* number is handed on as a live fd (oeffis.py:193-202).                   *)
ConnectedHasFd ==
  state = "CONNECTED_TO_EIS" /\ ~claimed /\ pc # "gone"
    => eisFd # NULL /\ file[eisFd] = "eis"

(* An end of the session reaches the program as an exception, although     *)
(* dispatch() stops at CONNECTED_TO_EIS with more events in the queue, as  *)
(* long as the object is kept (oeffis.py:179-211).                         *)
EndIsReported == session \in Ended ~> (answer \in Ended \/ pc = "gone")

-----------------------------------------------------------------------------
(* Parts of the inductive invariant of EisSource.                          *)

(* liboeffis connects once, so no fd is obtained over one already there.   *)
QueueInv ==
  /\ \A i, j \in 1..Len(queue) :
       queue[i] = "CONNECTED_TO_EIS" /\ queue[j] = "CONNECTED_TO_EIS" => i = j
  /\ session = "new" \/ eisFd # NULL =>
       \A i \in 1..Len(queue) : queue[i] # "CONNECTED_TO_EIS"
  /\ session = "new" \/ pc = "none" => eisFd = NULL

(* The object owns the fd it has not handed on, and no other.              *)
OwnerInv ==
  /\ \A fd \in Fds : file[fd] = "eis" => pc # "gone" /\ ~claimed /\ fd = eisFd
  /\ eisFd # NULL /\ ~claimed /\ pc # "gone" => file[eisFd] = "eis"
  /\ claimed \/ state = "CONNECTED_TO_EIS" => eisFd # NULL

(* A dispatch() that raised left the context ended, outside any dispatch.  *)
EndInv == answer \in Ended => state = answer /\ pc \in {"idle", "gone"}
=============================================================================
