--------------------------- MODULE ObjectIdentity ---------------------------
(***************************************************************************)
(* What a wrapper hierarchy promises its callers (docstring of             *)
(* libei._cobject.CObject): while a Python wrapper stands for a C object,  *)
(* it is the only one that does, and the C object outlives it.             *)
(*                                                                         *)
(* alive is the set of addresses where a C object lives; proxy[p] is the   *)
(* wrapper that stands for it, or NULL.  How references are counted, who   *)
(* holds a lock and when a finalizer runs are not visible here.            *)
(***************************************************************************)
CONSTANTS Pointers, Wrappers, NULL

VARIABLES alive, proxy

vars == <<alive, proxy>>

Init == /\ alive = {}
        /\ proxy = [p \in Pointers |-> NULL]

(* An object appears at a free address; nothing stands for it yet.         *)
Create(p) == /\ p \notin alive
             /\ alive' = alive \cup {p}
             /\ UNCHANGED proxy

(* A wrapper starts to stand for a live object that has none.              *)
Bind(p, w) == /\ p \in alive
              /\ proxy[p] = NULL
              /\ \A q \in Pointers : proxy[q] # w
              /\ proxy' = [proxy EXCEPT ![p] = w]
              /\ UNCHANGED alive

(* The wrapper is released or collected; the object is still there.        *)
Unbind(p) == /\ p \in alive
             /\ proxy[p] # NULL
             /\ proxy' = [proxy EXCEPT ![p] = NULL]
             /\ UNCHANGED alive

(* An object goes away only when no wrapper stands for it.                 *)
Free(p) == /\ p \in alive
           /\ proxy[p] = NULL
           /\ alive' = alive \ {p}
           /\ UNCHANGED proxy

Next == \E p \in Pointers : \/ Create(p)
                            \/ \E w \in Wrappers : Bind(p, w)
                            \/ Unbind(p)
                            \/ Free(p)

Spec == Init /\ [][Next]_vars
=============================================================================
