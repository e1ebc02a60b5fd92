--------------------------- MODULE MCCObjectCache ---------------------------
(* CObjectCache for TLC.  The package has wrapper hierarchies of three     *)
(* shapes; a behaviour is about one of them.  The constants of the         *)
(* configuration are those of a hierarchy whose wrappers take references.  *)
EXTENDS CObjectCache

UnrefOnly == INSTANCE CObjectCache WITH HasRef <- FALSE, Wrappable <- TRUE
Root      == INSTANCE CObjectCache WITH HasRef <- FALSE, Wrappable <- FALSE

VARIABLE shape

MCInit == Init /\ shape \in {"refd", "unref-only", "root"}

MCNext == /\ UNCHANGED shape
          /\ \/ shape = "refd"       /\ Next
             \/ shape = "unref-only" /\ UnrefOnly!Next
             \/ shape = "root"       /\ Root!Next

MCInside(t) == \/ shape = "refd"       /\ Inside(t)
               \/ shape = "unref-only" /\ UnrefOnly!Inside(t)
               \/ shape = "root"       /\ Root!Inside(t)

(* CPython frees an unreachable object and runs its finalizer at once, and *)
(* a thread inside the package keeps running; which calls the program      *)
(* makes, and what the library does, is left open.                         *)
MCFairness == /\ \A w \in Wrappers : WF_vars(Collect(w)) /\ WF_vars(Finalize(w))
              /\ \A t \in Threads : WF_vars(MCInside(t))

MCSpec == MCInit /\ [][MCNext]_<<vars, shape>> /\ MCFairness
=============================================================================
