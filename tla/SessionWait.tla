---------------------------- MODULE SessionWait -----------------------------
(***************************************************************************)
(* What portal.py promises of a wait for a capture session to be activated *)
(* or deactivated: it ends once, with the first thing the portal tells     *)
(* this session, be it the signal, a payload that cannot be read or the    *)
(* end of the session; with a timeout only when its deadline has passed;   *)
(* or with an interrupt of the caller.                                     *)
(***************************************************************************)
VARIABLES first,    \* what the portal told the session first, "none" so far
          late,     \* the deadline has passed
          outcome   \* "none" while the wait lasts

vars == <<first, late, outcome>>

Causes == {"signal", "protocol", "closed"}

Init == first = "none" /\ late = FALSE /\ outcome = "none"

Tell(c) ==
  /\ first = "none"
  /\ first' = c
  /\ UNCHANGED <<late, outcome>>

Deadline ==
  /\ late' = TRUE
  /\ UNCHANGED <<first, outcome>>

End(o) ==
  /\ outcome = "none"
  /\ \/ o = first /\ o # "none"
     \/ o = "timeout" /\ late
     \/ o = "interrupt"
  /\ outcome' = o
  /\ UNCHANGED <<first, late>>

Next == \/ \E c \in Causes : Tell(c)
        \/ Deadline
        \/ \E o \in Causes \cup {"timeout", "interrupt"} : End(o)

Spec == Init /\ [][Next]_vars
=============================================================================
