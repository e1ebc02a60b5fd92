----------------------------- MODULE RoundTrip ------------------------------
(***************************************************************************)
(* What portal.py promises of one round trip to the desktop portal: it     *)
(* ends once, with a code the portal really answered, with a timeout only  *)
(* when its deadline has passed, or with an error of the call or an        *)
(* interrupt of the caller.                                                *)
(***************************************************************************)
CONSTANTS Codes,      \* response codes
          Failures    \* how it ends otherwise, a timeout excepted

VARIABLES answers,    \* the codes the portal has sent for this request
          late,       \* the deadline has passed
          outcome     \* "pending", a code, a failure or "timeout"

vars == <<answers, late, outcome>>

Init == /\ answers = {}
        /\ late = FALSE
        /\ outcome = "pending"

Answer(c) ==
  /\ answers' = answers \cup {c}
  /\ UNCHANGED <<late, outcome>>

Deadline ==
  /\ late' = TRUE
  /\ UNCHANGED <<answers, outcome>>

End(o) ==
  /\ outcome = "pending"
  /\ o \in answers \cup Failures \cup (IF late THEN {"timeout"} ELSE {})
  /\ outcome' = o
  /\ UNCHANGED <<answers, late>>

Next == \/ \E c \in Codes : Answer(c)
        \/ Deadline
        \/ \E o \in Codes \cup Failures \cup {"timeout"} : End(o)

Spec == Init /\ [][Next]_vars
=============================================================================
