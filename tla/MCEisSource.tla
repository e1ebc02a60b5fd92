---------------------------- MODULE MCEisSource -----------------------------
(* EisSource for TLC: a default and an alternate portal, three fd numbers. *)
EXTENDS EisSource
=============================================================================
