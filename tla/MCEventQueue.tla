---------------------------- MODULE MCEventQueue ----------------------------
(* EventQueue for TLC: two loops, more events than addresses, one ping.    *)
EXTENDS EventQueue
=============================================================================
