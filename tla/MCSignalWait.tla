---------------------------- MODULE MCSignalWait ----------------------------
(* SignalWait for TLC: up to MaxSignals signals of every kind.             *)
EXTENDS SignalWait
=============================================================================
