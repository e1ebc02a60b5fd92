---------------------------- MODULE MCLazyLoader ----------------------------
(* LazyLoader for TLC.                                                     *)
EXTENDS LazyLoader
=============================================================================
