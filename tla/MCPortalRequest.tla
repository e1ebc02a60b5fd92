-------------------------- MODULE MCPortalRequest --------------------------
(* PortalRequest for TLC: an approving and a denying code.                 *)
EXTENDS PortalRequest
=============================================================================
