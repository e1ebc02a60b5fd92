----------------------------- MODULE EisSource ------------------------------
(***************************************************************************)
(* A process that obtains its EIS fd in one of the two ways the package    *)
(* has, a session negotiated by portal.py or a liboeffis context, and the  *)
(* life of that fd beyond the object it came from (EisFd).                 *)
(***************************************************************************)
EXTENDS PortalSession

CONSTANT MaxUnknown

ASSUME UnknownAssumption == MaxUnknown \in Nat

VARIABLES
  source,  \* "portal" | "oeffis"
  session, queue, unknown, opc, state, oEisFd, oClaimed, answer \* the Oeffis

O == INSTANCE Oeffis WITH pc <- opc, eisFd <- oEisFd, claimed <- oClaimed

portalOnly == <<portal, kind, pc, tvars, nvars, ovars, cvars>>
oeffisOnly == <<session, queue, unknown, opc, state, oEisFd, oClaimed, answer>>
allVars    == <<source, fdvars, portalOnly, oeffisOnly>>

SourceTypeOK == TypeOK /\ O!TypeOK /\ source \in {"portal", "oeffis"}

SourceInit ==
  /\ source \in {"portal", "oeffis"}
  /\ Init
  /\ O!Init
  /\ source = "oeffis" => /\ kind = "RemoteDesktop"
                          /\ bus = DefaultName
                          /\ given = "none" /\ ~persist

SourceNext ==
  /\ UNCHANGED source
  /\ \/ source = "portal" /\ Next /\ UNCHANGED oeffisOnly
     \/ source = "oeffis" /\ O!Next /\ UNCHANGED portalOnly

(* The fairness of Oeffis: nothing else in here has to happen.             *)
SourceSpec ==
  /\ SourceInit
  /\ [][SourceNext]_allVars
  /\ WF_allVars(O!LibReturns /\ UNCHANGED <<source, portalOnly>>)
  /\ WF_allVars(O!Drain /\ UNCHANGED <<source, portalOnly>>)
  /\ WF_allVars(O!Dispatch /\ queue # <<>> /\ UNCHANGED <<source, portalOnly>>)

-----------------------------------------------------------------------------
(* Whichever object obtained the fd, it is closed once, by its owner:      *)
(* never after it was handed on to the caller or to an ei.Context, never   *)
(* under a number that has come to mean another file, and never left to    *)
(* nobody (portal.py:676-680, 725-736, 761-782, oeffis.py:113-147).        *)
EisFdClosedByOwner == FdClosedByOwner /\ O!FdClosedByOwner

(* eis_fd of a connected liboeffis context is an fd that was really there  *)
(* (oeffis.py:193-202).                                                    *)
ConnectedHasFd == O!ConnectedHasFd

(* The end of a liboeffis session reaches the program as an exception, and *)
(* every dispatch() from then on raises the same one (oeffis.py:167-211).  *)
EndIsReported == O!EndIsReported /\ O!EndKeepsRaising

-----------------------------------------------------------------------------
(* The inductive invariant behind the safety properties, in parts; proved  *)
(* in EisSourceProofs.  The source that is not in use is as it began.      *)
SourceInv ==
  /\ source = "portal" => /\ OwnerInv
                          /\ opc = "none" /\ state = "NONE" /\ oEisFd = NULL
  /\ source = "oeffis" => /\ O!QueueInv /\ O!OwnerInv /\ O!EndInv
                          /\ pc = "version"

IInv == /\ SourceTypeOK
        /\ FdInv
        /\ SessionInv
        /\ TokenInv
        /\ SourceInv
        /\ FailureEndsSession
        /\ CloseEndsSession
        /\ TokenKept
=============================================================================
