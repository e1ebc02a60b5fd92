--------------------------- MODULE PortalSession ---------------------------
(***************************************************************************)
(* RemoteDesktopSession and InputCaptureSession: negotiate(), step by      *)
(* step, and the life of the object it returns, with the portal session    *)
(* and the EIS fd that both have to be given back.                         *)
(*                                                                         *)
(* A step is one round trip as RoundTrip describes it.  The portal may     *)
(* create the session while the step that asks for it is under way, or     *)
(* after the caller has given up on it; it may end the session at any time.*)
(* The program may hold a restore token from an earlier run.               *)
(*                                                                         *)
(* An interrupt (KeyboardInterrupt) arrives in calls that block.           *)
(***************************************************************************)
EXTENDS EisFd, Naturals, Sequences

CONSTANTS BusNames,  \* portal bus names, the default one among them
          DefaultName

ASSUME NameAssumption == DefaultName \in BusNames

VARIABLES
  \* the portal and the process (external)
  portal,    \* the portal's session: "none" | "live" | "ended"
  grant,     \* the restore token it will take: "none" | "old" | "new"
  \* negotiate() and its locals
  kind,      \* the class, whose session it is
  pc,
  step,      \* how many steps have succeeded
  legacy,    \* an InputCapture portal before version 2
  bus,       \* busname
  handle,    \* session_handle is known
  failure,   \* why negotiate raises, "none" while it has not
  given,     \* restore_token: "none" or the "old" one
  persist,   \* persist_mode is not NONE
  token,     \* new_restore_token, then the object's restore_token
  \* the session object
  eisFd,     \* _eis_fd
  claimed,   \* _eis_fd_claimed
  closed,    \* _closed
  \* Session.Close as the portal sees it
  asked,     \* how often it was called
  refused    \* the portal did not do it although it was called by its name

tvars == <<grant, given, persist, token>>
nvars == <<step, legacy, bus, handle, failure>>
ovars == <<eisFd, claimed, closed>>
cvars == <<asked, refused>>
vars  == <<portal, fdvars, kind, pc, tvars, nvars, ovars, cvars>>

(* "version": reading the version; "step": in a round trip; "unwind": in   *)
(* Session.Close on the way out of negotiate; "failed": negotiate raised;  *)
(* "open": the caller has a session object; "closing": in Session.Close    *)
(* called by close(); "gone": the object was collected.                    *)
PC == {"version", "step", "unwind", "failed", "open", "closing", "gone"}
Failures == {"value", "version", "denied", "timeout", "error", "interrupt"}

Kinds == {"RemoteDesktop", "InputCapture"}

TypeOK ==
  /\ portal    \in {"none", "live", "ended"}
  /\ FdTypeOK
  /\ grant     \in {"none", "old", "new"}
  /\ given     \in {"none", "old"}
  /\ persist   \in BOOLEAN
  /\ token     \in {"none", "new"}
  /\ kind      \in Kinds
  /\ pc        \in PC
  /\ step      \in 0..4
  /\ legacy    \in BOOLEAN
  /\ bus       \in BusNames
  /\ handle    \in BOOLEAN
  /\ failure   \in Failures \cup {"none"}
  /\ eisFd     \in Fds \cup {NULL}
  /\ claimed   \in BOOLEAN
  /\ closed    \in BOOLEAN
  /\ asked     \in 0..1
  /\ refused   \in BOOLEAN

Init ==
  /\ portal    = "none"
  /\ FdInit
  /\ grant     = "old"
  /\ given     \in {"none", "old"}
  /\ persist   \in BOOLEAN
  /\ token     = "none"
  /\ kind      \in Kinds
  /\ pc        = "version"
  /\ step      = 0
  /\ legacy    = FALSE
  /\ bus       \in BusNames
  /\ handle    = FALSE
  /\ failure   = "none"
  /\ eisFd     = NULL
  /\ claimed   = FALSE
  /\ closed    = FALSE
  /\ asked     = 0
  /\ refused   = FALSE

-----------------------------------------------------------------------------
(* The steps of the negotiation; the first one creates the session.        *)

Requests == {"CreateSession", "SelectDevices", "Start"}

Steps == IF kind = "RemoteDesktop"
         THEN <<"CreateSession", "SelectDevices", "Start", "ConnectToEIS">>
         ELSE IF legacy THEN <<"CreateSession", "ConnectToEIS">>
         ELSE <<"CreateSession2", "Start", "ConnectToEIS">>

Current  == Steps[step + 1]
Creating == step = 0

(* The step whose options have the restore token, which the portal         *)
(* consumes when it is used.                                               *)
Presenting == Current = IF kind = "RemoteDesktop" THEN "SelectDevices" ELSE "Start"
Spent      == IF given = "none" THEN grant ELSE "none"

-----------------------------------------------------------------------------
(* The portal and the rest of the process (external).                      *)

(* The portal may also come to it when the caller has stopped waiting.     *)
PortalCreates ==
  /\ portal = "none"
  /\ \/ pc = "step" /\ Creating
     \/ pc = "failed" /\ failure \in {"timeout", "interrupt"}
  /\ portal' = "live"
  /\ UNCHANGED <<fdvars, pc, tvars, nvars, ovars, cvars>>

PortalEnds ==
  /\ portal = "live"
  /\ portal' = "ended"
  /\ UNCHANGED <<fdvars, pc, tvars, nvars, ovars, cvars>>

(* The rest of the process, and what the caller does with fds.             *)
Process ==
  /\ FdStep
  /\ UNCHANGED <<portal, pc, tvars, nvars, ovars, cvars>>

-----------------------------------------------------------------------------
(* Mutant of TokenAllowed: the arguments are not checked.                  *)
TokenUnchecked == TRUE

(* A token without persistence would be spent for nothing.                 *)
TokenAllowed == given = "none" \/ persist

RejectToken ==
  /\ pc = "version"
  /\ ~TokenAllowed
  /\ failure' = "value"
  /\ pc' = "failed"
  /\ UNCHANGED <<portal, fdvars, tvars, step, legacy, bus, handle, ovars, cvars>>

(* The version property decides whether negotiate goes on: RemoteDesktop   *)
(* needs version 2, InputCapture before version 2 has no Start and cannot  *)
(* persist a session.                                                      *)
VersionRead ==
  /\ pc = "version"
  /\ TokenAllowed
  /\ legacy' \in IF kind = "InputCapture" /\ ~persist THEN BOOLEAN ELSE {FALSE}
  /\ pc' = "step"
  /\ UNCHANGED <<portal, fdvars, tvars, step, bus, handle, failure, ovars, cvars>>

VersionFails ==
  /\ pc = "version"
  /\ TokenAllowed
  /\ failure' \in {"timeout", "error", "interrupt"} \cup
                  (IF kind = "RemoteDesktop" \/ persist THEN {"version"} ELSE {})
  /\ pc' = "failed"
  /\ UNCHANGED <<portal, fdvars, tvars, step, legacy, bus, handle, ovars, cvars>>

(* Mutant of Raise: except Exception, which does not catch an interrupt.   *)
RaiseOnException(f, known) ==
  pc' = IF known /\ f # "interrupt" THEN "unwind" ELSE "failed"

(* An exception closes the session once its handle is known: the try       *)
(* begins after the creating step.                                         *)
Raise(f, known) == pc' = IF known THEN "unwind" ELSE "failed"

(* A step fails: declined by the user, no answer in time, a D-Bus error,   *)
(* an interrupt.  Timed out, the creating step may have made a session     *)
(* all the same, whose handle is lost with the answer.                     *)
StepFails(f) ==
  /\ pc = "step"
  /\ f \in Failures \ {"value", "version"}
  /\ f = "denied" => Current \in Requests
  /\ failure' = f
  /\ Raise(f, handle)
  /\ grant' \in IF Presenting THEN {grant, Spent} ELSE {grant}
  /\ UNCHANGED <<portal, fdvars, given, persist, token, step, legacy, bus, handle,
                 ovars, cvars>>

(* The creating step succeeds, with a session handle or, from a portal     *)
(* that is broken, without one.                                            *)
CreateSucceeds ==
  /\ pc = "step"
  /\ Creating
  /\ portal # "none"
  /\ \/ handle' = TRUE /\ step' = 1 /\ UNCHANGED <<pc, failure>>
     \/ handle' = FALSE /\ failure' = "error" /\ pc' = "failed" /\ UNCHANGED step
  /\ UNCHANGED <<portal, fdvars, tvars, legacy, bus, ovars, cvars>>

(* Start answers with a new token where persistence was asked for and the  *)
(* portal grants it.                                                       *)
StepSucceeds ==
  /\ pc = "step"
  /\ ~Creating
  /\ Current # "ConnectToEIS"
  /\ step' = step + 1
  /\ IF Current = "Start" /\ persist
     THEN grant' \in {"new", Spent} /\ token' = IF grant' = "new" THEN "new" ELSE "none"
     ELSE grant' = (IF Presenting THEN Spent ELSE grant) /\ UNCHANGED token
  /\ UNCHANGED <<portal, fdvars, given, persist, pc, legacy, bus, handle, failure,
                 ovars, cvars>>

(* The fd that ConnectToEIS returns is a duplicate of our own; negotiate   *)
(* returns the object that owns it.                                        *)
ConnectSucceeds(fd) ==
  /\ pc = "step"
  /\ Current = "ConnectToEIS"
  /\ Opens(fd, "eis")
  /\ eisFd' = fd
  /\ step'  = step + 1
  /\ pc'    = "open"
  /\ UNCHANGED <<portal, tvars, legacy, bus, handle, failure, claimed, closed,
                 cvars>>

-----------------------------------------------------------------------------
(* Session.Close, sent to the bus name n.  A portal that never heard of    *)
(* the session answers with an error, which is logged; so are a timeout    *)
(* and the error of a portal that is gone.  Interrupted, the call may have *)
(* reached the portal or not.                                              *)
CloseCall(n) ==
  /\ asked' = asked + 1
  /\ IF n # bus THEN UNCHANGED <<portal, refused>>
     ELSE \/ /\ portal' = IF portal = "live" THEN "ended" ELSE portal
             /\ UNCHANGED refused
          \/ /\ refused' = TRUE
             /\ UNCHANGED portal

(* The way out of negotiate; an interrupt of this call is what it raises   *)
(* then.                                                                   *)
Unwind ==
  /\ pc = "unwind"
  /\ CloseCall(bus)
  /\ pc' = "failed"
  /\ failure' \in {failure, "interrupt"}
  /\ UNCHANGED <<fdvars, tvars, step, legacy, bus, handle, ovars>>

-----------------------------------------------------------------------------
(* The session object.                                                     *)

(* eis_fd hands the ownership on; the caller takes it once.                *)
ReadFd ==
  /\ pc = "open"
  /\ eisFd # NULL
  /\ claimed' = TRUE
  /\ IF file[eisFd] = "eis" THEN Becomes(eisFd, "user") ELSE UNCHANGED fdvars
  /\ UNCHANGED <<portal, pc, tvars, nvars, eisFd, closed, cvars>>

(* os.close of the fd, unless it is somebody else's by now.                *)
CloseUnclaimed ==
  IF eisFd # NULL /\ ~claimed
  THEN ClosesAs(eisFd, "eis") /\ UNCHANGED wrapped
  ELSE UNCHANGED fdvars

(* What os.close may report; the number is free all the same.              *)
CloseErrors == IF eisFd # NULL /\ ~claimed THEN {"none", "OSError"} ELSE {"none"}

(* Mutant of Escapes: os.close is outside the try.                         *)
EscapesAny(error) == error # "none"

(* An OSError is logged, so that the D-Bus half of close() follows.        *)
Escapes(error) == error \notin {"none", "OSError"}

(* Mutant of Close: the fd is closed and not forgotten.                    *)
CloseKeepsFd ==
  /\ pc = "open"
  /\ ~closed
  /\ closed' = TRUE
  /\ CloseUnclaimed
  /\ pc'     = IF handle THEN "closing" ELSE "open"
  /\ UNCHANGED <<portal, tvars, nvars, eisFd, claimed, cvars>>

(* close(), up to the D-Bus call; a second close() returns at once.        *)
Close ==
  /\ pc = "open"
  /\ ~closed
  /\ closed' = TRUE
  /\ CloseUnclaimed
  /\ \E error \in CloseErrors :
       IF Escapes(error) THEN UNCHANGED <<eisFd, pc>>
       ELSE /\ eisFd' = NULL
            /\ pc'    = IF handle THEN "closing" ELSE "open"
  /\ UNCHANGED <<portal, tvars, nvars, claimed, cvars>>

(* Mutant of CloseDBus: the default bus name instead of the session's.     *)
CloseDBusDefault ==
  /\ pc = "closing"
  /\ CloseCall(DefaultName)
  /\ handle' = FALSE
  /\ pc' = "open"
  /\ UNCHANGED <<fdvars, tvars, step, legacy, bus, failure, ovars>>

(* The D-Bus half of close(); the handle and the connection are dropped    *)
(* whatever comes of it.                                                   *)
CloseDBus ==
  /\ pc = "closing"
  /\ CloseCall(bus)
  /\ handle' = FALSE
  /\ pc' = "open"
  /\ UNCHANGED <<fdvars, tvars, step, legacy, bus, failure, ovars>>

(* The last reference is dropped: __del__ closes the fd, never the session.*)
Del ==
  /\ pc = "open"
  /\ pc' = "gone"
  /\ CloseUnclaimed
  /\ UNCHANGED <<portal, tvars, nvars, ovars, cvars>>

-----------------------------------------------------------------------------
Environment == PortalCreates \/ PortalEnds \/ Process

Negotiate == \/ RejectToken
             \/ VersionRead \/ VersionFails
             \/ \E f \in Failures : StepFails(f)
             \/ CreateSucceeds
             \/ StepSucceeds
             \/ \E fd \in Fds : ConnectSucceeds(fd)
             \/ Unwind

Object == ReadFd \/ Close \/ CloseDBus \/ Del

Next == UNCHANGED kind /\ (Environment \/ Negotiate \/ Object)

Spec == Init /\ [][Next]_vars

-----------------------------------------------------------------------------
(* Properties.                                                             *)

(* A negotiation that fails once its session has a handle, however it      *)
(* fails, leaves no live session in a portal that does what it is asked    *)
(* (portal.py:893-915, 1894-1897, 1938-1944).                              *)
FailureEndsSession ==
  pc = "failed" /\ handle /\ ~refused => portal # "live"

(* close() ends the session on the portal it was created on, whichever bus *)
(* name that has, and also when closing the fd fails before it comes to    *)
(* that (portal.py:671-675, 723-751).                                      *)
CloseEndsSession ==
  pc \in {"open", "gone"} /\ closed /\ ~refused => portal # "live"

(* The EIS fd is closed once, by its owner: os.close is never called on a  *)
(* number that has been handed on or has come to mean another file, and    *)
(* once the object is closed or collected the fd is closed or in the hands *)
(* of the caller (portal.py:676-680, 725-736, 761-782).                    *)
FdClosedByOwner ==
  /\ ~misclosed
  /\ closed \/ pc \in {"failed", "gone"} => \A fd \in Fds : file[fd] # "eis"

(* A restore token is never spent for nothing: without persistence the     *)
(* portal's grant is what it was, and with it a negotiation that returns   *)
(* hands back the very token the portal will take next, if there is one    *)
(* (portal.py:835-842, 983-996, 1829-1836, 1872-1880, 1903-1926).          *)
TokenKept ==
  /\ ~persist => grant = "old"
  /\ persist /\ pc \in {"open", "closing", "gone"} =>
       token = (IF grant = "new" THEN "new" ELSE "none")

-----------------------------------------------------------------------------
(* Parts of the inductive invariant of EisSource.                          *)

(* What the portal's session, negotiate() and the object say about each    *)
(* other: whoever knows a handle still has to close the session behind it. *)
SessionInv ==
  /\ handle => portal # "none"
  /\ pc = "version" => step = 0 /\ ~handle
  /\ pc = "step" => /\ step < Len(Steps)
                    /\ handle <=> step > 0
  /\ pc \in {"unwind", "closing"} => handle
  /\ pc = "closing" => closed
  /\ pc = "open" /\ ~closed => handle
  /\ pc \in {"version", "step", "unwind", "failed"} =>
       ~closed /\ ~claimed /\ eisFd = NULL
  /\ pc \in {"version", "step"} => asked = 0
  /\ handle /\ pc # "failed" => asked = 0
  /\ legacy => kind = "InputCapture" /\ ~persist

(* The new token comes with the last answer before the fd.                 *)
TokenInv ==
  /\ pc = "version" => grant = "old" /\ token = "none"
  /\ pc = "step" => TokenAllowed
  /\ pc = "step" /\ grant = "new" => Current = "ConnectToEIS"
  /\ persist /\ pc = "step" => token = (IF grant = "new" THEN "new" ELSE "none")

(* The session object owns the fd it has not handed on, and no other.      *)
OwnerInv ==
  /\ \A fd \in Fds : file[fd] = "eis" =>
       pc = "open" /\ ~closed /\ ~claimed /\ fd = eisFd
  /\ pc = "open" /\ ~closed => /\ eisFd \in Fds
                               /\ ~claimed => file[eisFd] = "eis"
  /\ closed => eisFd = NULL
=============================================================================
