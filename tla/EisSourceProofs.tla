-------------------------- MODULE EisSourceProofs --------------------------
(***************************************************************************)
(* Proofs about EisSource, for any set of fd numbers and bus names: the    *)
(* EIS fd has one owner at a time, who closes it once, through liboeffis   *)
(* and through a portal session; and a session that was created is closed. *)
(*                                                                         *)
(* PortalInv is kept by the steps of a portal session and OeffisInv by     *)
(* those of a liboeffis context; IInv joins them.                          *)
(***************************************************************************)
EXTENDS EisSource, TLAPS

USE FdsAssumption

PortalInv == /\ TypeOK /\ FdInv /\ SessionInv /\ TokenInv /\ OwnerInv
             /\ FailureEndsSession /\ CloseEndsSession /\ TokenKept

OeffisInv == O!TypeOK /\ FdInv /\ O!QueueInv /\ O!OwnerInv /\ O!EndInv

-----------------------------------------------------------------------------
(* File descriptors.                                                       *)

SameEis == \A fd \in Fds : file'[fd] = "eis" <=> file[fd] = "eis"

(* What the caller, a context or a stranger does leaves every fd of a      *)
(* session object alone and closes no number that is not its own.          *)
LEMMA FdStepFacts ==
  ASSUME FdTypeOK, FdInv, FdStep
  PROVE  FdTypeOK' /\ FdInv' /\ SameEis
<1> PICK fd \in Fds : \/ Opens(fd, "other") \/ AddClient(fd) \/ UserCloses(fd)
                      \/ WrapFile(fd) \/ FileCloses(fd) \/ CreateForInt(fd)
                      \/ CreateForFile(fd) \/ ContextEnds(fd)
  BY DEF FdStep
<1> USE DEF FdTypeOK, FdInv, FileStaysOpen, SameEis, Becomes
<1>1. CASE Opens(fd, "other") \/ AddClient(fd)
  BY <1>1 DEF AddClient, Opens
<1>2. CASE UserCloses(fd) \/ WrapFile(fd)
  BY <1>2 DEF UserCloses, WrapFile
<1>3. CASE FileCloses(fd)
  BY <1>3 DEF FileCloses, ClosesAs
<1>4. CASE CreateForInt(fd)
  BY <1>4 DEF CreateForInt
<1>5. CASE CreateForFile(fd)
  BY <1>5 DEF CreateForFile, Opens
<1>6. CASE ContextEnds(fd)
  BY <1>6 DEF ContextEnds
<1> QED  BY <1>1, <1>2, <1>3, <1>4, <1>5, <1>6

(* An fd that a session object obtains was free.                           *)
LEMMA OpensFacts ==
  ASSUME FdTypeOK, FdInv, NEW fd \in Fds, Opens(fd, "eis")
  PROVE  /\ FdTypeOK' /\ FdInv'
         /\ file'[fd] = "eis"
         /\ \A g \in Fds \ {fd} : file'[g] = file[g]
  BY DEF FdTypeOK, FdInv, FileStaysOpen, Opens, Becomes

(* An fd of a session object that it hands on is the caller's.             *)
LEMMA HandOnFacts ==
  ASSUME FdTypeOK, FdInv, NEW fd \in Fds,
         IF file[fd] = "eis" THEN Becomes(fd, "user") ELSE UNCHANGED fdvars
  PROVE  /\ FdTypeOK' /\ FdInv'
         /\ file'[fd] # "eis"
         /\ \A g \in Fds \ {fd} : file'[g] = file[g]
  BY DEF FdTypeOK, FdInv, FileStaysOpen, Becomes, fdvars

(* An fd of a session object that it closes is closed by its owner.        *)
LEMMA CloseFacts ==
  ASSUME FdTypeOK, FdInv, NEW fd \in Fds, file[fd] = "eis",
         ClosesAs(fd, "eis"), UNCHANGED wrapped
  PROVE  /\ FdTypeOK' /\ FdInv'
         /\ file'[fd] # "eis"
         /\ \A g \in Fds \ {fd} : file'[g] = file[g]
  BY DEF FdTypeOK, FdInv, FileStaysOpen, ClosesAs

-----------------------------------------------------------------------------
(* The portal session.                                                     *)

(* Steps are counted up to four.                                           *)
LEMMA StepBound == \A n \in 0..4, m \in 2..4 : n < m => n + 1 \in 0..4
  OBVIOUS

(* The steps of each negotiation: the first creates the session, the last  *)
(* connects, and a new token comes with the one before the last.           *)
LEMMA StepNames ==
  ASSUME TypeOK, SessionInv, pc = "step"
  PROVE  /\ Len(Steps) \in 2..4
         /\ Current = "ConnectToEIS" => step > 0 /\ ~Presenting
         /\ Current # "ConnectToEIS" => step + 1 < Len(Steps)
         /\ Current = "Start" => Steps[step + 2] = "ConnectToEIS"
<1>1. step \in Nat /\ step < Len(Steps)
  BY DEF TypeOK, SessionInv
<1>2. CASE kind = "RemoteDesktop"
  <2>1. Steps = <<"CreateSession", "SelectDevices", "Start", "ConnectToEIS">>
    BY <1>2 DEF Steps
  <2>2. step \in {0, 1, 2, 3} /\ Len(Steps) = 4
    BY <1>1, <2>1
  <2> QED  BY <1>2, <2>1, <2>2 DEF Current, Presenting
<1>3. CASE kind # "RemoteDesktop" /\ legacy
  <2>1. Steps = <<"CreateSession", "ConnectToEIS">>
    BY <1>3 DEF Steps
  <2>2. step \in {0, 1} /\ Len(Steps) = 2
    BY <1>1, <2>1
  <2> QED  BY <1>3, <2>1, <2>2 DEF Current, Presenting
<1>4. CASE kind # "RemoteDesktop" /\ ~legacy
  <2>1. Steps = <<"CreateSession2", "Start", "ConnectToEIS">>
    BY <1>4 DEF Steps
  <2>2. step \in {0, 1, 2} /\ Len(Steps) = 3
    BY <1>1, <2>1
  <2> QED  BY <1>4, <2>1, <2>2 DEF Current, Presenting
<1> QED  BY <1>2, <1>3, <1>4

(* The portal creates a session only while nobody has a handle to one, and *)
(* never gets one back to life.                                            *)
LEMMA PortalStep ==
  ASSUME PortalInv, PortalCreates \/ PortalEnds, UNCHANGED kind
  PROVE  PortalInv'
<1> USE DEF PortalCreates, PortalEnds, fdvars, tvars, nvars, ovars, cvars
<1>1. TypeOK' /\ FdInv'
  BY DEF PortalInv, TypeOK, FdTypeOK, FdInv, FileStaysOpen
<1>2. SessionInv'
  BY DEF PortalInv, SessionInv, Steps
<1>3. TokenInv' /\ OwnerInv' /\ TokenKept'
  BY DEF PortalInv, TokenInv, TokenAllowed, Current, Steps, OwnerInv, TokenKept
<1>4. FailureEndsSession' /\ CloseEndsSession'
  BY DEF PortalInv, SessionInv, FailureEndsSession, CloseEndsSession
<1> QED  BY <1>1, <1>2, <1>3, <1>4 DEF PortalInv

(* The rest of the process does not touch the session's fd.                *)
LEMMA ProcessStep == ASSUME PortalInv, Process, UNCHANGED kind PROVE PortalInv'
<1>1. FdTypeOK' /\ FdInv' /\ SameEis
  BY FdStepFacts DEF PortalInv, TypeOK, Process
<1>2. UNCHANGED <<portal, pc, tvars, nvars, ovars, cvars, kind>>
  BY DEF Process
<1> USE DEF tvars, nvars, ovars, cvars
<1>3. TypeOK'
  BY <1>1, <1>2 DEF PortalInv, TypeOK
<1>4. SessionInv' /\ TokenInv' /\ TokenKept'
  BY <1>2 DEF PortalInv, SessionInv, TokenInv, TokenAllowed, Current, Steps, TokenKept
<1>5. OwnerInv'
  BY <1>1, <1>2 DEF PortalInv, OwnerInv, SameEis
<1>6. FailureEndsSession' /\ CloseEndsSession'
  BY <1>2 DEF PortalInv, FailureEndsSession, CloseEndsSession
<1> QED  BY <1>1, <1>3, <1>4, <1>5, <1>6 DEF PortalInv

(* Before the first step there is neither session nor fd.                  *)
LEMMA VersionStep ==
  ASSUME PortalInv, RejectToken \/ VersionRead \/ VersionFails, UNCHANGED kind
  PROVE  PortalInv'
<1>1. /\ pc = "version"
      /\ UNCHANGED <<portal, file, wrapped, misclosed, kind, grant, given, persist, token,
                     step, bus, handle, eisFd, claimed, closed, asked, refused>>
  BY DEF RejectToken, VersionRead, VersionFails, fdvars, tvars, nvars, ovars, cvars
<1>2. \/ pc' = "failed"
      \/ pc' = "step" /\ TokenAllowed /\ failure' = failure
  BY DEF RejectToken, VersionRead, VersionFails
<1> legacy' => kind' = "InputCapture" /\ ~persist'
  <2>1. CASE RejectToken
    BY <2>1 DEF RejectToken, PortalInv, SessionInv, tvars
  <2>2. CASE VersionRead
    BY <1>1, <2>2 DEF VersionRead
  <2>3. CASE VersionFails
    BY <2>3 DEF VersionFails, PortalInv, SessionInv, tvars
  <2> QED  BY <2>1, <2>2, <2>3
<1> legacy \in BOOLEAN /\ persist \in BOOLEAN
  BY DEF PortalInv, TypeOK
<1> legacy' \in BOOLEAN
  BY DEF RejectToken, VersionRead, VersionFails
<1> failure' \in Failures \cup {"none"}
  <2>1. failure \in Failures \cup {"none"}
    BY DEF PortalInv, TypeOK
  <2> QED  BY <2>1 DEF RejectToken, VersionRead, VersionFails, Failures
<1>3. TypeOK' /\ FdInv'
  BY <1>1, <1>2 DEF PortalInv, TypeOK, FdTypeOK, FdInv, FileStaysOpen, PC
<1>4. SessionInv'
  <2>1. step = 0 /\ step' = 0 /\ ~handle /\ 0 < Len(Steps')
    <3>1. Len(Steps') \in {2, 3, 4}
      BY DEF Steps
    <3> QED  BY <1>1, <3>1 DEF PortalInv, SessionInv
  <2> QED  BY <1>1, <1>2, <2>1 DEF PortalInv, SessionInv
<1>5. TokenInv' /\ TokenKept'
  BY <1>1, <1>2 DEF PortalInv, TokenInv, TokenAllowed, TokenKept
<1>6. OwnerInv'
  BY <1>1, <1>2 DEF PortalInv, OwnerInv
<1>7. FailureEndsSession' /\ CloseEndsSession'
  BY <1>1, <1>2 DEF PortalInv, SessionInv, FailureEndsSession, CloseEndsSession
<1> QED  BY <1>3, <1>4, <1>5, <1>6, <1>7 DEF PortalInv

(* A failed step leads to the unwinding exactly if there is a handle.      *)
LEMMA StepFailsStep ==
  ASSUME PortalInv, NEW f \in Failures, StepFails(f), UNCHANGED kind
  PROVE  PortalInv'
<1> USE DEF StepFails, Raise, fdvars, ovars, cvars
<1>1. TypeOK' /\ FdInv'
  BY DEF PortalInv, TypeOK, FdTypeOK, FdInv, FileStaysOpen, PC, Spent
<1>2. SessionInv'
  BY DEF PortalInv, SessionInv
<1>3. TokenInv' /\ TokenKept'
  BY DEF PortalInv, TypeOK, TokenInv, TokenAllowed, TokenKept, Spent
<1>4. OwnerInv' /\ FailureEndsSession' /\ CloseEndsSession'
  BY DEF PortalInv, OwnerInv, SessionInv, FailureEndsSession, CloseEndsSession
<1> QED  BY <1>1, <1>2, <1>3, <1>4 DEF PortalInv

(* The handle of a session becomes known once the portal has created it.   *)
LEMMA CreateStep ==
  ASSUME PortalInv, CreateSucceeds, UNCHANGED kind
  PROVE  PortalInv'
<1> USE DEF CreateSucceeds, Creating, fdvars, tvars, ovars, cvars
<1>1. TypeOK' /\ FdInv'
  <2>1. FdTypeOK' /\ FdInv'
    BY DEF PortalInv, TypeOK, FdTypeOK, FdInv, FileStaysOpen
  <2>2. step' \in 0..4
    BY DEF PortalInv, TypeOK
  <2>3. handle' \in BOOLEAN
    BY DEF PortalInv, TypeOK
  <2>4. pc' \in PC
    BY DEF PortalInv, TypeOK, PC
  <2>5. failure' \in Failures \cup {"none"}
    BY DEF PortalInv, TypeOK, Failures
  <2> QED  BY <2>1, <2>2, <2>3, <2>4, <2>5 DEF PortalInv, TypeOK
<1>2. Len(Steps) \in 2..4 /\ Current # "ConnectToEIS" /\ Steps' = Steps
  BY StepNames DEF PortalInv, Steps
<1>3. SessionInv'
  BY <1>2 DEF PortalInv, SessionInv
<1>4. TokenInv' /\ TokenKept'
  BY <1>2 DEF PortalInv, TypeOK, TokenInv, TokenAllowed, TokenKept
<1>5. OwnerInv' /\ FailureEndsSession' /\ CloseEndsSession'
  BY DEF PortalInv, OwnerInv, SessionInv, FailureEndsSession, CloseEndsSession
<1> QED  BY <1>1, <1>3, <1>4, <1>5 DEF PortalInv

(* A step in the middle: only Start can bring a new token, and nothing     *)
(* after it presents one.                                                  *)
LEMMA StepSucceedsStep ==
  ASSUME PortalInv, StepSucceeds, UNCHANGED kind
  PROVE  PortalInv'
<1> USE DEF StepSucceeds, Creating, fdvars, ovars, cvars
<1>1. /\ step + 1 < Len(Steps) /\ Len(Steps) \in 2..4
      /\ Current = "Start" => Steps[step + 2] = "ConnectToEIS"
      /\ Steps' = Steps
  BY StepNames DEF PortalInv, Steps
<1>2. TypeOK' /\ FdInv'
  <2>1. FdTypeOK' /\ FdInv'
    BY DEF PortalInv, TypeOK, FdTypeOK, FdInv, FileStaysOpen
  <2>2. grant' \in {"none", "old", "new"} /\ token' \in {"none", "new"}
    BY DEF PortalInv, TypeOK, Spent
  <2>3. step' \in 0..4
    <3>1. step \in 0..4 /\ step' = step + 1 /\ step < Len(Steps)
      BY DEF PortalInv, TypeOK, SessionInv
    <3> QED  BY <1>1, <3>1, StepBound
  <2> QED  BY <2>1, <2>2, <2>3 DEF PortalInv, TypeOK
<1>3. SessionInv'
  BY <1>1 DEF PortalInv, TypeOK, SessionInv
<1>4. TokenInv'
  <2>1. grant # "new"
    BY DEF PortalInv, TokenInv
  <2>2. grant' = "new" => Current = "Start"
    BY <2>1 DEF Spent
  <2>3. step' + 1 = step + 2
    BY DEF PortalInv, TypeOK
  <2>4. grant' = "new" => Current' = "ConnectToEIS"
    BY <1>1, <2>2, <2>3 DEF Current
  <2>5. persist => token' = (IF grant' = "new" THEN "new" ELSE "none")
    BY <2>1 DEF PortalInv, TypeOK, TokenInv, Spent
  <2> QED  BY <2>4, <2>5 DEF PortalInv, TokenInv, TokenAllowed
<1>5. TokenKept'
  BY DEF PortalInv, TokenInv, TokenAllowed, TokenKept, Spent
<1>6. OwnerInv' /\ FailureEndsSession' /\ CloseEndsSession'
  BY DEF PortalInv, OwnerInv, FailureEndsSession, CloseEndsSession
<1> QED  BY <1>2, <1>3, <1>4, <1>5, <1>6 DEF PortalInv

(* The last step: the object owns an fd that was free.                     *)
LEMMA ConnectStep ==
  ASSUME PortalInv, NEW fd \in Fds, ConnectSucceeds(fd), UNCHANGED kind
  PROVE  PortalInv'
<1> USE DEF ConnectSucceeds, tvars, cvars
<1>1. step > 0 /\ step < Len(Steps) /\ Len(Steps) \in 2..4
  BY StepNames DEF PortalInv, SessionInv
<1>2. /\ FdTypeOK' /\ FdInv'
      /\ file'[fd] = "eis"
      /\ \A g \in Fds \ {fd} : file'[g] = file[g]
  BY OpensFacts DEF PortalInv, TypeOK
<1>3. TypeOK'
  <2>1. step' \in 0..4
    <3>1. step \in 0..4 /\ step' = step + 1 /\ step < Len(Steps)
      BY DEF PortalInv, TypeOK, SessionInv
    <3> QED  BY <1>1, <3>1, StepBound
  <2>2. pc' \in PC
    BY DEF PC
  <2> QED  BY <1>2, <2>1, <2>2 DEF PortalInv, TypeOK
<1>4. SessionInv'
  BY <1>1 DEF PortalInv, SessionInv
<1>5. TokenInv' /\ TokenKept'
  BY DEF PortalInv, TokenInv, TokenKept
<1>6. OwnerInv'
  BY <1>2 DEF PortalInv, SessionInv, OwnerInv
<1>7. FailureEndsSession' /\ CloseEndsSession'
  BY DEF PortalInv, SessionInv, FailureEndsSession, CloseEndsSession
<1> QED  BY <1>2, <1>3, <1>4, <1>5, <1>6, <1>7 DEF PortalInv

(* Session.Close ends a session, unless the portal does not do it.         *)
LEMMA CloseCallFacts ==
  ASSUME TypeOK, CloseCall(bus), asked = 0
  PROVE  /\ portal' \in {"none", "live", "ended"} /\ refused' \in BOOLEAN
         /\ asked' = 1
         /\ portal # "none" => portal' # "none"
         /\ ~refused' => portal' # "live"
<1>1. asked' = 1 /\ portal \in {"none", "live", "ended"} /\ refused \in BOOLEAN
  BY DEF TypeOK, CloseCall
<1>2. CASE portal' = (IF portal = "live" THEN "ended" ELSE portal) /\ UNCHANGED refused
  BY <1>1, <1>2
<1>3. CASE refused' = TRUE /\ UNCHANGED portal
  BY <1>1, <1>3
<1> QED  BY <1>2, <1>3 DEF CloseCall

(* The unwinding closes the session by the name it was created under.      *)
LEMMA UnwindStep == ASSUME PortalInv, Unwind, UNCHANGED kind PROVE PortalInv'
<1> USE DEF Unwind, fdvars, tvars, ovars
<1>1. /\ portal' \in {"none", "live", "ended"} /\ refused' \in BOOLEAN
      /\ asked' = 1
      /\ portal # "none" => portal' # "none"
      /\ ~refused' => portal' # "live"
  BY CloseCallFacts DEF PortalInv, SessionInv
<1>2. TypeOK' /\ FdInv'
  BY <1>1 DEF PortalInv, TypeOK, FdTypeOK, FdInv, FileStaysOpen, PC, Failures
<1>3. SessionInv'
  BY <1>1 DEF PortalInv, SessionInv
<1>4. TokenInv' /\ TokenKept' /\ OwnerInv'
  BY DEF PortalInv, TokenInv, TokenKept, OwnerInv
<1>5. FailureEndsSession' /\ CloseEndsSession'
  BY <1>1 DEF FailureEndsSession, CloseEndsSession
<1> QED  BY <1>2, <1>3, <1>4, <1>5 DEF PortalInv

(* eis_fd hands the fd on; read again, it finds the caller's.              *)
LEMMA ReadFdStep == ASSUME PortalInv, ReadFd, UNCHANGED kind PROVE PortalInv'
<1> USE DEF ReadFd, tvars, nvars, cvars
<1>1. eisFd \in Fds /\ ~closed
  BY DEF PortalInv, TypeOK, OwnerInv
<1>2. /\ FdTypeOK' /\ FdInv'
      /\ file'[eisFd] # "eis"
      /\ \A g \in Fds \ {eisFd} : file'[g] = file[g]
  BY <1>1, HandOnFacts DEF PortalInv, TypeOK
<1>3. TypeOK'
  BY <1>2 DEF PortalInv, TypeOK
<1>4. SessionInv' /\ TokenInv' /\ TokenKept'
  BY DEF PortalInv, SessionInv, TokenInv, TokenKept
<1>5. OwnerInv'
  BY <1>1, <1>2 DEF PortalInv, OwnerInv
<1>6. FailureEndsSession' /\ CloseEndsSession'
  BY DEF PortalInv, FailureEndsSession, CloseEndsSession
<1> QED  BY <1>2, <1>3, <1>4, <1>5, <1>6 DEF PortalInv

(* close() and __del__ leave no fd that is the session object's.           *)
LEMMA CloseUnclaimedFacts ==
  ASSUME PortalInv, pc = "open", CloseUnclaimed
  PROVE  FdTypeOK' /\ FdInv' /\ \A fd \in Fds : file'[fd] # "eis"
<1>1. CASE eisFd # NULL /\ ~claimed
  <2>1. eisFd \in Fds /\ file[eisFd] = "eis"
    BY <1>1 DEF PortalInv, OwnerInv
  <2>2. /\ FdTypeOK' /\ FdInv'
        /\ file'[eisFd] # "eis"
        /\ \A g \in Fds \ {eisFd} : file'[g] = file[g]
    BY <1>1, <2>1, CloseFacts DEF PortalInv, TypeOK, CloseUnclaimed
  <2> QED  BY <2>2 DEF PortalInv, OwnerInv
<1>2. CASE ~(eisFd # NULL /\ ~claimed)
  BY <1>2 DEF PortalInv, TypeOK, OwnerInv, CloseUnclaimed, FdTypeOK, FdInv, FileStaysOpen,
     fdvars
<1> QED  BY <1>1, <1>2

(* close() up to its D-Bus half, and __del__.                               *)
LEMMA CloseStep == ASSUME PortalInv, Close \/ Del, UNCHANGED kind PROVE PortalInv'
<1> USE DEF Close, CloseErrors, Escapes, Del, tvars, nvars, ovars, cvars
<1>1. FdTypeOK' /\ FdInv' /\ \A fd \in Fds : file'[fd] # "eis"
  BY CloseUnclaimedFacts
<1>2. TypeOK'
  <2>1. pc' \in PC /\ closed' \in BOOLEAN /\ eisFd' \in Fds \cup {NULL}
    BY DEF PortalInv, TypeOK, PC
  <2> QED  BY <1>1, <2>1 DEF PortalInv, TypeOK
<1>3. SessionInv' /\ TokenInv' /\ TokenKept'
  BY DEF PortalInv, SessionInv, TokenInv, TokenKept
<1>4. OwnerInv'
  BY <1>1 DEF PortalInv, OwnerInv
<1>5. FailureEndsSession' /\ CloseEndsSession'
  BY DEF PortalInv, SessionInv, FailureEndsSession, CloseEndsSession
<1> QED  BY <1>1, <1>2, <1>3, <1>4, <1>5 DEF PortalInv

(* The D-Bus half of close() ends the session, once.                       *)
LEMMA CloseDBusStep == ASSUME PortalInv, CloseDBus, UNCHANGED kind PROVE PortalInv'
<1> USE DEF CloseDBus, fdvars, tvars, ovars
<1>1. /\ portal' \in {"none", "live", "ended"} /\ refused' \in BOOLEAN
      /\ asked' = 1
      /\ portal # "none" => portal' # "none"
      /\ ~refused' => portal' # "live"
  BY CloseCallFacts DEF PortalInv, SessionInv
<1>2. TypeOK' /\ FdInv'
  <2>1. FdTypeOK' /\ FdInv'
    BY DEF PortalInv, TypeOK, FdTypeOK, FdInv, FileStaysOpen
  <2>2. pc' \in PC /\ asked' \in 0..1
    BY <1>1 DEF PC
  <2> QED  BY <1>1, <2>1, <2>2 DEF PortalInv, TypeOK
<1>3. SessionInv'
  BY DEF PortalInv, SessionInv
<1>4. TokenInv' /\ TokenKept' /\ OwnerInv'
  BY DEF PortalInv, SessionInv, TokenInv, TokenKept, OwnerInv
<1>5. FailureEndsSession' /\ CloseEndsSession'
  BY <1>1 DEF FailureEndsSession, CloseEndsSession
<1> QED  BY <1>2, <1>3, <1>4, <1>5 DEF PortalInv

(* Every step of a portal session keeps PortalInv.                         *)
LEMMA PortalNext == ASSUME PortalInv, Next PROVE PortalInv'
<1>1. CASE Environment
  BY <1>1, PortalStep, ProcessStep DEF Next, Environment
<1>2. CASE Negotiate
  BY <1>2, VersionStep, StepFailsStep, CreateStep, StepSucceedsStep, ConnectStep, UnwindStep
  DEF Next, Negotiate
<1>3. CASE Object
  BY <1>3, ReadFdStep, CloseStep, CloseDBusStep DEF Next, Object
<1> QED  BY <1>1, <1>2, <1>3 DEF Next

-----------------------------------------------------------------------------
(* The liboeffis context.                                                  *)

(* Oeffis speaks of the same files as PortalSession.                       *)
LEMMA SameTypes == O!FdTypeOK <=> FdTypeOK
  BY DEF O!FdTypeOK, FdTypeOK

(* A number changes hands in Oeffis as it does in PortalSession.           *)
LEMMA SameBecomes ==
  ASSUME NEW fd, NEW owner
  PROVE  O!Becomes(fd, owner) <=> Becomes(fd, owner)
  BY DEF O!Becomes, Becomes

(* So do the opening                                                       *)
LEMMA SameOpens ==
  ASSUME NEW fd, NEW owner
  PROVE  O!Opens(fd, owner) <=> Opens(fd, owner)
  BY DEF O!Opens, Opens, O!Becomes, Becomes

(* and the closing of a number,                                            *)
LEMMA SameCloses ==
  ASSUME NEW fd, NEW owner
  PROVE  O!ClosesAs(fd, owner) <=> ClosesAs(fd, owner)
  BY DEF O!ClosesAs, ClosesAs

(* and what the rest of the process does.                                  *)
LEMMA SameFdStep == O!FdStep => FdStep
<1> SUFFICES ASSUME O!FdStep PROVE FdStep
  OBVIOUS
<1> PICK fd \in Fds : \/ O!Opens(fd, "other") \/ O!AddClient(fd) \/ O!UserCloses(fd)
                      \/ O!WrapFile(fd) \/ O!FileCloses(fd) \/ O!CreateForInt(fd)
                      \/ O!CreateForFile(fd) \/ O!ContextEnds(fd)
  BY DEF O!FdStep
<1>1. CASE O!Opens(fd, "other") \/ O!AddClient(fd)
  BY <1>1, SameOpens DEF O!AddClient, AddClient, FdStep
<1>2. CASE O!UserCloses(fd)
  BY <1>2, SameBecomes DEF O!UserCloses, UserCloses, FdStep
<1>3. CASE O!WrapFile(fd)
  BY <1>3 DEF O!WrapFile, WrapFile, FdStep
<1>4. CASE O!FileCloses(fd)
  BY <1>4, SameCloses DEF O!FileCloses, FileCloses, FdStep
<1>5. CASE O!CreateForInt(fd)
  BY <1>5, SameBecomes DEF O!CreateForInt, CreateForInt, FdStep
<1>6. CASE O!CreateForFile(fd)
  BY <1>6, SameOpens DEF O!CreateForFile, CreateForFile, FdStep
<1>7. CASE O!ContextEnds(fd)
  BY <1>7, SameBecomes DEF O!ContextEnds, ContextEnds, FdStep
<1> QED  BY <1>1, <1>2, <1>3, <1>4, <1>5, <1>6, <1>7

(* A queue with one more element.                                          *)
LEMMA AppendFacts ==
  ASSUME NEW S, NEW q \in Seq(S), NEW e \in S
  PROVE  /\ Append(q, e) \in Seq(S)
         /\ Len(Append(q, e)) = Len(q) + 1
         /\ \A i \in 1..Len(q) : Append(q, e)[i] = q[i]
         /\ Append(q, e)[Len(q) + 1] = e
  OBVIOUS

(* A queue without its first element.                                      *)
LEMMA TailFacts ==
  ASSUME NEW S, NEW q \in Seq(S), q # <<>>
  PROVE  /\ Head(q) = q[1] /\ Len(q) \in Nat /\ 1 <= Len(q)
         /\ Tail(q) \in Seq(S)
         /\ Len(Tail(q)) = Len(q) - 1
         /\ \A i \in 1..Len(q) - 1 : Tail(q)[i] = q[i + 1]
  OBVIOUS

(* liboeffis announces the connection once, while it is new.               *)
LEMMA LibStep ==
  ASSUME OeffisInv, NEW e \in O!EventTypes, O!LibEvent(e)
  PROVE  OeffisInv'
<1> USE DEF O!LibEvent, O!fdvars, O!ovars
<1>1. /\ queue' \in Seq(O!EventTypes)
      /\ Len(queue) \in Nat /\ Len(queue') = Len(queue) + 1
      /\ \A i \in 1..Len(queue) : queue'[i] = queue[i]
      /\ queue'[Len(queue) + 1] = e
  BY AppendFacts DEF OeffisInv, O!TypeOK
<1>2. /\ session' \in {"new", "connected", "CLOSED", "DISCONNECTED", "freed"}
      /\ session' = "new" => session = "new" /\ e # "CONNECTED_TO_EIS"
      /\ e = "CONNECTED_TO_EIS" => session = "new" /\ session' = "connected"
  BY DEF OeffisInv, O!TypeOK, O!EventTypes, O!Ended
<1>3. unknown' \in 0..MaxUnknown
  BY UnknownAssumption DEF OeffisInv, O!TypeOK, O!EventTypes, O!Ended
<1>4. O!TypeOK' /\ FdInv'
  BY <1>1, <1>2, <1>3 DEF OeffisInv, O!TypeOK, O!FdTypeOK, FdInv, FileStaysOpen
<1>5. O!QueueInv'
  BY <1>1, <1>2 DEF OeffisInv, O!QueueInv
<1>6. O!OwnerInv' /\ O!EndInv'
  BY DEF OeffisInv, O!OwnerInv, O!EndInv
<1> QED  BY <1>4, <1>5, <1>6 DEF OeffisInv

(* The rest of the process does not touch the context's fd.                *)
LEMMA OProcessStep == ASSUME OeffisInv, O!Process PROVE OeffisInv'
<1>1. FdTypeOK' /\ FdInv' /\ SameEis
  BY FdStepFacts, SameTypes, SameFdStep DEF OeffisInv, O!TypeOK, O!Process
<1> USE DEF O!Process, O!lvars, O!ovars
<1>2. O!TypeOK'
  BY <1>1 DEF OeffisInv, O!TypeOK, O!FdTypeOK, FdTypeOK
<1>3. O!QueueInv' /\ O!EndInv'
  BY DEF OeffisInv, O!QueueInv, O!EndInv
<1>4. O!OwnerInv'
  BY <1>1 DEF OeffisInv, O!TypeOK, O!OwnerInv, SameEis
<1> QED  BY <1>1, <1>2, <1>3, <1>4 DEF OeffisInv

(* Steps that leave the fd and its owner alone.                            *)
LEMMA QuietStep ==
  ASSUME OeffisInv,
         O!LibReturns \/ O!Create \/ O!CreateFails \/ O!Dispatch \/ O!NoMoreEvents
  PROVE  OeffisInv'
<1> USE DEF O!LibReturns, O!Create, O!CreateFails, O!Dispatch, O!NoMoreEvents,
        O!DispatchEnds, O!lvars, O!fdvars, O!ovars
<1>1. /\ UNCHANGED <<queue, unknown, file, wrapped, misclosed, state, oEisFd, oClaimed>>
      /\ opc' = "gone" => opc = "none" /\ session' = "freed"
      /\ opc # "gone" /\ opc' # "none"
      /\ opc' \in {"none", "idle", "lib", "drain", "gone"}
      /\ session' \in {session, "freed"}
  BY DEF OeffisInv, O!TypeOK
<1>2. answer' \in {"none", "True", "False"} \cup O!Ended /\ O!EndInv'
  BY DEF OeffisInv, O!TypeOK, O!Ended, O!EndInv
<1> HIDE DEF O!LibReturns, O!Create, O!CreateFails, O!Dispatch, O!NoMoreEvents
<1>3. O!TypeOK' /\ FdInv'
  BY <1>1, <1>2 DEF OeffisInv, O!TypeOK, O!FdTypeOK, FdInv, FileStaysOpen
<1>4. O!QueueInv'
  BY <1>1 DEF OeffisInv, O!QueueInv
<1>5. O!OwnerInv'
  BY <1>1 DEF OeffisInv, O!QueueInv, O!OwnerInv, O!TypeOK
<1> QED  BY <1>2, <1>3, <1>4, <1>5 DEF OeffisInv

(* Taking an event leaves the others in their order.                       *)
LEMMA TakeFacts ==
  ASSUME OeffisInv, O!Take
  PROVE  /\ queue' \in Seq(O!EventTypes)
         /\ Len(queue) \in Nat /\ 1 <= Len(queue) /\ Len(queue') = Len(queue) - 1
         /\ Head(queue) = queue[1]
         /\ \A i \in 1..Len(queue') : queue'[i] = queue[i + 1]
         /\ UNCHANGED <<session, unknown>>
<1>1. queue \in Seq(O!EventTypes) /\ queue # <<>>
  BY DEF OeffisInv, O!TypeOK, O!Take
<1> QED  BY <1>1, TailFacts DEF O!Take

(* An event that is skipped or ends the session.                           *)
LEMMA TakeStep ==
  ASSUME OeffisInv, O!SkipUnknown \/ O!SessionEnds
  PROVE  OeffisInv'
<1> USE DEF O!SkipUnknown, O!SessionEnds, O!DispatchEnds, O!fdvars, O!ovars
<1>1. /\ queue' \in Seq(O!EventTypes)
      /\ Len(queue) \in Nat /\ 1 <= Len(queue) /\ Len(queue') = Len(queue) - 1
      /\ \A i \in 1..Len(queue') : queue'[i] = queue[i + 1]
      /\ UNCHANGED <<session, unknown>>
  BY TakeFacts
<1>2. /\ UNCHANGED <<file, wrapped, misclosed, oEisFd, oClaimed>>
      /\ opc = "drain" /\ opc' \in {"drain", "idle"}
      /\ state' \in {state} \cup O!Ended
      /\ answer' \in {answer} \cup O!Ended
      /\ O!EndInv'
  BY DEF OeffisInv, O!EndInv
<1> HIDE DEF O!SkipUnknown, O!SessionEnds
<1>3. O!TypeOK' /\ FdInv'
  BY <1>1, <1>2 DEF OeffisInv, O!TypeOK, O!FdTypeOK, FdInv, FileStaysOpen
<1>4. O!QueueInv'
  BY <1>1, <1>2 DEF OeffisInv, O!QueueInv
<1>5. O!OwnerInv'
  BY <1>2 DEF OeffisInv, O!OwnerInv, O!Ended
<1> QED  BY <1>2, <1>3, <1>4, <1>5 DEF OeffisInv

(* The one CONNECTED_TO_EIS brings the one fd, or ends the session.        *)
LEMMA ConnectedStep == ASSUME OeffisInv, O!Connected PROVE OeffisInv'
<1> USE DEF O!Connected, O!DispatchEnds
<1>1. /\ queue' \in Seq(O!EventTypes)
      /\ Len(queue) \in Nat /\ 1 <= Len(queue) /\ Len(queue') = Len(queue) - 1
      /\ Head(queue) = queue[1]
      /\ \A i \in 1..Len(queue') : queue'[i] = queue[i + 1]
      /\ UNCHANGED <<session, unknown>>
  BY TakeFacts
<1>2. /\ opc = "drain" /\ opc' = "idle" /\ queue[1] = "CONNECTED_TO_EIS"
      /\ UNCHANGED oClaimed
  BY <1>1
<1>3. /\ oEisFd = NULL /\ session # "new" /\ ~oClaimed
      /\ \A i \in 1..Len(queue') : queue'[i] # "CONNECTED_TO_EIS"
  BY <1>1, <1>2 DEF OeffisInv, O!TypeOK, O!QueueInv, O!OwnerInv
<1>4. CASE UNCHANGED <<file, wrapped, misclosed, oEisFd>> /\ state' = "DISCONNECTED"
           /\ answer' = "DISCONNECTED"
  <2>1. O!TypeOK' /\ FdInv'
    BY <1>1, <1>2, <1>4 DEF OeffisInv, O!TypeOK, O!FdTypeOK, FdInv, FileStaysOpen, O!Ended
  <2>2. O!QueueInv' /\ O!OwnerInv' /\ O!EndInv'
    BY <1>1, <1>2, <1>3, <1>4 DEF OeffisInv, O!QueueInv, O!OwnerInv, O!EndInv
  <2> QED  BY <2>1, <2>2 DEF OeffisInv
<1>5. CASE \E fd \in Fds : Opens(fd, "eis") /\ oEisFd' = fd
                           /\ state' = "CONNECTED_TO_EIS" /\ answer' = "True"
  <2> PICK fd \in Fds : Opens(fd, "eis") /\ oEisFd' = fd
                        /\ state' = "CONNECTED_TO_EIS" /\ answer' = "True"
    BY <1>5
  <2>1. /\ FdTypeOK' /\ FdInv'
        /\ file'[fd] = "eis"
        /\ \A g \in Fds \ {fd} : file'[g] = file[g]
    BY OpensFacts, SameTypes DEF OeffisInv, O!TypeOK
  <2>2. O!TypeOK'
    BY <1>1, <1>2, <2>1 DEF OeffisInv, O!TypeOK, O!FdTypeOK, FdTypeOK, O!Ended
  <2>3. O!QueueInv' /\ O!OwnerInv' /\ O!EndInv'
    BY <1>1, <1>2, <1>3, <2>1 DEF OeffisInv, O!QueueInv, O!OwnerInv, O!EndInv, O!Ended
  <2> QED  BY <2>1, <2>2, <2>3 DEF OeffisInv
<1> QED  BY <1>4, <1>5, SameOpens DEF O!fdvars

(* eis_fd hands the fd on; read again, it finds the caller's.              *)
LEMMA OReadFdStep == ASSUME OeffisInv, O!ReadFd PROVE OeffisInv'
<1> USE DEF O!ReadFd, O!lvars
<1>1. oEisFd \in Fds
  BY DEF OeffisInv, O!TypeOK, O!OwnerInv
<1>2. /\ FdTypeOK' /\ FdInv'
      /\ file'[oEisFd] # "eis"
      /\ \A g \in Fds \ {oEisFd} : file'[g] = file[g]
  BY <1>1, HandOnFacts, SameTypes, SameBecomes DEF OeffisInv, O!TypeOK, O!fdvars, fdvars
<1>3. O!TypeOK'
  BY <1>2 DEF OeffisInv, O!TypeOK, O!FdTypeOK, FdTypeOK
<1>4. O!QueueInv' /\ O!OwnerInv' /\ O!EndInv'
  BY <1>1, <1>2 DEF OeffisInv, O!QueueInv, O!OwnerInv, O!EndInv
<1> QED  BY <1>2, <1>3, <1>4 DEF OeffisInv

(* __del__ closes the fd that nobody read.                                 *)
LEMMA ODelStep == ASSUME OeffisInv, O!Del PROVE OeffisInv'
<1>1. FdTypeOK' /\ FdInv' /\ \A fd \in Fds : file'[fd] # "eis"
  <2>1. CASE oEisFd # NULL /\ ~oClaimed
    <3>1. oEisFd \in Fds /\ file[oEisFd] = "eis"
      BY <2>1 DEF OeffisInv, O!TypeOK, O!OwnerInv, O!Del
    <3>2. /\ FdTypeOK' /\ FdInv'
          /\ file'[oEisFd] # "eis"
          /\ \A g \in Fds \ {oEisFd} : file'[g] = file[g]
      BY <2>1, <3>1, CloseFacts, SameTypes, SameCloses DEF OeffisInv, O!TypeOK, O!Del
    <3> QED  BY <3>2 DEF OeffisInv, O!OwnerInv
  <2>2. CASE ~(oEisFd # NULL /\ ~oClaimed)
    <3>1. UNCHANGED <<file, wrapped, misclosed>>
      BY <2>2 DEF O!Del, O!fdvars
    <3>2. \A fd \in Fds : file[fd] # "eis"
      BY <2>2 DEF OeffisInv, O!OwnerInv
    <3> QED  BY <3>1, <3>2, SameTypes DEF OeffisInv, O!TypeOK, FdTypeOK, FdInv, FileStaysOpen
  <2> QED  BY <2>1, <2>2
<1> USE DEF O!Del, O!ovars
<1>2. O!TypeOK'
  BY <1>1 DEF OeffisInv, O!TypeOK, O!FdTypeOK, FdTypeOK
<1>3. O!QueueInv' /\ O!OwnerInv' /\ O!EndInv'
  BY <1>1 DEF OeffisInv, O!QueueInv, O!OwnerInv, O!EndInv
<1> QED  BY <1>1, <1>2, <1>3 DEF OeffisInv

(* Every step of a liboeffis context keeps OeffisInv.                      *)
LEMMA OeffisNext == ASSUME OeffisInv, O!Next PROVE OeffisInv'
  BY LibStep, OProcessStep, QuietStep, TakeStep, ConnectedStep, OReadFdStep, ODelStep
  DEF O!Next, O!Lib, O!Object, O!Drain

-----------------------------------------------------------------------------
(* The process has one of the two sources; the other is as it began.       *)

(* At the start nobody has a session or an fd.                             *)
LEMMA InitInv == ASSUME SourceInit PROVE IInv
<1>1. FdTypeOK /\ FdInv /\ \A fd \in Fds : file[fd] = "free"
  BY DEF SourceInit, Init, FdInit, FdTypeOK, FdInv, FileStaysOpen
<1>2. TypeOK
  <2>1. Init
    BY DEF SourceInit
  <2>2. pc \in PC /\ failure \in Failures \cup {"none"}
    BY <2>1 DEF Init, PC
  <2>3. /\ handle \in BOOLEAN /\ legacy \in BOOLEAN /\ claimed \in BOOLEAN
        /\ closed \in BOOLEAN /\ refused \in BOOLEAN
    BY <2>1 DEF Init
  <2>4. /\ portal \in {"none", "live", "ended"} /\ grant \in {"none", "old", "new"}
        /\ token \in {"none", "new"} /\ step \in 0..4 /\ asked \in 0..1
        /\ eisFd \in Fds \cup {NULL}
    BY <2>1 DEF Init
  <2>5. given \in {"none", "old"} /\ persist \in BOOLEAN /\ kind \in Kinds /\ bus \in BusNames
    BY <2>1 DEF Init
  <2> QED  BY <1>1, <2>2, <2>3, <2>4, <2>5 DEF TypeOK
<1>3. O!TypeOK
  <2>1. queue \in Seq(O!EventTypes)
    BY DEF SourceInit, O!Init
  <2>2. unknown \in 0..MaxUnknown
    BY UnknownAssumption DEF SourceInit, O!Init
  <2> QED  BY <1>1, <2>1, <2>2, SameTypes DEF SourceInit, O!Init, O!TypeOK
<1>4. SessionInv /\ TokenInv
  BY DEF SourceInit, Init, SessionInv, TokenInv
<1>5. FailureEndsSession /\ CloseEndsSession /\ TokenKept
  BY DEF SourceInit, Init, FailureEndsSession, CloseEndsSession, TokenKept
<1>6. OwnerInv
  BY <1>1 DEF SourceInit, Init, OwnerInv
<1>7. O!QueueInv /\ O!OwnerInv /\ O!EndInv
  <2>1. queue = <<>> /\ Len(queue) = 0
    BY DEF SourceInit, O!Init
  <2> QED  BY <1>1, <2>1 DEF SourceInit, O!Init, O!QueueInv, O!OwnerInv, O!EndInv, O!Ended
<1>8. SourceInv
  BY <1>6, <1>7 DEF SourceInit, Init, O!Init, SourceInv
<1> QED  BY <1>1, <1>2, <1>3, <1>4, <1>5, <1>8 DEF SourceInit, IInv, SourceTypeOK

(* Each step is one of the source's, and the process's own.                *)
LEMMA StepInv == ASSUME IInv, [SourceNext]_allVars PROVE IInv'
<1>1. CASE source = "portal" /\ SourceNext
  <2>1. PortalInv' /\ source' = "portal" /\ UNCHANGED oeffisOnly
    BY <1>1, PortalNext DEF IInv, SourceTypeOK, SourceInv, PortalInv, SourceNext
  <2>2. O!TypeOK'
    BY <2>1 DEF IInv, SourceTypeOK, O!TypeOK, O!FdTypeOK, PortalInv, TypeOK, FdTypeOK,
       oeffisOnly
  <2>3. SourceInv'
    BY <1>1, <2>1 DEF IInv, SourceInv, PortalInv, oeffisOnly
  <2> QED  BY <2>1, <2>2, <2>3 DEF IInv, SourceTypeOK, PortalInv
<1>2. CASE source = "oeffis" /\ SourceNext
  <2>1. OeffisInv' /\ source' = "oeffis" /\ UNCHANGED portalOnly
    BY <1>2, OeffisNext DEF IInv, SourceTypeOK, SourceInv, OeffisInv, SourceNext
  <2> USE DEF portalOnly, tvars, nvars, ovars, cvars
  <2>2. FdTypeOK'
    BY <2>1, SameTypes, PTL DEF OeffisInv, O!TypeOK
  <2>3. TypeOK'
    BY <2>1, <2>2 DEF IInv, SourceTypeOK, TypeOK
  <2>4. SessionInv' /\ TokenInv'
    BY <2>1 DEF IInv, SessionInv, TokenInv, TokenAllowed, Current, Steps
  <2>5. FailureEndsSession' /\ CloseEndsSession' /\ TokenKept'
    BY <2>1 DEF IInv, FailureEndsSession, CloseEndsSession, TokenKept
  <2>6. SourceInv'
    BY <1>2, <2>1 DEF IInv, SourceInv, OeffisInv
  <2> QED  BY <2>1, <2>3, <2>4, <2>5, <2>6 DEF IInv, SourceTypeOK, OeffisInv
<1>3. CASE UNCHANGED allVars
  <2> USE <1>3 DEF allVars, portalOnly, oeffisOnly, fdvars, tvars, nvars, ovars, cvars
  <2>1. SourceTypeOK' /\ FdInv'
    BY DEF IInv, SourceTypeOK, TypeOK, O!TypeOK, O!FdTypeOK, FdTypeOK, FdInv, FileStaysOpen
  <2>2. SessionInv' /\ TokenInv'
    BY DEF IInv, SessionInv, TokenInv, TokenAllowed, Current, Steps
  <2>3. FailureEndsSession' /\ CloseEndsSession' /\ TokenKept'
    BY DEF IInv, FailureEndsSession, CloseEndsSession, TokenKept
  <2>4. SourceInv'
    BY DEF IInv, SourceInv, OwnerInv, O!QueueInv, O!OwnerInv, O!EndInv
  <2> QED  BY <2>1, <2>2, <2>3, <2>4 DEF IInv
<1>4. source \in {"portal", "oeffis"}
  BY DEF IInv, SourceTypeOK
<1> QED  BY <1>1, <1>2, <1>3, <1>4

(* The invariant holds in every state.                                     *)
LEMMA Inductive == SourceSpec => []IInv
  BY InitInv, StepInv, PTL DEF SourceSpec

-----------------------------------------------------------------------------
(* The results.                                                            *)

(* Every variable keeps its type.                                          *)
THEOREM Typing == SourceSpec => []SourceTypeOK
  BY Inductive, PTL DEF IInv

(* A negotiation that fails leaves no live session (portal.py:893-915,     *)
(* 1894-1897, 1938-1944).                                                  *)
THEOREM FailureEnds == SourceSpec => []FailureEndsSession
  BY Inductive, PTL DEF IInv

(* close() ends the session it was called for (portal.py:671-675, 723-751).*)
THEOREM CloseEnds == SourceSpec => []CloseEndsSession
  BY Inductive, PTL DEF IInv

(* A restore token is never spent for nothing (portal.py:835-842, 983-996, *)
(* 1829-1836, 1872-1880, 1903-1926).                                       *)
THEOREM Token == SourceSpec => []TokenKept
  BY Inductive, PTL DEF IInv

(* A file object given to create_for_fd stays open (ei.py:1143-1156).      *)
THEOREM FileOpen == SourceSpec => []FileStaysOpen
<1>1. IInv => FileStaysOpen
  BY DEF IInv, FdInv
<1> QED  BY <1>1, Inductive, PTL

(* The EIS fd is closed once, by its owner, whichever object obtained it   *)
(* (portal.py:676-680, 725-736, 761-782, oeffis.py:113-147).               *)
THEOREM Ownership == SourceSpec => []EisFdClosedByOwner
<1>1. ASSUME IInv PROVE EisFdClosedByOwner
  <2>1. CASE source = "portal"
    BY <1>1, <2>1 DEF IInv, FdInv, SourceInv, OwnerInv, EisFdClosedByOwner, FdClosedByOwner,
       O!FdClosedByOwner
  <2>2. CASE source = "oeffis"
    BY <1>1, <2>2 DEF IInv, FdInv, SourceInv, SessionInv, O!OwnerInv, EisFdClosedByOwner,
       FdClosedByOwner, O!FdClosedByOwner
  <2> QED  BY <1>1, <2>1, <2>2 DEF IInv, SourceTypeOK
<1> QED  BY <1>1, Inductive, PTL

(* eis_fd of a connected liboeffis context is a live fd (oeffis.py:193-202).*)
THEOREM LiveFd == SourceSpec => []ConnectedHasFd
<1>1. IInv => ConnectedHasFd
  BY DEF IInv, SourceTypeOK, SourceInv, O!OwnerInv, ConnectedHasFd, O!ConnectedHasFd
<1> QED  BY <1>1, Inductive, PTL

(* dispatch() raises the same end of the session ever after                *)
(* (oeffis.py:167-177).                                                    *)
THEOREM Raising == SourceSpec => O!EndKeepsRaising
<1>1. ASSUME IInv, [SourceNext]_allVars
      PROVE  [(answer \in O!Ended) => answer' = answer]_(O!vars)
  <2>1. CASE UNCHANGED answer
    BY <2>1
  <2>2. CASE source = "oeffis" /\ O!Next
    BY <1>1, <2>2 DEF IInv, SourceInv, O!EndInv, O!Ended, O!Next, O!Lib, O!LibEvent,
       O!LibReturns, O!Process, O!Object, O!Create, O!CreateFails, O!Dispatch, O!Drain,
       O!SkipUnknown, O!NoMoreEvents, O!Connected, O!SessionEnds, O!DispatchEnds, O!ReadFd,
       O!Del, O!ovars
  <2> QED  BY <1>1, <2>1, <2>2 DEF SourceNext, oeffisOnly, allVars
<1> QED  BY <1>1, Inductive, PTL DEF SourceSpec, O!EndKeepsRaising
=============================================================================
