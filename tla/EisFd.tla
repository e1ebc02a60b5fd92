------------------------------- MODULE EisFd --------------------------------
(***************************************************************************)
(* The file descriptors of a process that talks to an EIS implementation:  *)
(* who owns each number, from the session object that obtained it through  *)
(* the caller to the ei.Context (Sender, Receiver) that speaks EI over it, *)
(* or from eis.Eis.add_client() to a client in the same process.           *)
(*                                                                         *)
(* Numbers are reused once closed.  A caller hands each fd on once: as an  *)
(* int, which gives it away, or as a file object, which it keeps.          *)
(***************************************************************************)
EXTENDS FiniteSets

CONSTANTS Fds,       \* file descriptor numbers
          NULL

ASSUME FdsAssumption == IsFiniteSet(Fds) /\ NULL \notin Fds

VARIABLES
  file,      \* file[fd]: "free" | "eis" (a session object's) | "user" (the
             \* caller's) | "ctx" (the C library's) | "other"
  wrapped,   \* the caller's fds that a file object of his owns
  misclosed  \* a number was closed by someone who does not own it any more

fdvars == <<file, wrapped, misclosed>>

FdTypeOK ==
  /\ file      \in [Fds -> {"free", "eis", "user", "ctx", "other"}]
  /\ wrapped   \subseteq Fds
  /\ misclosed \in BOOLEAN

FdInit ==
  /\ file      = [fd \in Fds |-> "free"]
  /\ wrapped   = {}
  /\ misclosed = FALSE

Becomes(fd, owner) ==
  /\ file' = [file EXCEPT ![fd] = owner]
  /\ UNCHANGED <<wrapped, misclosed>>

(* A new number: of the session object, of the caller, of a stranger.      *)
Opens(fd, owner) ==
  /\ file[fd] = "free"
  /\ Becomes(fd, owner)

(* os.close, or the close of a file object, by somebody who means his own. *)
ClosesAs(fd, owner) ==
  /\ misclosed' = (misclosed \/ file[fd] # owner)
  /\ file' = [file EXCEPT ![fd] = "free"]

(* Eis.add_client() mints an fd for the caller.                            *)
AddClient(fd) == Opens(fd, "user")

-----------------------------------------------------------------------------
(* The caller and its fds: closed, or put into a file object.              *)
UserCloses(fd) ==
  /\ fd \notin wrapped
  /\ file[fd] = "user"
  /\ Becomes(fd, "free")

WrapFile(fd) ==
  /\ fd \notin wrapped
  /\ file[fd] = "user"
  /\ wrapped' = wrapped \cup {fd}
  /\ UNCHANGED <<file, misclosed>>

FileCloses(fd) ==
  /\ fd \in wrapped
  /\ ClosesAs(fd, "user")
  /\ wrapped' = wrapped \ {fd}

(* create_for_fd(int): from here on the number is the library's, which     *)
(* closes it itself, also when the setup fails and create_for_fd raises.   *)
(* When not even a context can be had, nothing has happened.               *)
CreateForInt(fd) ==
  /\ fd \notin wrapped
  /\ file[fd] = "user"
  /\ \/ Becomes(fd, "ctx")
     \/ Becomes(fd, "free")

(* Mutant of CreateForFile: the file object's own number is handed over.   *)
CreateForFileRaw(fd) ==
  /\ fd \in wrapped
  /\ Becomes(fd, "ctx")

(* create_for_fd(file object): the library gets a duplicate; with no       *)
(* number left, or when the setup fails, create_for_fd raises and nothing  *)
(* remains of it.                                                          *)
CreateForFile(fd) ==
  /\ fd \in wrapped
  /\ \E copy \in Fds : Opens(copy, "ctx")

(* The context is released or collected: the library closes its socket.    *)
ContextEnds(fd) ==
  /\ file[fd] = "ctx"
  /\ Becomes(fd, "free")

FdStep == \E fd \in Fds : \/ Opens(fd, "other")
                          \/ AddClient(fd)
                          \/ UserCloses(fd)
                          \/ WrapFile(fd)
                          \/ FileCloses(fd)
                          \/ CreateForInt(fd)
                          \/ CreateForFile(fd)
                          \/ ContextEnds(fd)

-----------------------------------------------------------------------------
(* A file object the caller gave to create_for_fd stays valid, whatever    *)
(* becomes of the context: the number in it is the caller's until he       *)
(* closes it (ei.py:1143-1156).                                            *)
FileStaysOpen == \A fd \in wrapped : file[fd] = "user"

(* Part of the inductive invariant of EisSource.                           *)
FdInv == ~misclosed /\ FileStaysOpen
=============================================================================
