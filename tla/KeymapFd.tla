------------------------------ MODULE KeymapFd ------------------------------
(***************************************************************************)
(* The text of a keymap and the numbers it is open under: the file the     *)
(* server wrote it to, the number the library keeps (Device.new_keymap(),  *)
(* and the one a client gets), and the duplicates that Keymap.fd of ei and *)
(* eis hands out.  All of them share one file offset.                      *)
(***************************************************************************)
EXTENDS Integers, FiniteSets

CONSTANTS Fds,      \* file descriptor numbers
          Readers,  \* holders of a file object from Keymap.fd
          Chunks    \* length of the text, in reads

ASSUME KeymapAssumption == Fds \subseteq Nat /\ Chunks \in Nat

NoFd == -1

VARIABLES
  keymap,    \* the number keymap_get_fd() reports
  table,     \* table[fd]: "free" | "text" | "other"
  source,    \* the server's own file of the text, NoFd once closed
  seekable,  \* what was given as keymap text can be rewound
  offset,    \* the shared file offset
  reader,    \* reader[u]: "none" | "number" (raw_fd is known) |
             \*   "dup" (not rewound yet) | "open"
  number,    \* number[u]: raw_fd, then the number in the file object of u
  got,       \* got[u]: what it has read
  calm,      \* calm[u]: nobody else has moved the offset since its rewind
  stirred,   \* the server has moved the offset in a file of its own
  torn       \* history: the keymap was released after u had its number

kvars == <<keymap, table, source, seekable, offset, reader, number, got, calm,
           stirred, torn>>

KeymapTypeOK ==
  /\ {keymap, source} \subseteq Fds \cup {NoFd}
  /\ table \in [Fds -> {"free", "text", "other"}]
  /\ seekable \in BOOLEAN
  /\ offset \in 0..Chunks
  /\ reader \in [Readers -> {"none", "number", "dup", "open"}]
  /\ number \in [Readers -> Fds \cup {NoFd}]
  /\ got  \in [Readers -> SUBSET (0..Chunks - 1)]
  /\ calm \in [Readers -> BOOLEAN]
  /\ stirred \in BOOLEAN
  /\ torn \in [Readers -> BOOLEAN]

(* The server has written the text, which leaves the offset at its end;    *)
(* a text that arrives through a pipe is read from where the pipe is.      *)
KeymapInit ==
  /\ keymap = NoFd
  /\ source \in Fds
  /\ table = [fd \in Fds |-> IF fd = source THEN "text" ELSE "free"]
  /\ seekable \in BOOLEAN
  /\ offset = IF seekable THEN Chunks ELSE 0
  /\ reader = [u \in Readers |-> "none"]
  /\ number = [u \in Readers |-> NoFd]
  /\ got    = [u \in Readers |-> {}]
  /\ calm   = [u \in Readers |-> FALSE]
  /\ stirred = FALSE
  /\ torn   = [u \in Readers |-> FALSE]

(* new_keymap(): the library keeps a duplicate of the number in the file.  *)
NewKeymap(fd) ==
  /\ keymap = NoFd /\ source # NoFd
  /\ table[fd] = "free"
  /\ keymap' = fd
  /\ table'  = [table EXCEPT ![fd] = "text"]
  /\ UNCHANGED <<source, seekable, offset, reader, number, got, calm, stirred, torn>>

(* Keymap.fd asks for the number; -1 raises.                               *)
GetNumber(u) ==
  /\ reader[u] = "none" /\ keymap # NoFd
  /\ number' = [number EXCEPT ![u] = keymap]
  /\ reader' = [reader EXCEPT ![u] = "number"]
  /\ UNCHANGED <<keymap, table, source, seekable, offset, got, calm, stirred, torn>>

(* Mutant of Dup: the file object is made of the library's own number.     *)
DupNot(u, fd) ==
  /\ reader[u] = "number" /\ fd = number[u]
  /\ table[fd] # "free"
  /\ reader' = [reader EXCEPT ![u] = "dup"]
  /\ UNCHANGED <<keymap, table, source, seekable, offset, number, got, calm, stirred, torn>>

(* os.dup of whatever is open under the number by now.                     *)
Dup(u, fd) ==
  /\ reader[u] = "number"
  /\ table[number[u]] # "free" /\ table[fd] = "free"
  /\ table'  = [table  EXCEPT ![fd] = table[number[u]]]
  /\ number' = [number EXCEPT ![u] = fd]
  /\ reader' = [reader EXCEPT ![u] = "dup"]
  /\ UNCHANGED <<keymap, source, seekable, offset, got, calm, stirred, torn>>

(* os.dup raises: the number is closed, or the process has none left.      *)
DupFails(u) ==
  /\ reader[u] = "number"
  /\ \/ table[number[u]] = "free"
     \/ \A fd \in Fds : table[fd] # "free"
  /\ number' = [number EXCEPT ![u] = NoFd]
  /\ reader' = [reader EXCEPT ![u] = "none"]
  /\ torn'   = [torn   EXCEPT ![u] = FALSE]
  /\ UNCHANGED <<keymap, table, source, seekable, offset, got, calm, stirred>>

(* lseek, where the fd allows it; the file object goes to the caller.      *)
Rewind(u) ==
  /\ reader[u] = "dup" /\ table[number[u]] = "text"
  /\ offset' = IF seekable THEN 0 ELSE offset
  /\ reader' = [reader EXCEPT ![u] = "open"]
  /\ calm'   = [v \in Readers |-> v = u]
  /\ UNCHANGED <<keymap, table, source, seekable, number, got, stirred, torn>>

Read(u) ==
  /\ reader[u] = "open" /\ table[number[u]] = "text"
  /\ offset < Chunks
  /\ got'    = [got EXCEPT ![u] = @ \cup {offset}]
  /\ offset' = offset + 1
  /\ calm'   = [v \in Readers |-> v = u /\ calm[v]]
  /\ UNCHANGED <<keymap, table, source, seekable, reader, number, stirred, torn>>

(* The same with a file that is not the text and has its own offset.       *)
RewindOther(u) ==
  /\ reader[u] = "dup" /\ table[number[u]] = "other"
  /\ reader' = [reader EXCEPT ![u] = "open"]
  /\ UNCHANGED <<keymap, table, source, seekable, offset, number, got, calm, stirred, torn>>

Close(u) ==
  /\ reader[u] = "open"
  /\ table'  = [table  EXCEPT ![number[u]] = "free"]
  /\ number' = [number EXCEPT ![u] = NoFd]
  /\ reader' = [reader EXCEPT ![u] = "none"]
  /\ torn'   = [torn   EXCEPT ![u] = FALSE]
  /\ got'    = [got    EXCEPT ![u] = {}]
  /\ calm'   = [calm   EXCEPT ![u] = FALSE]
  /\ UNCHANGED <<keymap, source, seekable, offset, stirred>>

(* The keymap is released, perhaps by another thread while Keymap.fd is    *)
(* being read; the library closes its number.                              *)
KeymapEnds ==
  /\ keymap # NoFd
  /\ table'  = [table EXCEPT ![keymap] = "free"]
  /\ keymap' = NoFd
  /\ torn'   = [u \in Readers |-> torn[u] \/ reader[u] = "number"]
  /\ UNCHANGED <<source, seekable, offset, reader, number, got, calm, stirred>>

(* The server seeks in its file, or closes it.                             *)
SourceSeeks ==
  /\ source # NoFd /\ seekable
  /\ offset' \in 0..Chunks
  /\ calm'    = [v \in Readers |-> FALSE]
  /\ stirred' = TRUE
  /\ UNCHANGED <<keymap, table, source, seekable, reader, number, got, torn>>

SourceCloses ==
  /\ source # NoFd
  /\ table'  = [table EXCEPT ![source] = "free"]
  /\ source' = NoFd
  /\ UNCHANGED <<keymap, seekable, offset, reader, number, got, calm, stirred, torn>>

(* Somebody opens a file.                                                  *)
Stranger(fd) ==
  /\ table[fd] = "free"
  /\ table' = [table EXCEPT ![fd] = "other"]
  /\ UNCHANGED <<keymap, source, seekable, offset, reader, number, got, calm, stirred, torn>>

KeymapNext ==
  \/ \E fd \in Fds : NewKeymap(fd) \/ Stranger(fd)
  \/ \E u \in Readers : \/ GetNumber(u) \/ DupFails(u)
                        \/ \E fd \in Fds : Dup(u, fd)
                        \/ Rewind(u) \/ RewindOther(u) \/ Read(u) \/ Close(u)
  \/ KeymapEnds \/ SourceSeeks \/ SourceCloses

KeymapSpec == KeymapInit /\ [][KeymapNext]_kvars

-----------------------------------------------------------------------------
(* Holders of a file object made from a number that was the keymap's until *)
(* it was duplicated.                                                      *)
Whole == {u \in Readers : reader[u] \in {"dup", "open"} /\ ~torn[u]}

(* The library's number and every file object made from it stay open on    *)
(* the text, in whatever order they are closed, and what a file object     *)
(* delivers, as long as nobody else moves the offset it shares, is the     *)
(* text from its first byte.  A keymap released by another thread while    *)
(* its fd is being read is excepted: the number may have come to mean      *)
(* another file by the time it is duplicated (ei.py:412-438,               *)
(* eis.py:364-384).                                                        *)
KeymapIntact ==
  /\ keymap # NoFd => table[keymap] = "text"
  /\ \A u \in Whole :
       /\ table[number[u]] = "text"
       /\ reader[u] = "open" /\ calm[u] /\ seekable => got[u] = 0..offset - 1

(* Every file object from Keymap.fd delivers the whole text: what is       *)
(* before the offset has been read through it ("A fresh duplicate on each  *)
(* read ... Rewound to position 0 where the fd allows it, so the data is   *)
(* simply readable", ei.py:415-417), unless the server moved the offset.   *)
KeymapReadable ==
  \A u \in Whole :
    reader[u] = "open" /\ seekable /\ ~stirred => 0..offset - 1 \subseteq got[u]

-----------------------------------------------------------------------------
(* The inductive invariant of the proofs.  Every number that is somebody's *)
(* is his alone and open, on the text unless it was torn.                  *)
KeymapInv ==
  /\ KeymapTypeOK
  /\ KeymapIntact
  /\ source # NoFd => table[source] = "text"
  /\ keymap = source => keymap = NoFd
  /\ \A u \in Readers : reader[u] = "number" =>
       number[u] \in Fds /\ (torn[u] \/ number[u] = keymap)
  /\ \A u \in Readers : reader[u] \in {"dup", "open"} =>
       /\ number[u] \in Fds \ {keymap, source}
       /\ table[number[u]] # "free"
       /\ \A v \in Readers \ {u} :
            reader[v] \in {"dup", "open"} => number[v] # number[u]
  /\ \A u \in Readers : reader[u] = "none" => number[u] = NoFd /\ ~torn[u]
  /\ \A u \in Readers : reader[u] # "open" => got[u] = {}
=============================================================================
