----------------------------- MODULE LazyLoader -----------------------------
(***************************************************************************)
(* LazyLibrary: the native library is opened at the first call made        *)
(* through any of its bindings, and each binding is resolved and given its *)
(* C types at its own first call, by as many threads as call it.           *)
(*                                                                         *)
(* The threads interleave between bytecodes and in dlopen(), which lets go *)
(* of the interpreter lock.  A library object hands out one function       *)
(* object per name, so that all threads type the same one.                 *)
(***************************************************************************)
EXTENDS Naturals

CONSTANTS Threads, Names, NULL

ASSUME NullAssumption == NULL \notin Threads \cup Names

VARIABLES
  installed, \* dlopen() would succeed
  exports,   \* the names the installed library exports
  lib,       \* _lib is not None
  loadError, \* _load_error is not None
  lock,      \* holder of _lock
  opens,     \* how often dlopen() was called
  typed,     \* typed[n]: which of argtypes, restype the function object has
  cached,    \* the names with a filled cache["f"]
  pc, name,  \* per thread; name NULL: is_available()
  answer     \* how the last call of the thread ended

vars == <<installed, exports, lib, loadError, lock, opens, typed, cached,
          pc, name, answer>>

(* "fast", "lock", "again", "open": in _ensure_loaded; "resolve", "arg",   *)
(* "res", "keep": in call(), to getattr, set argtypes, set restype and     *)
(* fill the cache; "call": in the C function.                              *)
PC == {"idle", "fast", "lock", "again", "open", "resolve", "arg", "res",
       "keep", "call"}

Types == {"argtypes", "restype"}

TypeOK ==
  /\ installed \in BOOLEAN
  /\ exports   \subseteq Names
  /\ lib       \in BOOLEAN
  /\ loadError \in BOOLEAN
  /\ lock      \in Threads \cup {NULL}
  /\ opens     \in Nat
  /\ typed     \in [Names -> SUBSET Types]
  /\ cached    \subseteq Names
  /\ pc        \in [Threads -> PC]
  /\ name      \in [Threads -> Names \cup {NULL}]
  /\ answer    \in [Threads -> {"none", "found", "missing"}]

Init ==
  /\ installed \in BOOLEAN
  /\ exports   \in SUBSET Names
  /\ lib       = FALSE
  /\ loadError = FALSE
  /\ lock      = NULL
  /\ opens     = 0
  /\ typed     = [n \in Names |-> {}]
  /\ cached    = {}
  /\ pc        = [t \in Threads |-> "idle"]
  /\ name      = [t \in Threads |-> NULL]
  /\ answer    = [t \in Threads |-> "none"]

-----------------------------------------------------------------------------
Goto(t, l) == pc' = [pc EXCEPT ![t] = l]

(* call() looks at its cache; is_available() goes straight to the library. *)
CallBinding(t, n) ==
  /\ pc[t] = "idle"
  /\ name' = [name EXCEPT ![t] = n]
  /\ Goto(t, IF n \in cached THEN "call" ELSE "fast")
  /\ UNCHANGED <<installed, exports, lib, loadError, lock, opens, typed, cached,
                 answer>>

IsAvailable(t) ==
  /\ pc[t] = "idle"
  /\ name' = [name EXCEPT ![t] = NULL]
  /\ Goto(t, "fast")
  /\ UNCHANGED <<installed, exports, lib, loadError, lock, opens, typed, cached,
                 answer>>

(* _ensure_loaded returns: on to the function, or back to the caller.      *)
Loaded(t) ==
  /\ Goto(t, IF name[t] = NULL THEN "idle" ELSE "resolve")
  /\ answer' = IF name[t] = NULL THEN [answer EXCEPT ![t] = "found"] ELSE answer

(* LibraryNotFoundError, which is_available() turns into False.            *)
NotFound(t) ==
  /\ Goto(t, "idle")
  /\ answer' = [answer EXCEPT ![t] = "missing"]

(* The unlocked check.                                                     *)
FastPath(t) ==
  /\ pc[t] = "fast"
  /\ IF lib THEN Loaded(t) ELSE Goto(t, "lock") /\ UNCHANGED answer
  /\ UNCHANGED <<installed, exports, lib, loadError, lock, opens, typed, cached,
                 name>>

(* Mutant of Acquire: a thread that finds the lock taken gives up.         *)
AcquireOrFail(t) ==
  /\ pc[t] = "lock"
  /\ IF lock = NULL THEN lock' = t /\ Goto(t, "again") /\ UNCHANGED answer
                    ELSE NotFound(t) /\ UNCHANGED lock
  /\ UNCHANGED <<installed, exports, lib, loadError, opens, typed, cached, name>>

Acquire(t) ==
  /\ pc[t] = "lock"
  /\ lock = NULL
  /\ lock' = t
  /\ Goto(t, "again")
  /\ UNCHANGED <<installed, exports, lib, loadError, opens, typed, cached, name,
                 answer>>

(* Mutant of CheckAgain: _lib is not read again.                           *)
CheckOnce(t) ==
  /\ pc[t] = "again"
  /\ IF loadError THEN NotFound(t) /\ lock' = NULL
     ELSE Goto(t, "open") /\ UNCHANGED <<lock, answer>>
  /\ UNCHANGED <<installed, exports, lib, loadError, opens, typed, cached, name>>

(* The repeated check inside the lock, and the cached failure.             *)
CheckAgain(t) ==
  /\ pc[t] = "again"
  /\ IF lib THEN Loaded(t) /\ lock' = NULL
     ELSE IF loadError THEN NotFound(t) /\ lock' = NULL
     ELSE Goto(t, "open") /\ UNCHANGED <<lock, answer>>
  /\ UNCHANGED <<installed, exports, lib, loadError, opens, typed, cached, name>>

Dlopen(t) ==
  /\ pc[t] = "open"
  /\ opens'     = opens + 1
  /\ lib'       = installed
  /\ loadError' = ~installed
  /\ lock'      = NULL
  /\ IF installed THEN Loaded(t) ELSE NotFound(t)
  /\ UNCHANGED <<installed, exports, typed, cached, name>>

(* Mutant of Resolve: a missing symbol is looked for until it is there.    *)
ResolveRetries(t) ==
  /\ pc[t] = "resolve"
  /\ Goto(t, IF name[t] \in exports THEN "arg" ELSE "fast")
  /\ UNCHANGED <<installed, exports, lib, loadError, lock, opens, typed, cached,
                 name, answer>>

(* getattr(lib, name): a missing symbol is looked up again at every call.  *)
Resolve(t) ==
  /\ pc[t] = "resolve"
  /\ IF name[t] \in exports THEN Goto(t, "arg") /\ UNCHANGED answer
                            ELSE NotFound(t)
  /\ UNCHANGED <<installed, exports, lib, loadError, lock, opens, typed, cached,
                 name>>

SetType(t, type, next) ==
  /\ typed' = [typed EXCEPT ![name[t]] = @ \cup {type}]
  /\ Goto(t, next)
  /\ UNCHANGED <<installed, exports, lib, loadError, lock, opens, cached, name,
                 answer>>

(* Mutant of SetArgtypes: the cache is filled as soon as the function was  *)
(* found.                                                                  *)
SetArgtypesCached(t) ==
  /\ pc[t] = "arg"
  /\ typed'  = [typed EXCEPT ![name[t]] = @ \cup {"argtypes"}]
  /\ cached' = cached \cup {name[t]}
  /\ Goto(t, "res")
  /\ UNCHANGED <<installed, exports, lib, loadError, lock, opens, name, answer>>

SetArgtypes(t) == pc[t] = "arg" /\ SetType(t, "argtypes", "res")

SetRestype(t) == pc[t] = "res" /\ SetType(t, "restype", "keep")

Keep(t) ==
  /\ pc[t] = "keep"
  /\ cached' = cached \cup {name[t]}
  /\ Goto(t, "call")
  /\ UNCHANGED <<installed, exports, lib, loadError, lock, opens, typed, name,
                 answer>>

CReturns(t) ==
  /\ pc[t] = "call"
  /\ Goto(t, "idle")
  /\ answer' = [answer EXCEPT ![t] = "found"]
  /\ UNCHANGED <<installed, exports, lib, loadError, lock, opens, typed, cached,
                 name>>

-----------------------------------------------------------------------------
Inside(t) == \/ FastPath(t) \/ Acquire(t) \/ CheckAgain(t) \/ Dlopen(t)
             \/ Resolve(t) \/ SetArgtypes(t) \/ SetRestype(t) \/ Keep(t)
             \/ CReturns(t)

Next == \E t \in Threads : \/ \E n \in Names : CallBinding(t, n)
                           \/ IsAvailable(t)
                           \/ Inside(t)

Spec == Init /\ [][Next]_vars

(* A thread inside the package keeps running, and the lock is handed to    *)
(* whoever waits for it: a thread that waits is not passed over for ever,  *)
(* for after the first dlopen() the others hold it for an instant.         *)
FairSpec == /\ Spec
            /\ \A t \in Threads : WF_vars(Inside(t)) /\ SF_vars(Acquire(t))

-----------------------------------------------------------------------------
(* Properties.                                                             *)

(* dlopen() is called once, whether it succeeds or fails and however many  *)
(* threads come first (loader.py:41-58).                                   *)
OpensOnce == opens <= 1

(* No thread enters a C function before the function object has both its   *)
(* argument types and its result type: without them ctypes would pass and  *)
(* return pointers as 32-bit ints (loader.py:130-132).                     *)
TypedBeforeCall == \A t \in Threads : pc[t] = "call" => typed[name[t]] = Types

(* All threads get the same answer, the true one: a binding is missing     *)
(* exactly if the library is not installed or does not export it           *)
(* (loader.py:66-77, 123-129).                                             *)
Present(n) == installed /\ (n = NULL \/ n \in exports)

AnswersAgree ==
  \A t \in Threads :
    pc[t] = "idle" /\ answer[t] # "none"
      => answer[t] = IF Present(name[t]) THEN "found" ELSE "missing"

(* Every call comes back: nobody waits for ever for the lock of a load     *)
(* that failed (loader.py:48-64).                                          *)
CallsReturn == \A t \in Threads : pc[t] # "idle" ~> pc[t] = "idle"

-----------------------------------------------------------------------------
(* The inductive invariant behind OpensOnce and TypedBeforeCall, in parts; *)
(* proved in LazyLoaderProofs.                                             *)

LoadInv ==
  /\ opens = IF lib \/ loadError THEN 1 ELSE 0
  /\ lib => installed
  /\ loadError => ~installed

LockInv ==
  \A t \in Threads :
    /\ lock = t <=> pc[t] \in {"again", "open"}
    /\ pc[t] = "open" => ~lib /\ ~loadError

NameInv ==
  \A t \in Threads :
    pc[t] \in {"resolve", "arg", "res", "keep", "call"}
      => name[t] \in Names /\ lib

TypedInv ==
  /\ \A n \in cached : typed[n] = Types /\ n \in exports /\ lib
  /\ \A t \in Threads :
       /\ pc[t] \in {"arg", "res", "keep", "call"} => name[t] \in exports
       /\ pc[t] = "res" => "argtypes" \in typed[name[t]]
       /\ pc[t] \in {"keep", "call"} => typed[name[t]] = Types

(* What the flags, the lock, the cache and the function objects say of     *)
(* each other while threads load and bind.                                 *)
IInv == TypeOK /\ LoadInv /\ LockInv /\ NameInv /\ TypedInv /\ AnswersAgree
=============================================================================
