---------------------------- MODULE CObjectCache ----------------------------
(***************************************************************************)
(* One wrapper hierarchy of libei._cobject: its identity cache             *)
(* (_instances, a WeakValueDictionary under _instances_lock), the wrappers *)
(* with their weakref.finalize finalizers, and the reference counts of the *)
(* C library they stand for.                                               *)
(*                                                                         *)
(* The package has three shapes of hierarchy, told apart by two constants: *)
(*   HasRef, Wrappable   Region, Keymap, Device, Seat, Ping, Client        *)
(*   ~HasRef, Wrappable  Event, Touch (_unref_func only)                   *)
(*   ~HasRef, ~Wrappable Context/Sender/Receiver, Eis (cls(cls._new()))    *)
(*                                                                         *)
(* Threads run Python; a C call and a lock release are points where        *)
(* another thread may run, and so is the moment between the death of a     *)
(* wrapper and its finalizer.                                              *)
(***************************************************************************)
EXTENDS Integers, FiniteSets

CONSTANTS Threads,    \* Python threads
          Pointers,   \* addresses the C library hands out
          Wrappers,   \* Python wrapper objects, reused once collected
          NULL,
          HasRef,     \* _ref_func is not None
          Wrappable,  \* _wrappable
          MaxGen      \* bound: objects allocated at one address

ASSUME FiniteAssumption == IsFiniteSet(Threads) /\ IsFiniteSet(Wrappers)
ASSUME NullAssumption   == NULL \notin Threads \cup Pointers \cup Wrappers
ASSUME ShapeAssumption  == /\ HasRef \in BOOLEAN
                           /\ Wrappable \in BOOLEAN
                           /\ HasRef => Wrappable
                           /\ MaxGen \in Nat

VARIABLES
  refs,   \* refs[p]: the C reference count of the object at p; 0 is freed
  lib,    \* lib[p]: one of those references is the library's own
  gen,    \* gen[p]: how many objects have lived at p
  lock,   \* holder of _instances_lock
  cache,  \* _instances: pointer -> live wrapper
  life,   \* "free" | "live" | "dead" (unreachable, finalizer still to run)
  ptr,    \* _pointer, NULL once released
  key,    \* the pointer the finalizer was given (_hash_key)
  fin,    \* _finalizer: "none" | "armed" | "called"
  born,   \* gen of the object the wrapper was built for
  pc, arg, self, adopt,   \* per thread: the call in progress and its locals
  held    \* held[t]: wrappers the program refers to from thread t

cvars == <<refs, lib, gen>>
wvars == <<life, ptr, key, fin, born>>
tvars == <<pc, arg, self, adopt>>
vars  == <<refs, lib, gen, lock, cache, life, ptr, key, fin, born,
           pc, arg, self, adopt, held>>

PC == {"idle",      \* outside the package
       "lookup",    \* in _get_or_create, before the lock
       "construct", \* about to call cls(pointer) directly
       "init",      \* in __init__, before _ref_func
       "register",  \* in __init__, before the self-registration
       "call",      \* in a bound C function
       "evict",     \* in release, _pointer zeroed, lock held
       "unref"}     \* in release, lock dropped, finalizer to be called

TypeOK ==
  /\ refs  \in [Pointers -> Nat]
  /\ lib   \in [Pointers -> BOOLEAN]
  /\ gen   \in [Pointers -> 0..MaxGen]
  /\ lock  \in Threads \cup {NULL}
  /\ cache \in [Pointers -> Wrappers \cup {NULL}]
  /\ life  \in [Wrappers -> {"free", "live", "dead"}]
  /\ ptr   \in [Wrappers -> Pointers \cup {NULL}]
  /\ key   \in [Wrappers -> Pointers \cup {NULL}]
  /\ fin   \in [Wrappers -> {"none", "armed", "called"}]
  /\ born  \in [Wrappers -> 0..MaxGen]
  /\ pc    \in [Threads -> PC]
  /\ arg   \in [Threads -> Pointers \cup {NULL}]
  /\ self  \in [Threads -> Wrappers \cup {NULL}]
  /\ adopt \in [Threads -> BOOLEAN]
  /\ held  \in [Threads -> SUBSET Wrappers]

Init ==
  /\ refs  = [p \in Pointers |-> 0]
  /\ lib   = [p \in Pointers |-> FALSE]
  /\ gen   = [p \in Pointers |-> 0]
  /\ lock  = NULL
  /\ cache = [p \in Pointers |-> NULL]
  /\ life  = [w \in Wrappers |-> "free"]
  /\ ptr   = [w \in Wrappers |-> NULL]
  /\ key   = [w \in Wrappers |-> NULL]
  /\ fin   = [w \in Wrappers |-> "none"]
  /\ born  = [w \in Wrappers |-> 0]
  /\ pc    = [t \in Threads |-> "idle"]
  /\ arg   = [t \in Threads |-> NULL]
  /\ self  = [t \in Threads |-> NULL]
  /\ adopt = [t \in Threads |-> FALSE]
  /\ held  = [t \in Threads |-> {}]

-----------------------------------------------------------------------------
(* The C library (external): it allocates at a free address, keeps an      *)
(* object while something of its own refers to it, and hands out pointers. *)

Allocate(p, kept) ==
  /\ refs[p] = 0
  /\ gen[p] < MaxGen
  /\ refs' = [refs EXCEPT ![p] = 1]
  /\ gen'  = [gen  EXCEPT ![p] = @ + 1]
  /\ lib'  = [lib  EXCEPT ![p] = kept]

(* A getter's result stays valid until wrap() has taken its own reference: *)
(* the wrapper the getter was called on keeps its children alive.          *)
BeingBorrowed(p) ==
  \E t \in Threads : pc[t] \in {"lookup", "init"} /\ arg[t] = p /\ ~adopt[t]

(* An object the peer or the server created, e.g. a seat or a device.      *)
LibCreate(p) ==
  /\ HasRef
  /\ Allocate(p, TRUE)
  /\ UNCHANGED <<lock, cache, wvars, tvars, held>>

(* The library takes a reference on an object the program made, as         *)
(* eis_device_add() does; from then on getters return it.                  *)
LibTake(t, p) ==
  /\ HasRef
  /\ pc[t] = "idle"
  /\ ~lib[p]
  /\ \E w \in held[t] : ptr[w] = p
  /\ lib'  = [lib  EXCEPT ![p] = TRUE]
  /\ refs' = [refs EXCEPT ![p] = @ + 1]
  /\ UNCHANGED <<gen, lock, cache, wvars, tvars, held>>

LibDrop(p) ==
  /\ lib[p]
  /\ ~BeingBorrowed(p)
  /\ lib'  = [lib  EXCEPT ![p] = FALSE]
  /\ refs' = [refs EXCEPT ![p] = @ - 1]
  /\ UNCHANGED <<gen, lock, cache, wvars, tvars, held>>

-----------------------------------------------------------------------------
(* wrap(), adopt() and direct construction.                                *)

Return(t) ==
  /\ pc'    = [pc    EXCEPT ![t] = "idle"]
  /\ arg'   = [arg   EXCEPT ![t] = NULL]
  /\ self'  = [self  EXCEPT ![t] = NULL]
  /\ adopt' = [adopt EXCEPT ![t] = FALSE]

(* X.wrap(getter(...)): a borrowed pointer.                                *)
GetBorrowed(t, p) ==
  /\ pc[t] = "idle"
  /\ HasRef
  /\ lib[p]
  /\ pc'  = [pc  EXCEPT ![t] = "lookup"]
  /\ arg' = [arg EXCEPT ![t] = p]
  /\ UNCHANGED <<cvars, lock, cache, wvars, self, adopt, held>>

(* X.adopt(constructor(...)), Event.wrap(get_event()) or cls(cls._new()):  *)
(* the pointer is new and comes with a reference.  No caller adopts a      *)
(* pointer that is known already.                                          *)
GetOwned(t, p) ==
  /\ pc[t] = "idle"
  /\ Allocate(p, FALSE)
  /\ pc'    = [pc    EXCEPT ![t] = IF Wrappable THEN "lookup" ELSE "construct"]
  /\ arg'   = [arg   EXCEPT ![t] = p]
  /\ adopt' = [adopt EXCEPT ![t] = TRUE]
  /\ UNCHANGED <<lock, cache, wvars, self, held>>

(* _get_or_create, lock taken, and the pointer has a wrapper.              *)
GetOrCreateHit(t) ==
  /\ pc[t] = "lookup"
  /\ lock = NULL
  /\ cache[arg[t]] # NULL
  /\ held' = [held EXCEPT ![t] = @ \cup {cache[arg[t]]}]
  /\ Return(t)
  /\ UNCHANGED <<cvars, lock, cache, wvars>>

(* A Python object w with its fields set by the first lines of __init__.   *)
NewWrapper(t, w) ==
  /\ life[w] = "free"
  /\ life' = [life EXCEPT ![w] = "live"]
  /\ ptr'  = [ptr  EXCEPT ![w] = arg[t]]
  /\ key'  = [key  EXCEPT ![w] = arg[t]]
  /\ born' = [born EXCEPT ![w] = gen[arg[t]]]
  /\ self' = [self EXCEPT ![t] = w]
  /\ pc'   = [pc   EXCEPT ![t] = "init"]
  /\ UNCHANGED fin

(* Mutant of GetOrCreateMiss: the cache is searched without the lock.      *)
MissUnlocked(t, w) ==
  /\ pc[t] = "lookup"
  /\ cache[arg[t]] = NULL
  /\ NewWrapper(t, w)
  /\ UNCHANGED <<cvars, lock, cache, arg, adopt, held>>

(* _get_or_create, lock taken and kept: no wrapper, so build one.          *)
GetOrCreateMiss(t, w) ==
  /\ pc[t] = "lookup"
  /\ lock = NULL
  /\ cache[arg[t]] = NULL
  /\ lock' = t
  /\ NewWrapper(t, w)
  /\ UNCHANGED <<cvars, cache, arg, adopt, held>>

(* cls(pointer) called directly: no lock yet.                              *)
Construct(t, w) ==
  /\ pc[t] = "construct"
  /\ NewWrapper(t, w)
  /\ UNCHANGED <<cvars, lock, cache, arg, adopt, held>>

(* Mutants of TakesRef: adopt() takes a reference too; nobody takes one.   *)
TakesRefAlways(t) == HasRef
TakesRefNever(t)  == FALSE

TakesRef(t) == HasRef /\ ~adopt[t]

(* __init__: _ref_func unless adopting, then weakref.finalize.             *)
InitRef(t) ==
  /\ pc[t] = "init"
  /\ refs' = IF TakesRef(t) THEN [refs EXCEPT ![arg[t]] = @ + 1] ELSE refs
  /\ fin'  = [fin EXCEPT ![self[t]] = "armed"]
  /\ pc'   = [pc  EXCEPT ![t] = "register"]
  /\ UNCHANGED <<lib, gen, lock, cache, life, ptr, key, born,
                 arg, self, adopt, held>>

(* __init__: self-registration (the lock is reentrant), then the return    *)
(* from __init__ and from _get_or_create, which drops the lock.            *)
InitRegister(t) ==
  /\ pc[t] = "register"
  /\ lock \in {NULL, t}
  /\ lock'  = NULL
  /\ cache' = [cache EXCEPT ![arg[t]] = self[t]]
  /\ held'  = [held  EXCEPT ![t] = @ \cup {self[t]}]
  /\ Return(t)
  /\ UNCHANGED <<cvars, wvars>>

-----------------------------------------------------------------------------
(* Passing a wrapper to a bound C function, through _as_parameter_.        *)

(* Mutant of CallStart: _as_parameter_ does not check for a release.       *)
CallUnchecked(t, w) ==
  /\ pc[t] = "idle"
  /\ w \in held[t]
  /\ pc'   = [pc   EXCEPT ![t] = "call"]
  /\ arg'  = [arg  EXCEPT ![t] = key[w]]
  /\ self' = [self EXCEPT ![t] = w]
  /\ UNCHANGED <<cvars, lock, cache, wvars, adopt, held>>

CallStart(t, w) ==
  /\ pc[t] = "idle"
  /\ w \in held[t]
  /\ ptr[w] # NULL
  /\ pc'   = [pc   EXCEPT ![t] = "call"]
  /\ arg'  = [arg  EXCEPT ![t] = key[w]]
  /\ self' = [self EXCEPT ![t] = w]
  /\ UNCHANGED <<cvars, lock, cache, wvars, adopt, held>>

CallEnd(t) ==
  /\ pc[t] = "call"
  /\ Return(t)
  /\ UNCHANGED <<cvars, lock, cache, wvars, held>>

-----------------------------------------------------------------------------
(* release(), in the three parts another thread can tell apart.            *)

(* The program's part of the contract: a wrapper is not released while     *)
(* another thread is inside a C call on it.                                *)
InUse(w) == \E t \in Threads : pc[t] = "call" /\ self[t] = w

(* Mutant of ReleaseInvalidate: _pointer zeroed before the lock is taken.  *)
InvalidateUnlocked(t, w) ==
  /\ pc[t] = "idle"
  /\ w \in held[t]
  /\ ~InUse(w)
  /\ ptr[w] # NULL
  /\ ptr'  = [ptr  EXCEPT ![w] = NULL]
  /\ pc'   = [pc   EXCEPT ![t] = "evict"]
  /\ arg'  = [arg  EXCEPT ![t] = ptr[w]]
  /\ self' = [self EXCEPT ![t] = w]
  /\ UNCHANGED <<cvars, lock, cache, life, key, fin, born, adopt, held>>

ReleaseInvalidate(t, w) ==
  /\ pc[t] = "idle"
  /\ w \in held[t]
  /\ ~InUse(w)
  /\ lock = NULL
  /\ ptr[w] # NULL
  /\ lock' = t
  /\ ptr'  = [ptr  EXCEPT ![w] = NULL]
  /\ pc'   = [pc   EXCEPT ![t] = "evict"]
  /\ arg'  = [arg  EXCEPT ![t] = ptr[w]]
  /\ self' = [self EXCEPT ![t] = w]
  /\ UNCHANGED <<cvars, cache, life, key, fin, born, adopt, held>>

ReleaseEvict(t) ==
  /\ pc[t] = "evict"
  /\ cache' = IF cache[arg[t]] = self[t]
              THEN [cache EXCEPT ![arg[t]] = NULL] ELSE cache
  /\ lock'  = NULL
  /\ pc'    = [pc EXCEPT ![t] = "unref"]
  /\ UNCHANGED <<cvars, wvars, arg, self, adopt, held>>

(* self._finalizer(): weakref.finalize runs its callback at most once.     *)
ReleaseUnref(t) ==
  /\ pc[t] = "unref"
  /\ IF fin[self[t]] = "armed"
     THEN /\ refs' = [refs EXCEPT ![key[self[t]]] = @ - 1]
          /\ fin'  = [fin  EXCEPT ![self[t]] = "called"]
     ELSE UNCHANGED <<refs, fin>>
  /\ Return(t)
  /\ UNCHANGED <<lib, gen, lock, cache, life, ptr, key, born, held>>

-----------------------------------------------------------------------------
(* The program's references and the garbage collector.                     *)

Share(t, u, w) ==
  /\ pc[t] = "idle"
  /\ w \in held[t]
  /\ held' = [held EXCEPT ![u] = @ \cup {w}]
  /\ UNCHANGED <<cvars, lock, cache, wvars, tvars>>

Drop(t, w) ==
  /\ pc[t] = "idle"
  /\ w \in held[t]
  /\ held' = [held EXCEPT ![t] = @ \ {w}]
  /\ UNCHANGED <<cvars, lock, cache, wvars, tvars>>

(* Mutant of Collect: a cache that keeps its wrappers alive.               *)
CollectUncached(w) ==
  /\ life[w] = "live"
  /\ \A t \in Threads : w \notin held[t] /\ self[t] # w
  /\ \A p \in Pointers : cache[p] # w
  /\ life' = [life EXCEPT ![w] = "dead"]
  /\ UNCHANGED <<cvars, lock, cache, ptr, key, fin, born, tvars, held>>

(* The last strong reference is gone: every weak reference is cleared, so  *)
(* the cache no longer finds the wrapper; the finalizer has yet to run.    *)
Collect(w) ==
  /\ life[w] = "live"
  /\ \A t \in Threads : w \notin held[t] /\ self[t] # w
  /\ life'  = [life EXCEPT ![w] = "dead"]
  /\ cache' = [p \in Pointers |-> IF cache[p] = w THEN NULL ELSE cache[p]]
  /\ UNCHANGED <<cvars, lock, ptr, key, fin, born, tvars, held>>

Finalize(w) ==
  /\ life[w] = "dead"
  /\ refs' = IF fin[w] = "armed" THEN [refs EXCEPT ![key[w]] = @ - 1] ELSE refs
  /\ life' = [life EXCEPT ![w] = "free"]
  /\ ptr'  = [ptr  EXCEPT ![w] = NULL]
  /\ key'  = [key  EXCEPT ![w] = NULL]
  /\ fin'  = [fin  EXCEPT ![w] = "none"]
  /\ born' = [born EXCEPT ![w] = 0]
  /\ UNCHANGED <<lib, gen, lock, cache, tvars, held>>

-----------------------------------------------------------------------------
Library == \E p \in Pointers : \/ LibCreate(p)
                               \/ LibDrop(p)
                               \/ \E t \in Threads : LibTake(t, p)

Thread(t) == \/ \E p \in Pointers : GetBorrowed(t, p) \/ GetOwned(t, p)
             \/ GetOrCreateHit(t)
             \/ \E w \in Wrappers : GetOrCreateMiss(t, w) \/ Construct(t, w)
             \/ InitRef(t)
             \/ InitRegister(t)
             \/ \E w \in Wrappers : CallStart(t, w)
             \/ CallEnd(t)
             \/ \E w \in Wrappers : ReleaseInvalidate(t, w)
             \/ ReleaseEvict(t)
             \/ ReleaseUnref(t)
             \/ \E w \in Wrappers : Drop(t, w)
             \/ \E u \in Threads, w \in Wrappers : Share(t, u, w)

Collector == \E w \in Wrappers : Collect(w) \/ Finalize(w)

(* What a thread inside the package does next without anybody's leave.     *)
Inside(t) == \/ InitRef(t) \/ InitRegister(t) \/ CallEnd(t)
             \/ ReleaseEvict(t) \/ ReleaseUnref(t)

Next == \/ Library
        \/ \E t \in Threads : Thread(t)
        \/ Collector

Spec == Init /\ [][Next]_vars

-----------------------------------------------------------------------------
(* Properties.                                                             *)

(* CObject.__eq__ of two wrappers of one class: a released wrapper stands  *)
(* for no object and equals itself alone.                                  *)
Equal(v, w) == IF NULL \in {ptr[v], ptr[w]} THEN v = w ELSE ptr[v] = ptr[w]

Stands(w, p) == life[w] = "live" /\ ptr[w] = p

Holders(p) == {w \in Wrappers : fin[w] = "armed" /\ key[w] = p}
Owners(p)  == {t \in Threads : /\ pc[t] \in {"lookup", "construct", "init"}
                               /\ arg[t] = p
                               /\ adopt[t]}

(* Every reference the C library counts is accounted for: one for each     *)
(* wrapper whose finalizer has still to run, one for each owned pointer on *)
(* its way into a wrapper, one for the library.  A leak, a second unref    *)
(* for one reference or an adopted pointer that finds a wrapper already    *)
(* cached (_cobject.py:71-87, 222-236) breaks the equation.                *)
RefBalance ==
  \A p \in Pointers :
    refs[p] = Cardinality(Holders(p)) + Cardinality(Owners(p))
              + (IF lib[p] THEN 1 ELSE 0)

(* A wrapper whose _pointer is set stands for the object it was built for: *)
(* that object has not been freed and its address not reused.  This is the *)
(* stale wrapper of the class docstring (_cobject.py:33-41).               *)
NoStaleWrapper ==
  \A w \in Wrappers :
    life[w] = "live" /\ ptr[w] # NULL
      => refs[ptr[w]] > 0 /\ gen[ptr[w]] = born[w]

(* Wrappers are equal only if they are one, however they were made: no     *)
(* object has two finalizers, `is` answers whether two names mean one C    *)
(* object (_cobject.py:22-27), and a released wrapper equals no other.     *)
OneWrapper ==
  \A v, w \in Wrappers :
    life[v] = "live" /\ life[w] = "live" /\ Equal(v, w) => v = w

(* A C function is never entered, and never finds itself, with a pointer   *)
(* to an object already freed (_cobject.py:124-132), as long as nobody     *)
(* releases a wrapper another thread is using.                             *)
CallsOnLive ==
  \A t \in Threads :
    pc[t] = "call" => refs[arg[t]] > 0 /\ gen[arg[t]] = born[self[t]]

(* Whoever can take the lock finds only valid wrappers in the cache: a     *)
(* wrapper that release() has invalidated is never handed out again        *)
(* (_cobject.py:149-159).                                                  *)
CacheValid ==
  lock = NULL => \A p \in Pointers : cache[p] # NULL => Stands(cache[p], p)

(* An object that neither the library nor the program refers to any more   *)
(* is freed: no reference is left behind in a cache or a finalizer.        *)
Abandoned(p) ==
  /\ ~lib[p]
  /\ \A t \in Threads : arg[t] # p /\ \A w \in held[t] : ptr[w] # p

Reclaimed == \A p \in Pointers : Abandoned(p) ~> refs[p] = 0

(* The hierarchy keeps the promise ObjectIdentity states: an object is     *)
(* alive while its count is positive, and the wrapper that stands for it   *)
(* is the cached one whose _pointer is set.                                *)
AliveSet == {p \in Pointers : refs[p] > 0}
ProxyMap == [p \in Pointers |->
               IF cache[p] # NULL /\ ptr[cache[p]] = p THEN cache[p] ELSE NULL]

Identity == INSTANCE ObjectIdentity WITH alive <- AliveSet, proxy <- ProxyMap

(* wrap(), adopt(), release() and the collector, step by step, do what     *)
(* ObjectIdentity allows (_cobject.py:22-27).                              *)
KeepsIdentity == Identity!Spec

-----------------------------------------------------------------------------
(* The inductive invariant behind the safety properties, in parts; proved  *)
(* in CObjectCacheProofs.                                                  *)

Building(t) == pc[t] \in {"init", "register"}
Getting(t)  == pc[t] \in {"lookup", "construct"} \/ Building(t)

(* What the fields of a wrapper say about each other.                      *)
WrapperInv ==
  \A w \in Wrappers :
    /\ life[w] = "free" => ptr[w] = NULL /\ key[w] = NULL /\ fin[w] = "none"
    /\ life[w] # "free" => key[w] # NULL
    /\ ptr[w] # NULL => ptr[w] = key[w]
    /\ fin[w] = "called" => ptr[w] = NULL
    /\ fin[w] = "armed" => born[w] = gen[key[w]]
    /\ life[w] = "live" /\ fin[w] = "none"
         => \E t \in Threads : pc[t] = "init" /\ self[t] = w

(* What the locals of a thread say about the call it is in.                *)
ThreadInv ==
  \A t \in Threads :
    /\ pc[t] = "idle" => arg[t] = NULL /\ self[t] = NULL
    /\ ~Getting(t) => ~adopt[t]
    /\ pc[t] # "idle" => arg[t] \in Pointers
    /\ pc[t] \in {"lookup", "construct"} => self[t] = NULL
    /\ pc[t] = "lookup" => Wrappable
    /\ pc[t] = "construct" => ~Wrappable /\ adopt[t]
    /\ Building(t) /\ ~Wrappable => adopt[t]
    /\ pc[t] \in {"init", "register", "call", "evict", "unref"}
         => /\ self[t] \in Wrappers
            /\ life[self[t]] = "live"
            /\ key[self[t]] = arg[t]
    /\ pc[t] \in {"init", "register", "call"} => ptr[self[t]] = arg[t]
    /\ pc[t] \in {"evict", "unref"} => ptr[self[t]] = NULL
    /\ pc[t] = "init" => fin[self[t]] = "none" /\ born[self[t]] = gen[arg[t]]
    /\ pc[t] \in {"register", "call"} => fin[self[t]] = "armed"
    /\ pc[t] = "unref" => \A p \in Pointers : cache[p] # self[t]
    /\ pc[t] \in {"lookup", "init"} /\ ~adopt[t] => HasRef /\ lib[arg[t]]

LockInv ==
  \A t \in Threads :
    /\ lock = t => Building(t) \/ pc[t] = "evict"
    /\ pc[t] = "evict" => lock = t
    /\ Building(t) /\ Wrappable => lock = t

(* A wrapper in construction is seen by its own thread alone.              *)
BuildInv ==
  \A t \in Threads :
    Building(t) =>
      /\ cache[arg[t]] = NULL
      /\ \A p \in Pointers : cache[p] # self[t]
      /\ \A u \in Threads : self[t] \notin held[u]
      /\ \A u \in Threads \ {t} : self[u] # self[t]

HeldInv ==
  \A t \in Threads : \A w \in held[t] : life[w] = "live" /\ fin[w] # "none"

CacheInv ==
  \A p \in Pointers :
    cache[p] # NULL =>
      /\ life[cache[p]] = "live"
      /\ key[cache[p]] = p
      /\ fin[cache[p]] = "armed"
      /\ \/ ptr[cache[p]] = p
         \/ \E t \in Threads : pc[t] = "evict" /\ self[t] = cache[p]

RegisteredInv ==
  \A w \in Wrappers :
    /\ life[w] = "live"
    /\ ptr[w] # NULL
    /\ \A t \in Threads : Building(t) => self[t] # w
    => cache[ptr[w]] = w

(* An owned pointer on its way into a wrapper is known to nobody else.     *)
OwnerInv ==
  \A t \in Threads :
    Getting(t) /\ adopt[t] =>
      /\ ~lib[arg[t]]
      /\ cache[arg[t]] = NULL
      /\ \A w \in Wrappers : fin[w] = "armed" /\ key[w] = arg[t]
                               => pc[t] = "register" /\ w = self[t]
      /\ \A u \in Threads \ {t} : Getting(u) => arg[u] # arg[t]

(* TypeOK and every part hold together: what a wrapper, the cache, the     *)
(* lock and the reference counts say of each other in every reachable      *)
(* state, also halfway through wrap(), release() and a collection.         *)
IInv == /\ TypeOK
        /\ WrapperInv
        /\ ThreadInv
        /\ LockInv
        /\ BuildInv
        /\ HeldInv
        /\ CacheInv
        /\ RegisteredInv
        /\ OwnerInv
        /\ RefBalance
=============================================================================
