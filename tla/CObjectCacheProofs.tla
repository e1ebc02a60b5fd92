------------------------- MODULE CObjectCacheProofs -------------------------
(***************************************************************************)
(* Proofs about CObjectCache: its safety properties hold for any number of *)
(* threads, addresses and wrappers and for the three shapes of hierarchy.  *)
(*                                                                         *)
(* IInv is inductive.  One lemma per action shows that the action keeps    *)
(* it, with one step per part of IInv that the action can disturb.  The    *)
(* reference counts are tied to sets of holders, so the arithmetic is that *)
(* of adding an element to a finite set and of removing one.               *)
(***************************************************************************)
EXTENDS CObjectCache, FiniteSetTheorems, TLAPS

-----------------------------------------------------------------------------
(* Counting references.                                                    *)

(* The sets RefBalance counts are finite.                                  *)
LEMMA CountType ==
  ASSUME NEW p
  PROVE  /\ IsFiniteSet(Holders(p)) /\ Cardinality(Holders(p)) \in Nat
         /\ IsFiniteSet(Owners(p))  /\ Cardinality(Owners(p)) \in Nat
<1>1. Holders(p) \subseteq Wrappers /\ Owners(p) \subseteq Threads
  BY DEF Holders, Owners
<1>2. IsFiniteSet(Holders(p)) /\ IsFiniteSet(Owners(p))
  BY <1>1, FS_Subset, FiniteAssumption
<1> QED  BY <1>2, FS_CardinalityType

(* A freed object has no holder of any kind.                               *)
LEMMA FreedUnreferenced ==
  ASSUME RefBalance, NEW p \in Pointers, refs[p] = 0
  PROVE  Holders(p) = {} /\ Owners(p) = {} /\ ~lib[p]
<1>1. /\ Cardinality(Holders(p)) = 0
      /\ Cardinality(Owners(p)) = 0
      /\ ~lib[p]
  BY CountType DEF RefBalance
<1> QED  BY <1>1, CountType, FS_EmptySet

(* An object with a holder of some kind is not freed.                      *)
LEMMA ReferencedAlive ==
  ASSUME TypeOK, RefBalance, NEW p \in Pointers,
         Holders(p) # {} \/ Owners(p) # {} \/ lib[p]
  PROVE  refs[p] > 0
<1>1. refs[p] \in Nat
  BY DEF TypeOK
<1> QED  BY <1>1, FreedUnreferenced

(* A state change that touches no holder keeps the balance.                *)
LEMMA BalanceUnchanged ==
  ASSUME RefBalance,
         \A p \in Pointers : Holders(p)' = Holders(p) /\ Owners(p)' = Owners(p),
         UNCHANGED <<refs, lib>>
  PROVE  RefBalance'
  BY DEF RefBalance

-----------------------------------------------------------------------------
(* The C library.                                                          *)

(* What a new object at a free address finds: nobody refers to the place.  *)
LEMMA FreshAddress ==
  ASSUME IInv, NEW p \in Pointers, refs[p] = 0
  PROVE  /\ \A w \in Wrappers : ~(fin[w] = "armed" /\ key[w] = p)
         /\ \A t \in Threads : Getting(t) => arg[t] # p
         /\ ~lib[p]
         /\ cache[p] = NULL
<1>1. Holders(p) = {} /\ Owners(p) = {} /\ ~lib[p]
  BY FreedUnreferenced DEF IInv
<1>2. \A w \in Wrappers : ~(fin[w] = "armed" /\ key[w] = p)
  BY <1>1 DEF Holders
<1>3. \A t \in Threads : Getting(t) => arg[t] # p
  BY <1>1, <1>2 DEF Owners, IInv, ThreadInv, Getting, Building
<1>4. cache[p] = NULL
  BY <1>2 DEF IInv, CacheInv, TypeOK
<1> QED  BY <1>1, <1>2, <1>3, <1>4

(* A new object comes to an address nobody refers to.                      *)
LEMMA LibCreateStep ==
  ASSUME IInv, NEW p \in Pointers, LibCreate(p)
  PROVE  IInv'
<1>1. /\ \A w \in Wrappers : ~(fin[w] = "armed" /\ key[w] = p)
      /\ \A t \in Threads : Getting(t) => arg[t] # p
      /\ ~lib[p]
      /\ cache[p] = NULL
  BY FreshAddress DEF LibCreate, Allocate
<1>2. TypeOK'
  BY ShapeAssumption DEF IInv, TypeOK, LibCreate, Allocate, wvars, tvars
<1>3. WrapperInv'
  BY <1>1 DEF IInv, TypeOK, WrapperInv, LibCreate, Allocate, wvars, tvars
<1>4. ThreadInv'
  BY <1>1 DEF IInv, TypeOK, ThreadInv, LibCreate, Allocate, wvars, tvars, Getting, Building
<1>5. LockInv' /\ BuildInv' /\ HeldInv' /\ CacheInv' /\ RegisteredInv'
  BY DEF IInv, LockInv, BuildInv, HeldInv, CacheInv, RegisteredInv, LibCreate, wvars, tvars, Building
<1>6. OwnerInv'
  BY <1>1 DEF IInv, TypeOK, OwnerInv, LibCreate, Allocate, wvars, tvars, Getting, Building
<1>7. RefBalance'
  <2> SUFFICES ASSUME NEW q \in Pointers
               PROVE  refs'[q] = Cardinality(Holders(q)') + Cardinality(Owners(q)')
                                 + (IF lib'[q] THEN 1 ELSE 0)
    BY DEF RefBalance
  <2>1. Holders(q)' = Holders(q) /\ Owners(q)' = Owners(q)
    BY DEF Holders, Owners, LibCreate, wvars, tvars
  <2>2. refs[q] = Cardinality(Holders(q)) + Cardinality(Owners(q))
                  + (IF lib[q] THEN 1 ELSE 0)
    BY DEF IInv, RefBalance
  <2> QED  BY <1>1, <2>1, <2>2, CountType DEF IInv, TypeOK, LibCreate, Allocate
<1> QED  BY <1>2, <1>3, <1>4, <1>5, <1>6, <1>7 DEF IInv

(* Under LibTake(t, p), t holds a finished wrapper for p.                  *)
LEMMA HeldIsArmed ==
  ASSUME IInv, NEW t \in Threads, NEW w \in held[t], ptr[w] # NULL
  PROVE  /\ w \in Wrappers
         /\ life[w] = "live"
         /\ fin[w] = "armed"
         /\ key[w] = ptr[w]
         /\ ptr[w] \in Pointers
         /\ \A u \in Threads : Building(u) => self[u] # w
         /\ cache[ptr[w]] = w
<1>1. w \in Wrappers
  BY DEF IInv, TypeOK
<1>2. life[w] = "live" /\ fin[w] = "armed" /\ key[w] = ptr[w] /\ ptr[w] \in Pointers
  BY <1>1 DEF IInv, TypeOK, HeldInv, WrapperInv
<1>3. \A u \in Threads : Building(u) => self[u] # w
  BY DEF IInv, BuildInv
<1>4. cache[ptr[w]] = w
  BY <1>1, <1>2, <1>3 DEF IInv, RegisteredInv
<1> QED  BY <1>1, <1>2, <1>3, <1>4

(* The library's reference is one more than the balance had.               *)
LEMMA LibTakeStep ==
  ASSUME IInv, NEW t \in Threads, NEW p \in Pointers, LibTake(t, p)
  PROVE  IInv'
<1> PICK w \in held[t] : ptr[w] = p
  BY DEF LibTake
<1>1. /\ w \in Wrappers /\ fin[w] = "armed" /\ key[w] = p
      /\ \A u \in Threads : Building(u) => self[u] # w
  BY HeldIsArmed, NullAssumption
<1>2. TypeOK'
  BY DEF IInv, TypeOK, LibTake, wvars, tvars
<1>3. WrapperInv' /\ LockInv' /\ BuildInv' /\ HeldInv' /\ CacheInv' /\ RegisteredInv'
  BY DEF IInv, WrapperInv, LockInv, BuildInv, HeldInv, CacheInv, RegisteredInv, LibTake, wvars, tvars, Building
<1>4. ThreadInv'
  BY DEF IInv, TypeOK, ThreadInv, LibTake, wvars, tvars, Getting, Building
<1>5. OwnerInv'
  <2>1. \A u \in Threads : Getting(u) /\ adopt[u] => arg[u] # p
    BY <1>1 DEF IInv, OwnerInv, Building
  <2> QED  BY <2>1 DEF IInv, TypeOK, OwnerInv, LibTake, wvars, tvars, Getting, Building
<1>6. RefBalance'
  <2> SUFFICES ASSUME NEW q \in Pointers
               PROVE  refs'[q] = Cardinality(Holders(q)') + Cardinality(Owners(q)')
                                 + (IF lib'[q] THEN 1 ELSE 0)
    BY DEF RefBalance
  <2>1. Holders(q)' = Holders(q) /\ Owners(q)' = Owners(q)
    BY DEF Holders, Owners, LibTake, wvars, tvars
  <2>2. refs[q] = Cardinality(Holders(q)) + Cardinality(Owners(q))
                  + (IF lib[q] THEN 1 ELSE 0)
    BY DEF IInv, RefBalance
  <2> QED  BY <2>1, <2>2, CountType DEF IInv, TypeOK, LibTake
<1> QED  BY <1>2, <1>3, <1>4, <1>5, <1>6 DEF IInv

(* The library gives up its own reference and no other; nobody is halfway  *)
(* through wrapping the pointer.                                           *)
LEMMA LibDropStep ==
  ASSUME IInv, NEW p \in Pointers, LibDrop(p)
  PROVE  IInv'
<1>1. refs[p] > 0 /\ refs[p] \in Nat
  BY ReferencedAlive DEF IInv, TypeOK, LibDrop
<1>2. TypeOK'
  BY <1>1 DEF IInv, TypeOK, LibDrop, wvars, tvars
<1>3. WrapperInv' /\ LockInv' /\ BuildInv' /\ HeldInv' /\ CacheInv' /\ RegisteredInv'
  BY DEF IInv, WrapperInv, LockInv, BuildInv, HeldInv, CacheInv, RegisteredInv, LibDrop, wvars, tvars, Building
<1>4. ThreadInv'
  BY DEF IInv, TypeOK, ThreadInv, LibDrop, BeingBorrowed, wvars, tvars, Getting, Building
<1>5. OwnerInv'
  BY DEF IInv, TypeOK, OwnerInv, LibDrop, wvars, tvars, Getting, Building
<1>6. RefBalance'
  <2> SUFFICES ASSUME NEW q \in Pointers
               PROVE  refs'[q] = Cardinality(Holders(q)') + Cardinality(Owners(q)')
                                 + (IF lib'[q] THEN 1 ELSE 0)
    BY DEF RefBalance
  <2>1. Holders(q)' = Holders(q) /\ Owners(q)' = Owners(q)
    BY DEF Holders, Owners, LibDrop, wvars, tvars
  <2>2. refs[q] = Cardinality(Holders(q)) + Cardinality(Owners(q))
                  + (IF lib[q] THEN 1 ELSE 0)
    BY DEF IInv, RefBalance
  <2> QED  BY <2>1, <2>2, CountType DEF IInv, TypeOK, LibDrop
<1> QED  BY <1>2, <1>3, <1>4, <1>5, <1>6 DEF IInv

-----------------------------------------------------------------------------
(* Obtaining a wrapper.                                                    *)

(* A getter returns a pointer the library keeps alive.                     *)
LEMMA GetBorrowedStep ==
  ASSUME IInv, NEW t \in Threads, NEW p \in Pointers, GetBorrowed(t, p)
  PROVE  IInv'
<1>1. TypeOK'
  BY DEF IInv, TypeOK, GetBorrowed, cvars, wvars, PC
<1>2. WrapperInv'
  BY DEF IInv, TypeOK, WrapperInv, GetBorrowed, cvars, wvars
<1>3. ThreadInv'
  BY ShapeAssumption DEF IInv, TypeOK, ThreadInv, GetBorrowed, cvars, wvars, Getting, Building
<1>4. LockInv' /\ BuildInv' /\ HeldInv'
  BY DEF IInv, TypeOK, LockInv, BuildInv, HeldInv, GetBorrowed, cvars, wvars, Building
<1>5. CacheInv' /\ RegisteredInv'
  BY DEF IInv, TypeOK, CacheInv, RegisteredInv, GetBorrowed, cvars, wvars, Building
<1>6. OwnerInv'
  BY DEF IInv, TypeOK, ThreadInv, OwnerInv, GetBorrowed, cvars, wvars, Getting, Building
<1>7. RefBalance'
  <2>1. \A q \in Pointers : Holders(q)' = Holders(q)
    BY DEF Holders, GetBorrowed, wvars
  <2>2. \A q \in Pointers : Owners(q)' = Owners(q)
    BY DEF IInv, TypeOK, ThreadInv, Owners, GetBorrowed, Getting, Building
  <2> QED  BY <2>1, <2>2, BalanceUnchanged DEF IInv, GetBorrowed, cvars
<1> QED  BY <1>1, <1>2, <1>3, <1>4, <1>5, <1>6, <1>7 DEF IInv

(* A constructor's pointer is new, and its caller owns the one reference.  *)
LEMMA GetOwnedStep ==
  ASSUME IInv, NEW t \in Threads, NEW p \in Pointers, GetOwned(t, p)
  PROVE  IInv'
<1>0. refs[p] = 0
  BY DEF GetOwned, Allocate
<1>1. /\ \A w \in Wrappers : ~(fin[w] = "armed" /\ key[w] = p)
      /\ \A u \in Threads : Getting(u) => arg[u] # p
      /\ ~lib[p]
      /\ cache[p] = NULL
  BY <1>0, FreshAddress
<1>2. TypeOK'
  BY ShapeAssumption DEF IInv, TypeOK, GetOwned, Allocate, wvars, PC
<1>3. WrapperInv'
  BY <1>1 DEF IInv, TypeOK, WrapperInv, GetOwned, Allocate, wvars
<1>4. ThreadInv'
  BY <1>1, ShapeAssumption DEF IInv, TypeOK, ThreadInv, GetOwned, Allocate, wvars, Getting, Building
<1>5. LockInv' /\ BuildInv' /\ HeldInv'
  BY DEF IInv, TypeOK, LockInv, BuildInv, HeldInv, GetOwned, wvars, Building
<1>6. CacheInv' /\ RegisteredInv'
  BY DEF IInv, TypeOK, CacheInv, RegisteredInv, GetOwned, wvars, Building
<1>7. OwnerInv'
  BY <1>1 DEF IInv, TypeOK, ThreadInv, OwnerInv, GetOwned, Allocate, wvars, Getting, Building
<1>8. RefBalance'
  <2> SUFFICES ASSUME NEW q \in Pointers
               PROVE  refs'[q] = Cardinality(Holders(q)') + Cardinality(Owners(q)')
                                 + (IF lib'[q] THEN 1 ELSE 0)
    BY DEF RefBalance
  <2>1. Holders(q)' = Holders(q)
    BY DEF Holders, GetOwned, wvars
  <2>2. refs[q] = Cardinality(Holders(q)) + Cardinality(Owners(q))
                  + (IF lib[q] THEN 1 ELSE 0)
    BY DEF IInv, RefBalance
  <2>3. CASE q = p
    <3>1. Owners(q)' = Owners(q) \cup {t} /\ t \notin Owners(q)
      BY <2>3 DEF IInv, TypeOK, Owners, GetOwned
    <3>2. Cardinality(Owners(q)') = Cardinality(Owners(q)) + 1
      BY <3>1, CountType, FS_AddElement
    <3> QED  BY <2>1, <2>2, <2>3, <3>2, <1>0, <1>1, CountType DEF IInv, TypeOK, GetOwned, Allocate
  <2>4. CASE q # p
    <3>1. Owners(q)' = Owners(q)
      BY <2>4 DEF IInv, TypeOK, Owners, GetOwned
    <3> QED  BY <2>1, <2>2, <2>4, <3>1 DEF IInv, TypeOK, GetOwned, Allocate
  <2> QED  BY <2>3, <2>4
<1> QED  BY <1>2, <1>3, <1>4, <1>5, <1>6, <1>7, <1>8 DEF IInv

(* A cached wrapper is handed out only for a borrowed pointer: an owned    *)
(* one is never found in the cache.                                        *)
LEMMA GetOrCreateHitStep ==
  ASSUME IInv, NEW t \in Threads, GetOrCreateHit(t)
  PROVE  IInv'
<1>0. arg[t] \in Pointers
  BY DEF IInv, ThreadInv, GetOrCreateHit
<1> DEFINE w == cache[arg[t]]
<1>1. /\ w \in Wrappers
      /\ life[w] = "live" /\ fin[w] = "armed"
      /\ ~adopt[t]
      /\ \A u \in Threads : Building(u) => self[u] # w
  BY <1>0 DEF IInv, TypeOK, CacheInv, OwnerInv, BuildInv, GetOrCreateHit, Getting
<1>2. TypeOK'
  BY <1>1 DEF IInv, TypeOK, GetOrCreateHit, Return, cvars, wvars, PC
<1>3. WrapperInv'
  BY DEF IInv, TypeOK, WrapperInv, GetOrCreateHit, Return, cvars, wvars
<1>4. ThreadInv'
  BY DEF IInv, TypeOK, ThreadInv, GetOrCreateHit, Return, cvars, wvars, Getting, Building
<1>5. LockInv' /\ BuildInv'
  BY <1>1, NullAssumption
  DEF IInv, TypeOK, ThreadInv, LockInv, BuildInv, GetOrCreateHit, Return, cvars, wvars, Building
<1>6. HeldInv'
  BY <1>1 DEF IInv, TypeOK, HeldInv, GetOrCreateHit, cvars, wvars
<1>7. CacheInv' /\ RegisteredInv'
  BY DEF IInv, TypeOK, CacheInv, RegisteredInv, GetOrCreateHit, Return, cvars, wvars, Building
<1>8. OwnerInv'
  BY DEF IInv, TypeOK, OwnerInv, GetOrCreateHit, Return, cvars, wvars, Getting, Building
<1>9. RefBalance'
  <2>1. \A q \in Pointers : Holders(q)' = Holders(q)
    BY DEF Holders, GetOrCreateHit, wvars
  <2>2. \A q \in Pointers : Owners(q)' = Owners(q)
    BY <1>1 DEF IInv, TypeOK, Owners, GetOrCreateHit, Return
  <2> QED  BY <2>1, <2>2, BalanceUnchanged DEF IInv, GetOrCreateHit, cvars
<1> QED  BY <1>2, <1>3, <1>4, <1>5, <1>6, <1>7, <1>8, <1>9 DEF IInv

(* A new wrapper is built while nothing stands for its pointer: under the  *)
(* lock in _get_or_create, for a pointer nobody else knows otherwise.      *)
LEMMA NewWrapperStep ==
  ASSUME IInv, NEW t \in Threads, NEW w \in Wrappers,
         GetOrCreateMiss(t, w) \/ Construct(t, w)
  PROVE  IInv'
<1> DEFINE p == arg[t]
<1>0. /\ p \in Pointers
      /\ cache[p] = NULL
      /\ pc[t] \in {"lookup", "construct"}
      /\ NewWrapper(t, w)
      /\ UNCHANGED <<refs, lib, gen, cache, arg, adopt, held>>
      /\ Wrappable => lock' = t /\ lock = NULL
      /\ ~Wrappable => lock' = lock /\ adopt[t]
  BY DEF IInv, ThreadInv, OwnerInv, GetOrCreateMiss, Construct, Getting, cvars
<1>1. /\ life[w] = "free" /\ key[w] = NULL /\ fin[w] = "none"
      /\ \A u \in Threads : w \notin held[u] /\ self[u] # w
      /\ \A q \in Pointers : cache[q] # w
  BY <1>0, NullAssumption
  DEF IInv, TypeOK, WrapperInv, ThreadInv, HeldInv, CacheInv, NewWrapper, PC
<1>2. TypeOK'
  BY <1>0 DEF IInv, TypeOK, NewWrapper, PC
<1>3. WrapperInv'
  BY <1>0, <1>1, NullAssumption DEF IInv, TypeOK, WrapperInv, NewWrapper
<1>4. ThreadInv'
  BY <1>0, <1>1 DEF IInv, TypeOK, ThreadInv, NewWrapper, Getting, Building
<1>5. LockInv'
  BY <1>0, NullAssumption DEF IInv, TypeOK, LockInv, NewWrapper, Building
<1>6. BuildInv'
  BY <1>0, <1>1 DEF IInv, TypeOK, BuildInv, NewWrapper, Building
<1>7. HeldInv'
  BY <1>0, <1>1 DEF IInv, TypeOK, HeldInv, NewWrapper
<1>8. CacheInv'
  BY <1>0, <1>1 DEF IInv, TypeOK, CacheInv, NewWrapper
<1>9. RegisteredInv'
  BY <1>0, <1>1 DEF IInv, TypeOK, RegisteredInv, NewWrapper, Building
<1>10. OwnerInv'
  BY <1>0, <1>1 DEF IInv, TypeOK, OwnerInv, NewWrapper, Getting, Building
<1>11. RefBalance'
  <2>1. \A q \in Pointers : Holders(q)' = Holders(q)
    BY <1>0, <1>1 DEF IInv, TypeOK, Holders, NewWrapper
  <2>2. \A q \in Pointers : Owners(q)' = Owners(q)
    BY <1>0 DEF IInv, TypeOK, Owners, NewWrapper
  <2> QED  BY <1>0, <2>1, <2>2, BalanceUnchanged DEF IInv
<1> QED
  BY <1>2, <1>3, <1>4, <1>5, <1>6, <1>7, <1>8, <1>9, <1>10, <1>11 DEF IInv

(* The reference an armed finalizer will drop is the one taken here, or    *)
(* the one adopt() was given.                                              *)
LEMMA InitRefStep ==
  ASSUME IInv, NEW t \in Threads, InitRef(t)
  PROVE  IInv'
<1> DEFINE p == arg[t]
           w == self[t]
<1>0. /\ p \in Pointers /\ w \in Wrappers
      /\ life[w] = "live" /\ fin[w] = "none"
      /\ key[w] = p /\ ptr[w] = p /\ born[w] = gen[p]
      /\ cache[p] = NULL
      /\ ~adopt[t] => HasRef
      /\ \A u \in Threads \ {t} : self[u] # w
      /\ \A q \in Pointers : cache[q] # w
  BY DEF IInv, ThreadInv, BuildInv, InitRef, Building
<1>1. \A u \in Threads \ {t} : Getting(u) /\ adopt[u] => arg[u] # p
  BY DEF IInv, ThreadInv, OwnerInv, InitRef, Getting, Building
<1>2. TypeOK'
  BY <1>0 DEF IInv, TypeOK, InitRef, PC
<1>3. WrapperInv'
  BY <1>0 DEF IInv, TypeOK, WrapperInv, InitRef
<1>4. ThreadInv'
  BY <1>0 DEF IInv, TypeOK, ThreadInv, InitRef, Getting, Building
<1>5. LockInv' /\ BuildInv'
  BY DEF IInv, TypeOK, LockInv, BuildInv, InitRef, Building
<1>6. HeldInv' /\ CacheInv' /\ RegisteredInv'
  BY <1>0 DEF IInv, TypeOK, HeldInv, CacheInv, RegisteredInv, InitRef, Building
<1>7. OwnerInv'
  BY <1>0, <1>1 DEF IInv, TypeOK, OwnerInv, InitRef, Getting, Building
<1>8. RefBalance'
  <2> SUFFICES ASSUME NEW q \in Pointers
               PROVE  refs'[q] = Cardinality(Holders(q)') + Cardinality(Owners(q)')
                                 + (IF lib'[q] THEN 1 ELSE 0)
    BY DEF RefBalance
  <2>1. refs[q] = Cardinality(Holders(q)) + Cardinality(Owners(q))
                  + (IF lib[q] THEN 1 ELSE 0)
    BY DEF IInv, RefBalance
  <2>2. CASE q = p
    <3>1. Holders(q)' = Holders(q) \cup {w} /\ w \notin Holders(q)
      BY <1>0, <2>2 DEF IInv, TypeOK, Holders, InitRef
    <3>2. Cardinality(Holders(q)') = Cardinality(Holders(q)) + 1
      BY <3>1, CountType, FS_AddElement
    <3>3. CASE adopt[t]
      <4>1. Owners(q)' = Owners(q) \ {t} /\ t \in Owners(q)
        BY <2>2, <3>3 DEF IInv, TypeOK, Owners, InitRef
      <4>2. Cardinality(Owners(q)') = Cardinality(Owners(q)) - 1
        BY <4>1, CountType, FS_RemoveElement
      <4> QED  BY <2>1, <3>2, <3>3, <4>2, CountType DEF InitRef, TakesRef
    <3>4. CASE ~adopt[t]
      <4>1. Owners(q)' = Owners(q)
        BY <3>4 DEF IInv, TypeOK, Owners, InitRef
      <4>2. refs'[q] = refs[q] + 1
        BY <1>0, <2>2, <3>4 DEF IInv, TypeOK, InitRef, TakesRef
      <4> QED  BY <2>1, <3>2, <4>1, <4>2, CountType DEF InitRef
    <3> QED  BY <3>3, <3>4
  <2>3. CASE q # p
    <3>1. Holders(q)' = Holders(q) /\ Owners(q)' = Owners(q)
      BY <1>0, <2>3 DEF IInv, TypeOK, Holders, Owners, InitRef
    <3> QED  BY <2>1, <2>3, <3>1 DEF IInv, TypeOK, InitRef
  <2> QED  BY <2>2, <2>3
<1> QED  BY <1>2, <1>3, <1>4, <1>5, <1>6, <1>7, <1>8 DEF IInv

(* The finished wrapper enters the cache, where nothing stands for its     *)
(* pointer.                                                                *)
LEMMA InitRegisterStep ==
  ASSUME IInv, NEW t \in Threads, InitRegister(t)
  PROVE  IInv'
<1> DEFINE p == arg[t]
           w == self[t]
<1>0. /\ p \in Pointers /\ w \in Wrappers
      /\ life[w] = "live" /\ fin[w] = "armed"
      /\ key[w] = p /\ ptr[w] = p
      /\ cache[p] = NULL
      /\ \A u \in Threads \ {t} : self[u] # w
      /\ \A q \in Pointers : cache[q] # w
  BY DEF IInv, ThreadInv, BuildInv, InitRegister, Building
<1>1. \A u \in Threads \ {t} : Getting(u) /\ adopt[u] => arg[u] # p
  BY <1>0 DEF IInv, OwnerInv
<1>2. TypeOK'
  BY <1>0 DEF IInv, TypeOK, InitRegister, Return, cvars, wvars, PC
<1>3. WrapperInv'
  BY DEF IInv, TypeOK, WrapperInv, InitRegister, Return, cvars, wvars
<1>4. ThreadInv'
  BY <1>0 DEF IInv, TypeOK, ThreadInv, InitRegister, Return, cvars, wvars, Getting, Building
<1>5. LockInv'
  BY NullAssumption DEF IInv, TypeOK, LockInv, InitRegister, Return, Building
<1>6. BuildInv'
  <2> SUFFICES ASSUME NEW u \in Threads, Building(u)'
               PROVE  /\ cache'[arg'[u]] = NULL
                      /\ \A q \in Pointers : cache'[q] # self'[u]
                      /\ \A v \in Threads : self'[u] \notin held'[v]
                      /\ \A v \in Threads \ {u} : self'[v] # self'[u]
    BY DEF BuildInv
  <2>1. u # t /\ Building(u) /\ self'[u] = self[u] /\ arg'[u] = arg[u] /\ arg[u] \in Pointers
    BY DEF IInv, TypeOK, ThreadInv, InitRegister, Return, Building
  <2>2. arg[u] # p
    <3>1. CASE Wrappable
      BY <2>1, <3>1, NullAssumption DEF IInv, LockInv, InitRegister, Building
    <3>2. CASE ~Wrappable
      BY <1>1, <2>1, <3>2 DEF IInv, ThreadInv, Getting, Building
    <3> QED  BY <3>1, <3>2
  <2> QED  BY <1>0, <2>1, <2>2, NullAssumption DEF IInv, TypeOK, BuildInv, InitRegister, Return
<1>7. HeldInv'
  BY <1>0 DEF IInv, TypeOK, HeldInv, InitRegister, cvars, wvars
<1>8. CacheInv'
  BY <1>0 DEF IInv, TypeOK, CacheInv, InitRegister, Return, cvars, wvars, Building
<1>9. RegisteredInv'
  <2> SUFFICES ASSUME NEW v \in Wrappers, life[v] = "live", ptr[v] # NULL,
                      \A u \in Threads : Building(u)' => self'[u] # v
               PROVE  cache'[ptr[v]] = v
    BY DEF RegisteredInv, InitRegister, wvars
  <2>1. CASE v = w
    BY <1>0, <2>1 DEF IInv, TypeOK, InitRegister
  <2>2. CASE v # w
    <3>1. \A u \in Threads : Building(u) => self[u] # v
      BY <2>2 DEF IInv, TypeOK, InitRegister, Return, Building
    <3>2. cache[ptr[v]] = v
      BY <3>1 DEF IInv, RegisteredInv
    <3> QED  BY <1>0, <3>2, NullAssumption DEF IInv, TypeOK, InitRegister
  <2> QED  BY <2>1, <2>2
<1>10. OwnerInv'
  BY <1>0, <1>1 DEF IInv, TypeOK, OwnerInv, InitRegister, Return, cvars, wvars, Getting, Building
<1>11. RefBalance'
  <2>1. \A q \in Pointers : Holders(q)' = Holders(q)
    BY DEF Holders, InitRegister, wvars
  <2>2. \A q \in Pointers : Owners(q)' = Owners(q)
    BY DEF IInv, TypeOK, Owners, InitRegister, Return
  <2> QED  BY <2>1, <2>2, BalanceUnchanged DEF IInv, InitRegister, cvars
<1> QED
  BY <1>2, <1>3, <1>4, <1>5, <1>6, <1>7, <1>8, <1>9, <1>10, <1>11 DEF IInv

-----------------------------------------------------------------------------
(* Calls, release() and the collector.                                     *)

(* A call is entered with a wrapper the thread holds and has not released. *)
LEMMA CallStartStep ==
  ASSUME IInv, NEW t \in Threads, NEW w \in Wrappers, CallStart(t, w)
  PROVE  IInv'
<1>1. /\ life[w] = "live" /\ fin[w] = "armed"
      /\ key[w] = ptr[w] /\ key[w] \in Pointers
      /\ \A u \in Threads : Building(u) => self[u] # w
  BY HeldIsArmed DEF CallStart
<1>2. TypeOK'
  BY <1>1 DEF IInv, TypeOK, CallStart, cvars, wvars, PC
<1>3. WrapperInv'
  BY DEF IInv, TypeOK, WrapperInv, CallStart, cvars, wvars
<1>4. ThreadInv'
  BY <1>1 DEF IInv, TypeOK, ThreadInv, CallStart, cvars, wvars, Getting, Building
<1>5. LockInv' /\ BuildInv' /\ HeldInv'
  BY <1>1 DEF IInv, TypeOK, LockInv, BuildInv, HeldInv, CallStart, cvars, wvars, Building
<1>6. CacheInv' /\ RegisteredInv'
  BY DEF IInv, TypeOK, CacheInv, RegisteredInv, CallStart, cvars, wvars, Building
<1>7. OwnerInv'
  BY DEF IInv, TypeOK, OwnerInv, CallStart, cvars, wvars, Getting, Building
<1>8. RefBalance'
  <2>1. \A q \in Pointers : Holders(q)' = Holders(q) /\ Owners(q)' = Owners(q)
    BY DEF IInv, TypeOK, Holders, Owners, CallStart, wvars
  <2> QED  BY <2>1, BalanceUnchanged DEF IInv, CallStart, cvars
<1> QED  BY <1>2, <1>3, <1>4, <1>5, <1>6, <1>7, <1>8 DEF IInv

(* The end of a call changes no wrapper and no object.                     *)
LEMMA CallEndStep ==
  ASSUME IInv, NEW t \in Threads, CallEnd(t)
  PROVE  IInv'
<1>1. TypeOK'
  BY DEF IInv, TypeOK, CallEnd, Return, cvars, wvars, PC
<1>2. WrapperInv' /\ HeldInv'
  BY DEF IInv, TypeOK, WrapperInv, HeldInv, CallEnd, Return, cvars, wvars
<1>3. ThreadInv'
  BY DEF IInv, TypeOK, ThreadInv, CallEnd, Return, cvars, wvars, Getting, Building
<1>4. LockInv' /\ BuildInv'
  BY NullAssumption
  DEF IInv, TypeOK, ThreadInv, LockInv, BuildInv, CallEnd, Return, cvars, wvars, Building
<1>5. CacheInv' /\ RegisteredInv'
  BY DEF IInv, TypeOK, CacheInv, RegisteredInv, CallEnd, Return, cvars, wvars, Building
<1>6. OwnerInv'
  BY DEF IInv, TypeOK, OwnerInv, CallEnd, Return, cvars, wvars, Getting, Building
<1>7. RefBalance'
  <2>1. \A q \in Pointers : Holders(q)' = Holders(q) /\ Owners(q)' = Owners(q)
    BY DEF IInv, TypeOK, Holders, Owners, CallEnd, Return, wvars
  <2> QED  BY <2>1, BalanceUnchanged DEF IInv, CallEnd, cvars
<1> QED  BY <1>1, <1>2, <1>3, <1>4, <1>5, <1>6, <1>7 DEF IInv

(* Invalidating takes the lock, so the cache may name the wrapper until    *)
(* the lock is dropped.                                                    *)
LEMMA ReleaseInvalidateStep ==
  ASSUME IInv, NEW t \in Threads, NEW w \in Wrappers, ReleaseInvalidate(t, w)
  PROVE  IInv'
<1>1. /\ life[w] = "live" /\ fin[w] = "armed"
      /\ key[w] = ptr[w] /\ ptr[w] \in Pointers
      /\ \A u \in Threads : Building(u) => self[u] # w
      /\ \A u \in Threads : pc[u] = "call" => self[u] # w
  BY HeldIsArmed DEF ReleaseInvalidate, InUse
<1>2. TypeOK'
  BY <1>1 DEF IInv, TypeOK, ReleaseInvalidate, cvars, PC
<1>3. WrapperInv'
  BY <1>1 DEF IInv, TypeOK, WrapperInv, ReleaseInvalidate, cvars
<1>4. ThreadInv'
  BY <1>1 DEF IInv, TypeOK, ThreadInv, ReleaseInvalidate, cvars, Getting, Building
<1>5. LockInv' /\ BuildInv' /\ HeldInv'
  BY <1>1, NullAssumption
  DEF IInv, TypeOK, LockInv, BuildInv, HeldInv, ReleaseInvalidate, cvars, Building
<1>6. CacheInv'
  <2> SUFFICES ASSUME NEW q \in Pointers, cache[q] # NULL
               PROVE  /\ life[cache[q]] = "live"
                      /\ key[cache[q]] = q
                      /\ fin[cache[q]] = "armed"
                      /\ \/ ptr'[cache[q]] = q
                         \/ \E u \in Threads : pc'[u] = "evict" /\ self'[u] = cache[q]
    BY DEF CacheInv, ReleaseInvalidate
  <2>1. CASE cache[q] = w
    <3>1. pc'[t] = "evict" /\ self'[t] = w
      BY DEF IInv, TypeOK, ReleaseInvalidate
    <3> QED  BY <2>1, <3>1 DEF IInv, CacheInv
  <2>2. CASE cache[q] # w
    <3>1. ptr[cache[q]] = q
      BY NullAssumption DEF IInv, TypeOK, CacheInv, LockInv, ReleaseInvalidate
    <3> QED  BY <2>2, <3>1 DEF IInv, TypeOK, CacheInv, ReleaseInvalidate
  <2> QED  BY <2>1, <2>2
<1>7. RegisteredInv'
  BY DEF IInv, TypeOK, RegisteredInv, ReleaseInvalidate, cvars, Building
<1>8. OwnerInv'
  BY DEF IInv, TypeOK, OwnerInv, ReleaseInvalidate, cvars, Getting, Building
<1>9. RefBalance'
  <2>1. \A q \in Pointers : Holders(q)' = Holders(q) /\ Owners(q)' = Owners(q)
    BY DEF IInv, TypeOK, Holders, Owners, ReleaseInvalidate
  <2> QED  BY <2>1, BalanceUnchanged DEF IInv, ReleaseInvalidate, cvars
<1> QED  BY <1>2, <1>3, <1>4, <1>5, <1>6, <1>7, <1>8, <1>9 DEF IInv

(* Evicting removes the invalidated wrapper and no other.                  *)
LEMMA ReleaseEvictStep ==
  ASSUME IInv, NEW t \in Threads, ReleaseEvict(t)
  PROVE  IInv'
<1> DEFINE p == arg[t]
           w == self[t]
<1>1. /\ p \in Pointers /\ w \in Wrappers
      /\ key[w] = p /\ ptr[w] = NULL
      /\ lock = t
      /\ \A u \in Threads : pc[u] = "evict" => u = t
      /\ \A q \in Pointers \ {p} : cache[q] # w
  BY NullAssumption DEF IInv, ThreadInv, LockInv, CacheInv, ReleaseEvict
<1>2. TypeOK'
  BY DEF IInv, TypeOK, ReleaseEvict, cvars, wvars, PC
<1>3. WrapperInv' /\ HeldInv'
  BY DEF IInv, TypeOK, WrapperInv, HeldInv, ReleaseEvict, cvars, wvars
<1>4. ThreadInv'
  BY <1>1, NullAssumption
  DEF IInv, TypeOK, ThreadInv, ReleaseEvict, cvars, wvars, Getting, Building
<1>5. LockInv' /\ BuildInv'
  BY <1>1, NullAssumption
  DEF IInv, TypeOK, LockInv, BuildInv, ThreadInv, ReleaseEvict, cvars, wvars, Building
<1>6. CacheInv'
  BY <1>1 DEF IInv, TypeOK, CacheInv, ReleaseEvict, cvars, wvars
<1>7. RegisteredInv'
  BY <1>1 DEF IInv, TypeOK, RegisteredInv, ReleaseEvict, cvars, wvars, Building
<1>8. OwnerInv'
  BY <1>1 DEF IInv, TypeOK, OwnerInv, ReleaseEvict, cvars, wvars, Getting, Building
<1>9. RefBalance'
  <2>1. \A q \in Pointers : Holders(q)' = Holders(q) /\ Owners(q)' = Owners(q)
    BY DEF IInv, TypeOK, Holders, Owners, ReleaseEvict, wvars
  <2> QED  BY <2>1, BalanceUnchanged DEF IInv, ReleaseEvict, cvars
<1> QED  BY <1>2, <1>3, <1>4, <1>5, <1>6, <1>7, <1>8, <1>9 DEF IInv

(* The finalizer drops the wrapper's reference if it has not run yet.      *)
LEMMA ReleaseUnrefStep ==
  ASSUME IInv, NEW t \in Threads, ReleaseUnref(t)
  PROVE  IInv'
<1> DEFINE p == arg[t]
           w == self[t]
<1>1. /\ p \in Pointers /\ w \in Wrappers
      /\ life[w] = "live" /\ key[w] = p /\ ptr[w] = NULL
      /\ ~adopt[t]
      /\ \A q \in Pointers : cache[q] # w
      /\ \A u \in Threads : pc[u] \in {"init", "register", "call"} => self[u] # w
  BY NullAssumption DEF IInv, ThreadInv, ReleaseUnref, Getting, Building
<1>2. fin[w] = "armed" => refs[p] > 0 /\ refs[p] \in Nat
  <2> SUFFICES ASSUME fin[w] = "armed" PROVE refs[p] > 0 /\ refs[p] \in Nat
    OBVIOUS
  <2>1. Holders(p) # {}
    BY <1>1 DEF Holders
  <2> QED  BY <1>1, <2>1, ReferencedAlive DEF IInv, TypeOK
<1>3. TypeOK'
  BY <1>1, <1>2 DEF IInv, TypeOK, ReleaseUnref, Return, PC
<1>4. WrapperInv'
  BY <1>1 DEF IInv, TypeOK, WrapperInv, ReleaseUnref, Return
<1>5. ThreadInv'
  BY <1>1 DEF IInv, TypeOK, ThreadInv, ReleaseUnref, Return, Getting, Building
<1>6. LockInv' /\ BuildInv'
  BY NullAssumption
  DEF IInv, TypeOK, ThreadInv, LockInv, BuildInv, ReleaseUnref, Return, Building
<1>7. HeldInv' /\ CacheInv' /\ RegisteredInv'
  BY <1>1
  DEF IInv, TypeOK, HeldInv, CacheInv, RegisteredInv, ReleaseUnref, Return, Building
<1>8. OwnerInv'
  BY DEF IInv, TypeOK, OwnerInv, ReleaseUnref, Return, Getting, Building
<1>9. RefBalance'
  <2> SUFFICES ASSUME NEW q \in Pointers
               PROVE  refs'[q] = Cardinality(Holders(q)') + Cardinality(Owners(q)')
                                 + (IF lib'[q] THEN 1 ELSE 0)
    BY DEF RefBalance
  <2>1. refs[q] = Cardinality(Holders(q)) + Cardinality(Owners(q))
                  + (IF lib[q] THEN 1 ELSE 0)
    BY DEF IInv, RefBalance
  <2>2. Owners(q)' = Owners(q)
    BY DEF IInv, TypeOK, Owners, ReleaseUnref, Return
  <2>3. CASE q = p /\ fin[w] = "armed"
    <3>1. Holders(q)' = Holders(q) \ {w} /\ w \in Holders(q)
      BY <1>1, <2>3 DEF IInv, TypeOK, Holders, ReleaseUnref
    <3>2. Cardinality(Holders(q)') = Cardinality(Holders(q)) - 1
      BY <3>1, CountType, FS_RemoveElement
    <3> QED  BY <1>1, <2>1, <2>2, <2>3, <3>2, CountType DEF IInv, TypeOK, ReleaseUnref
  <2>4. CASE ~(q = p /\ fin[w] = "armed")
    <3>1. Holders(q)' = Holders(q)
      BY <1>1, <2>4 DEF IInv, TypeOK, Holders, ReleaseUnref
    <3>2. refs'[q] = refs[q] /\ lib'[q] = lib[q]
      BY <1>1, <2>4 DEF IInv, TypeOK, ReleaseUnref
    <3> QED  BY <2>1, <2>2, <3>1, <3>2
  <2> QED  BY <2>3, <2>4
<1> QED  BY <1>3, <1>4, <1>5, <1>6, <1>7, <1>8, <1>9 DEF IInv

(* Passing wrappers between threads moves references to finished wrappers. *)
LEMMA ShareDropStep ==
  ASSUME IInv, NEW t \in Threads, NEW u \in Threads, NEW w \in Wrappers,
         Share(t, u, w) \/ Drop(t, w)
  PROVE  IInv'
<1>1. TypeOK'
  BY DEF IInv, TypeOK, Share, Drop, cvars, wvars, tvars
<1>2. WrapperInv' /\ ThreadInv' /\ LockInv' /\ CacheInv' /\ RegisteredInv' /\ OwnerInv'
  BY DEF IInv, WrapperInv, ThreadInv, LockInv, CacheInv, RegisteredInv, OwnerInv,
         Share, Drop, cvars, wvars, tvars, Getting, Building
<1>3. BuildInv' /\ HeldInv'
  BY DEF IInv, TypeOK, BuildInv, HeldInv, Share, Drop, cvars, wvars, tvars, Building
<1>4. RefBalance'
  <2>1. \A q \in Pointers : Holders(q)' = Holders(q) /\ Owners(q)' = Owners(q)
    BY DEF Holders, Owners, Share, Drop, wvars, tvars
  <2> QED  BY <2>1, BalanceUnchanged DEF IInv, Share, Drop, cvars
<1> QED  BY <1>1, <1>2, <1>3, <1>4 DEF IInv

(* A collected wrapper leaves the cache and keeps its C reference.         *)
LEMMA CollectStep ==
  ASSUME IInv, NEW w \in Wrappers, Collect(w)
  PROVE  IInv'
<1>1. TypeOK'
  BY DEF IInv, TypeOK, Collect, cvars, tvars
<1>2. WrapperInv'
  BY DEF IInv, TypeOK, WrapperInv, Collect, cvars, tvars
<1>3. ThreadInv'
  BY NullAssumption DEF IInv, TypeOK, ThreadInv, Collect, cvars, tvars, Getting, Building
<1>4. LockInv' /\ BuildInv' /\ HeldInv'
  BY NullAssumption
  DEF IInv, TypeOK, ThreadInv, LockInv, BuildInv, HeldInv, Collect, cvars, tvars, Building
<1>5. CacheInv' /\ RegisteredInv'
  BY DEF IInv, TypeOK, CacheInv, RegisteredInv, Collect, cvars, tvars, Building
<1>6. OwnerInv'
  BY DEF IInv, TypeOK, ThreadInv, OwnerInv, Collect, cvars, tvars, Getting, Building
<1>7. RefBalance'
  <2>1. \A q \in Pointers : Holders(q)' = Holders(q) /\ Owners(q)' = Owners(q)
    BY DEF Holders, Owners, Collect, tvars
  <2> QED  BY <2>1, BalanceUnchanged DEF IInv, Collect, cvars
<1> QED  BY <1>1, <1>2, <1>3, <1>4, <1>5, <1>6, <1>7 DEF IInv

(* The finalizer drops the reference of a wrapper nobody can reach.        *)
LEMMA FinalizeStep ==
  ASSUME IInv, NEW w \in Wrappers, Finalize(w)
  PROVE  IInv'
<1> DEFINE p == key[w]
<1>1. /\ p \in Pointers
      /\ \A t \in Threads : w \notin held[t] /\ (self[t] # NULL => self[t] # w)
      /\ \A q \in Pointers : cache[q] # w
  BY NullAssumption
  DEF IInv, TypeOK, WrapperInv, ThreadInv, HeldInv, CacheInv, Finalize, PC
<1>2. fin[w] = "armed" => refs[p] > 0 /\ refs[p] \in Nat
  <2> SUFFICES ASSUME fin[w] = "armed" PROVE refs[p] > 0 /\ refs[p] \in Nat
    OBVIOUS
  <2>1. Holders(p) # {}
    BY DEF Holders
  <2> QED  BY <1>1, <2>1, ReferencedAlive DEF IInv, TypeOK
<1>3. TypeOK'
  BY <1>1, <1>2, ShapeAssumption DEF IInv, TypeOK, Finalize, tvars
<1>4. WrapperInv'
  BY DEF IInv, TypeOK, WrapperInv, Finalize, tvars
<1>5. ThreadInv'
  BY DEF IInv, TypeOK, ThreadInv, Finalize, tvars, Getting, Building
<1>6. LockInv' /\ BuildInv'
  BY DEF IInv, TypeOK, LockInv, BuildInv, Finalize, tvars, Building
<1>7. HeldInv' /\ CacheInv' /\ RegisteredInv'
  BY <1>1 DEF IInv, TypeOK, HeldInv, CacheInv, RegisteredInv, Finalize, tvars, Building
<1>8. OwnerInv'
  BY DEF IInv, TypeOK, OwnerInv, Finalize, tvars, Getting, Building
<1>9. RefBalance'
  <2> SUFFICES ASSUME NEW q \in Pointers
               PROVE  refs'[q] = Cardinality(Holders(q)') + Cardinality(Owners(q)')
                                 + (IF lib'[q] THEN 1 ELSE 0)
    BY DEF RefBalance
  <2>1. refs[q] = Cardinality(Holders(q)) + Cardinality(Owners(q))
                  + (IF lib[q] THEN 1 ELSE 0)
    BY DEF IInv, RefBalance
  <2>2. Owners(q)' = Owners(q)
    BY DEF Owners, Finalize, tvars
  <2>3. CASE q = p /\ fin[w] = "armed"
    <3>1. Holders(q)' = Holders(q) \ {w} /\ w \in Holders(q)
      BY <1>1, <2>3 DEF IInv, TypeOK, Holders, Finalize
    <3>2. Cardinality(Holders(q)') = Cardinality(Holders(q)) - 1
      BY <3>1, CountType, FS_RemoveElement
    <3> QED  BY <1>1, <2>1, <2>2, <2>3, <3>2, CountType DEF IInv, TypeOK, Finalize
  <2>4. CASE ~(q = p /\ fin[w] = "armed")
    <3>1. Holders(q)' = Holders(q)
      BY <1>1, <2>4 DEF IInv, TypeOK, Holders, Finalize
    <3>2. refs'[q] = refs[q] /\ lib'[q] = lib[q]
      BY <1>1, <2>4 DEF IInv, TypeOK, Finalize
    <3> QED  BY <2>1, <2>2, <3>1, <3>2
  <2> QED  BY <2>3, <2>4
<1> QED  BY <1>3, <1>4, <1>5, <1>6, <1>7, <1>8, <1>9 DEF IInv

-----------------------------------------------------------------------------
(* The invariant.                                                          *)

(* There are no objects, wrappers or calls in an initial state.            *)
LEMMA InitInv == Init => IInv
<1> SUFFICES ASSUME Init PROVE IInv
  OBVIOUS
<1>1. TypeOK
  BY ShapeAssumption DEF Init, TypeOK, PC
<1>2. WrapperInv /\ ThreadInv /\ LockInv /\ BuildInv /\ HeldInv /\ CacheInv
      /\ RegisteredInv /\ OwnerInv
  BY NullAssumption
  DEF Init, WrapperInv, ThreadInv, LockInv, BuildInv, HeldInv, CacheInv,
      RegisteredInv, OwnerInv, Getting, Building
<1>3. RefBalance
  <2> SUFFICES ASSUME NEW p \in Pointers
               PROVE  refs[p] = Cardinality(Holders(p)) + Cardinality(Owners(p))
                                + (IF lib[p] THEN 1 ELSE 0)
    BY DEF RefBalance
  <2>1. Holders(p) = {} /\ Owners(p) = {}
    BY DEF Init, Holders, Owners
  <2>2. Cardinality(Holders(p)) = 0 /\ Cardinality(Owners(p)) = 0
    BY <2>1, FS_EmptySet
  <2> QED  BY <2>2 DEF Init
<1> QED  BY <1>1, <1>2, <1>3 DEF IInv

(* Every step keeps the inductive invariant.                               *)
LEMMA StepInv == IInv /\ [Next]_vars => IInv'
<1> SUFFICES ASSUME IInv, [Next]_vars PROVE IInv'
  OBVIOUS
<1>1. CASE Library
  BY <1>1, LibCreateStep, LibDropStep, LibTakeStep DEF Library
<1>2. ASSUME NEW t \in Threads, Thread(t) PROVE IInv'
  <2>1. ASSUME NEW p \in Pointers, GetBorrowed(t, p) \/ GetOwned(t, p) PROVE IInv'
    BY <2>1, GetBorrowedStep, GetOwnedStep
  <2>2. ASSUME NEW w \in Wrappers, GetOrCreateMiss(t, w) \/ Construct(t, w) PROVE IInv'
    BY <2>2, NewWrapperStep
  <2>3. CASE GetOrCreateHit(t) \/ InitRef(t) \/ InitRegister(t)
    BY <2>3, GetOrCreateHitStep, InitRefStep, InitRegisterStep
  <2>4. CASE CallEnd(t) \/ ReleaseEvict(t) \/ ReleaseUnref(t)
    BY <2>4, CallEndStep, ReleaseEvictStep, ReleaseUnrefStep
  <2>5. ASSUME NEW w \in Wrappers, CallStart(t, w) \/ ReleaseInvalidate(t, w) PROVE IInv'
    BY <2>5, CallStartStep, ReleaseInvalidateStep
  <2>6. ASSUME NEW u \in Threads, NEW w \in Wrappers, Share(t, u, w) \/ Drop(t, w)
        PROVE IInv'
    BY <2>6, ShareDropStep
  <2>7. ASSUME NEW w \in Wrappers, Drop(t, w) PROVE IInv'
    BY <2>6, <2>7
  <2> QED  BY <1>2, <2>1, <2>2, <2>3, <2>4, <2>5, <2>6, <2>7 DEF Thread
<1>3. CASE Collector
  BY <1>3, CollectStep, FinalizeStep DEF Collector
<1>4. CASE UNCHANGED vars
  <2>1. \A p \in Pointers : Holders(p)' = Holders(p) /\ Owners(p)' = Owners(p)
    BY <1>4 DEF vars, Holders, Owners
  <2> QED
    BY <1>4, <2>1, BalanceUnchanged
    DEF vars, IInv, TypeOK, WrapperInv, ThreadInv, LockInv, BuildInv, HeldInv,
        CacheInv, RegisteredInv, OwnerInv, Getting, Building
<1> QED  BY <1>1, <1>2, <1>3, <1>4 DEF Next

(* IInv holds in every reachable state.                                    *)
THEOREM Invariance == Spec => []IInv
  BY InitInv, StepInv, PTL DEF Spec

(* Every variable keeps its type; in particular no reference count of the  *)
(* C library is ever taken below zero by a second unref.                   *)
THEOREM Typing == Spec => []TypeOK
<1>1. IInv => TypeOK
  BY DEF IInv
<1> QED  BY <1>1, Invariance, PTL

(* References balance: no leak and no double unref, for wrap() and adopt() *)
(* racing release() and the garbage collector in any number of threads.    *)
THEOREM Balance == Spec => []RefBalance
<1>1. IInv => RefBalance
  BY DEF IInv
<1> QED  BY <1>1, Invariance, PTL

(* No valid wrapper outlives the object it was built for.                  *)
LEMMA NoStaleWrapperInv == IInv => NoStaleWrapper
<1> SUFFICES ASSUME IInv, NEW w \in Wrappers, life[w] = "live", ptr[w] # NULL
             PROVE  refs[ptr[w]] > 0 /\ gen[ptr[w]] = born[w]
  BY DEF NoStaleWrapper
<1>1. ptr[w] \in Pointers /\ key[w] = ptr[w] /\ fin[w] \in {"none", "armed"}
  BY DEF IInv, TypeOK, WrapperInv
<1>2. CASE fin[w] = "armed"
  <2>1. Holders(ptr[w]) # {}
    BY <1>1, <1>2 DEF Holders
  <2> QED  BY <1>1, <1>2, <2>1, ReferencedAlive DEF IInv, WrapperInv
<1>3. CASE fin[w] = "none"
  <2> PICK t \in Threads : pc[t] = "init" /\ self[t] = w
    BY <1>3 DEF IInv, WrapperInv
  <2>1. arg[t] = ptr[w] /\ born[w] = gen[ptr[w]]
    BY DEF IInv, ThreadInv
  <2>2. Owners(ptr[w]) # {} \/ lib[ptr[w]]
    BY <2>1 DEF IInv, ThreadInv, Owners
  <2> QED  BY <1>1, <2>1, <2>2, ReferencedAlive DEF IInv
<1> QED  BY <1>1, <1>2, <1>3

(* A wrapper whose _pointer is set stands for the object it was built for, *)
(* however often addresses are reused (_cobject.py:33-41).                 *)
THEOREM Freshness == Spec => []NoStaleWrapper
  BY NoStaleWrapperInv, Invariance, PTL

(* A pointer never has two valid wrappers.                                 *)
LEMMA OneStands ==
  ASSUME IInv, NEW v \in Wrappers, NEW w \in Wrappers, NEW p \in Pointers,
         Stands(v, p), Stands(w, p)
  PROVE  v = w
<1> DEFINE UnderConstruction(x) == \E t \in Threads : Building(t) /\ self[t] = x
<1>1. ASSUME NEW x \in Wrappers, Stands(x, p), ~UnderConstruction(x)
      PROVE  cache[p] = x
  BY <1>1, NullAssumption DEF IInv, RegisteredInv, Stands
<1>2. ASSUME NEW x \in Wrappers, Stands(x, p), UnderConstruction(x)
      PROVE  \E t \in Threads : Building(t) /\ self[t] = x /\ arg[t] = p /\ cache[p] = NULL
  BY <1>2 DEF IInv, ThreadInv, BuildInv, Stands, Building
<1>3. CASE ~UnderConstruction(v) /\ ~UnderConstruction(w)
  BY <1>1, <1>3
<1>4. CASE UnderConstruction(v) /\ UnderConstruction(w)
  <2>1. PICK t \in Threads : Building(t) /\ self[t] = v /\ arg[t] = p
    BY <1>2, <1>4
  <2>2. PICK u \in Threads : Building(u) /\ self[u] = w /\ arg[u] = p
    BY <1>2, <1>4
  <2>3. t = u
    BY <2>1, <2>2 DEF IInv, LockInv, ThreadInv, OwnerInv, Getting
  <2> QED  BY <2>1, <2>2, <2>3
<1>5. CASE UnderConstruction(v) # UnderConstruction(w)
  BY <1>1, <1>2, <1>5, NullAssumption
<1> QED  BY <1>3, <1>4, <1>5

(* Equal wrappers both stand for the pointer they share, or are one.       *)
LEMMA OneWrapperInv == IInv => OneWrapper
<1> SUFFICES ASSUME IInv, NEW v \in Wrappers, NEW w \in Wrappers,
                    life[v] = "live", life[w] = "live", Equal(v, w)
             PROVE  v = w
  BY DEF OneWrapper
<1>1. CASE NULL \in {ptr[v], ptr[w]}
  BY <1>1 DEF Equal
<1>2. CASE NULL \notin {ptr[v], ptr[w]}
  <2>1. ptr[v] \in Pointers /\ ptr[v] = ptr[w]
    BY <1>2 DEF IInv, TypeOK, Equal
  <2> QED  BY <2>1, OneStands DEF Stands
<1> QED  BY <1>1, <1>2

(* No two live wrappers are equal, even when threads race to wrap one      *)
(* pointer (_cobject.py:22-27, 176, 238-250).                              *)
THEOREM Uniqueness == Spec => []OneWrapper
  BY OneWrapperInv, Invariance, PTL

(* A C function is only ever inside with a pointer to a live object.       *)
LEMMA CallsOnLiveInv == IInv => CallsOnLive
<1> SUFFICES ASSUME IInv, NEW t \in Threads, pc[t] = "call"
             PROVE  refs[arg[t]] > 0 /\ gen[arg[t]] = born[self[t]]
  BY DEF CallsOnLive
<1>1. /\ self[t] \in Wrappers /\ life[self[t]] = "live"
      /\ ptr[self[t]] = arg[t] /\ arg[t] \in Pointers
  BY DEF IInv, ThreadInv
<1> QED  BY <1>1, NoStaleWrapperInv, NullAssumption DEF NoStaleWrapper

(* No C function runs on a freed object, if no wrapper is released while   *)
(* another thread is in a call on it (_cobject.py:124-132).                *)
THEOREM SafeCalls == Spec => []CallsOnLive
  BY CallsOnLiveInv, Invariance, PTL

(* The cache hands out valid wrappers only.                                *)
LEMMA CacheValidInv == IInv => CacheValid
  BY NullAssumption DEF IInv, LockInv, CacheInv, CacheValid, Stands

(* With the lock free, what the cache holds is valid: release() and wrap() *)
(* never leave a dead wrapper to be found (_cobject.py:149-159).           *)
THEOREM ValidHits == Spec => []CacheValid
  BY CacheValidInv, Invariance, PTL

-----------------------------------------------------------------------------
(* CObjectCache implements ObjectIdentity.                                 *)

(* After a step too, a freed object has no proxy.                          *)
LEMMA FreedUnbound ==
  ASSUME IInv', NEW p \in Pointers, refs'[p] = 0
  PROVE  ProxyMap'[p] = NULL
<1>1. Holders(p)' \subseteq Wrappers /\ Owners(p)' \subseteq Threads
  BY DEF Holders, Owners
<1>2. IsFiniteSet(Holders(p)') /\ IsFiniteSet(Owners(p)')
  BY <1>1, FS_Subset, FiniteAssumption
<1>3. Cardinality(Holders(p)') \in Nat /\ Cardinality(Owners(p)') \in Nat
  BY <1>2, FS_CardinalityType
<1>4. Cardinality(Holders(p)') = 0
  BY <1>3 DEF IInv, RefBalance
<1>5. Holders(p)' = {}
  BY <1>2, <1>4, FS_EmptySet
<1>6. cache'[p] = NULL
  BY <1>5 DEF IInv, TypeOK, CacheInv, Holders
<1> QED  BY <1>6 DEF ProxyMap

(* A step that only gives a reference back frees the object or stutters.   *)
LEMMA UnrefRefines ==
  ASSUME IInv, IInv', NEW p \in Pointers, refs' = [refs EXCEPT ![p] = @ - 1],
         ProxyMap' = ProxyMap
  PROVE  [Identity!Next]_(Identity!vars)
<1>1. refs \in [Pointers -> Nat] /\ refs' \in [Pointers -> Nat]
  BY DEF IInv, TypeOK
<1>2. CASE refs'[p] > 0
  <2>1. AliveSet' = AliveSet
    BY <1>1, <1>2 DEF AliveSet
  <2> QED  BY <2>1 DEF Identity!vars
<1>3. CASE refs'[p] = 0
  <2>1. ProxyMap'[p] = NULL
    BY <1>3, FreedUnbound
  <2>2. p \in AliveSet /\ AliveSet' = AliveSet \ {p}
    BY <1>1, <1>3 DEF AliveSet
  <2>3. Identity!Free(p)
    BY <2>1, <2>2 DEF Identity!Free
  <2> QED  BY <2>3 DEF Identity!Next
<1> QED  BY <1>1, <1>2, <1>3

(* A step that allocates at a free address creates the object there.       *)
LEMMA AllocateRefines ==
  ASSUME IInv, NEW p \in Pointers, NEW kept \in BOOLEAN, Allocate(p, kept),
         ProxyMap' = ProxyMap
  PROVE  [Identity!Next]_(Identity!vars)
<1>1. p \notin AliveSet /\ AliveSet' = AliveSet \cup {p}
  BY DEF IInv, TypeOK, AliveSet, Allocate
<1>2. Identity!Create(p)
  BY <1>1 DEF Identity!Create
<1> QED  BY <1>2 DEF Identity!Next

(* A step that takes one more reference on a live object is a stutter.     *)
LEMMA RefRefines ==
  ASSUME IInv, NEW p \in Pointers, refs[p] > 0, refs' = [refs EXCEPT ![p] = @ + 1],
         ProxyMap' = ProxyMap
  PROVE  [Identity!Next]_(Identity!vars)
<1>1. AliveSet' = AliveSet
  BY DEF IInv, TypeOK, AliveSet
<1> QED  BY <1>1 DEF Identity!vars

(* Registration binds the finished wrapper to its object.                  *)
LEMMA RegisterRefines ==
  ASSUME IInv, NEW t \in Threads, InitRegister(t)
  PROVE  [Identity!Next]_(Identity!vars)
<1> DEFINE p == arg[t]
           w == self[t]
<1>1. /\ p \in Pointers /\ w \in Wrappers
      /\ fin[w] = "armed" /\ key[w] = p /\ ptr[w] = p
      /\ cache[p] = NULL
      /\ \A q \in Pointers : cache[q] # w
  BY DEF IInv, ThreadInv, BuildInv, InitRegister, Building
<1>2. Holders(p) # {}
  BY <1>1 DEF Holders
<1>3. p \in AliveSet /\ AliveSet' = AliveSet
  BY <1>1, <1>2, ReferencedAlive DEF IInv, AliveSet, InitRegister, cvars
<1>4. ProxyMap[p] = NULL /\ \A q \in Pointers : ProxyMap[q] # w
  BY <1>1, NullAssumption DEF ProxyMap
<1>5. ProxyMap' = [ProxyMap EXCEPT ![p] = w]
  BY <1>1, NullAssumption DEF IInv, TypeOK, ProxyMap, InitRegister, wvars
<1>6. Identity!Bind(p, w)
  BY <1>3, <1>4, <1>5 DEF Identity!Bind
<1> QED  BY <1>1, <1>6 DEF Identity!Next

(* Invalidating or collecting the wrapper that stands for p unbinds p.     *)
LEMMA UnbindRefines ==
  ASSUME IInv, NEW p \in Pointers, NEW w \in Wrappers, cache[p] = w, ptr[w] = p,
         UNCHANGED refs, ProxyMap' = [ProxyMap EXCEPT ![p] = NULL]
  PROVE  [Identity!Next]_(Identity!vars)
<1>1. Holders(p) # {}
  BY NullAssumption DEF IInv, CacheInv, Holders
<1>2. p \in AliveSet /\ AliveSet' = AliveSet
  BY <1>1, ReferencedAlive DEF IInv, AliveSet
<1>3. ProxyMap[p] # NULL
  BY NullAssumption DEF ProxyMap
<1>4. Identity!Unbind(p)
  BY <1>2, <1>3 DEF Identity!Unbind
<1> QED  BY <1>4 DEF Identity!Next

(* Zeroing _pointer is the moment the wrapper stops standing for the       *)
(* object.                                                                 *)
LEMMA InvalidateRefines ==
  ASSUME IInv, NEW t \in Threads, NEW w \in Wrappers, ReleaseInvalidate(t, w)
  PROVE  [Identity!Next]_(Identity!vars)
<1> DEFINE p == ptr[w]
<1>1. p \in Pointers /\ cache[p] = w
  BY HeldIsArmed DEF ReleaseInvalidate
<1>2. \A q \in Pointers \ {p} : cache[q] # w
  BY <1>1, HeldIsArmed, NullAssumption DEF IInv, CacheInv, ReleaseInvalidate
<1>3. ProxyMap' = [ProxyMap EXCEPT ![p] = NULL]
  BY <1>1, <1>2, NullAssumption DEF IInv, TypeOK, ProxyMap, ReleaseInvalidate
<1> QED  BY <1>1, <1>3, UnbindRefines DEF ReleaseInvalidate, cvars

(* The eviction that follows is a stutter.                                 *)
LEMMA EvictRefines ==
  ASSUME IInv, NEW t \in Threads, ReleaseEvict(t)
  PROVE  [Identity!Next]_(Identity!vars)
<1>1. ptr[self[t]] = NULL /\ arg[t] \in Pointers /\ self[t] \in Wrappers
  BY DEF IInv, ThreadInv, ReleaseEvict
<1>2. ProxyMap' = ProxyMap
  BY <1>1, NullAssumption DEF IInv, TypeOK, ProxyMap, ReleaseEvict, wvars
<1>3. AliveSet' = AliveSet
  BY DEF AliveSet, ReleaseEvict, cvars
<1> QED  BY <1>2, <1>3 DEF Identity!vars

(* Collecting a registered wrapper unbinds it; one already released was    *)
(* unbound before.                                                         *)
LEMMA CollectRefines ==
  ASSUME IInv, NEW w \in Wrappers, Collect(w)
  PROVE  [Identity!Next]_(Identity!vars)
<1>1. CASE \A p \in Pointers : cache[p] # w
  <2>1. cache' = cache
    BY <1>1 DEF IInv, TypeOK, Collect
  <2>2. ProxyMap' = ProxyMap /\ AliveSet' = AliveSet
    BY <2>1 DEF ProxyMap, AliveSet, Collect, cvars
  <2> QED  BY <2>2 DEF Identity!vars
<1>2. ASSUME NEW p \in Pointers, cache[p] = w
      PROVE  [Identity!Next]_(Identity!vars)
  <2>1. ptr[w] = p /\ \A q \in Pointers \ {p} : cache[q] # w
    BY <1>2, NullAssumption DEF IInv, CacheInv, Collect
  <2>2. ProxyMap' = [ProxyMap EXCEPT ![p] = NULL]
    BY <1>2, <2>1 DEF IInv, TypeOK, ProxyMap, Collect
  <2> QED  BY <1>2, <2>1, <2>2, UnbindRefines DEF Collect, cvars
<1> QED  BY <1>1, <1>2

(* Every step is a step of ObjectIdentity or a stutter.                    *)
LEMMA StepRefines ==
  ASSUME IInv, IInv', [Next]_vars
  PROVE  [Identity!Next]_(Identity!vars)
<1>1. ASSUME NEW p \in Pointers, LibCreate(p) PROVE [Identity!Next]_(Identity!vars)
  <2>1. ProxyMap' = ProxyMap
    BY <1>1 DEF ProxyMap, LibCreate, wvars
  <2> QED  BY <1>1, <2>1, AllocateRefines DEF LibCreate
<1>2. ASSUME NEW p \in Pointers, LibDrop(p) PROVE [Identity!Next]_(Identity!vars)
  <2>1. ProxyMap' = ProxyMap
    BY <1>2 DEF ProxyMap, LibDrop, wvars
  <2> QED  BY <1>2, <2>1, UnrefRefines DEF LibDrop
<1>3. ASSUME NEW p \in Pointers, NEW t \in Threads, LibTake(t, p)
      PROVE  [Identity!Next]_(Identity!vars)
  <2>1. ProxyMap' = ProxyMap
    BY <1>3 DEF ProxyMap, LibTake, wvars
  <2>2. PICK w \in held[t] : ptr[w] = p
    BY <1>3 DEF LibTake
  <2>3. Holders(p) # {}
    BY <2>2, HeldIsArmed, NullAssumption DEF Holders
  <2> QED  BY <1>3, <2>1, <2>3, ReferencedAlive, RefRefines DEF LibTake, IInv
<1>4. ASSUME NEW t \in Threads, NEW p \in Pointers, GetOwned(t, p)
      PROVE  [Identity!Next]_(Identity!vars)
  <2>1. ProxyMap' = ProxyMap
    BY <1>4 DEF ProxyMap, GetOwned, wvars
  <2> QED  BY <1>4, <2>1, AllocateRefines DEF GetOwned
<1>5. ASSUME NEW t \in Threads, NEW w \in Wrappers, GetOrCreateMiss(t, w) \/ Construct(t, w)
      PROVE  [Identity!Next]_(Identity!vars)
  <2>1. \A q \in Pointers : cache[q] # w
    BY <1>5, NullAssumption DEF IInv, CacheInv, GetOrCreateMiss, Construct, NewWrapper
  <2>2. ProxyMap' = ProxyMap /\ AliveSet' = AliveSet
    BY <1>5, <2>1
    DEF IInv, TypeOK, ProxyMap, AliveSet, GetOrCreateMiss, Construct, NewWrapper, cvars
  <2> QED  BY <2>2 DEF Identity!vars
<1>6. ASSUME NEW t \in Threads, InitRef(t) PROVE [Identity!Next]_(Identity!vars)
  <2>1. ProxyMap' = ProxyMap
    BY <1>6 DEF ProxyMap, InitRef
  <2>2. CASE TakesRef(t)
    <3>1. arg[t] \in Pointers /\ refs[arg[t]] > 0
      BY <1>6, <2>2, ReferencedAlive DEF IInv, ThreadInv, InitRef, TakesRef
    <3> QED  BY <1>6, <2>1, <2>2, <3>1, RefRefines DEF InitRef
  <2>3. CASE ~TakesRef(t)
    BY <1>6, <2>1, <2>3 DEF AliveSet, InitRef, Identity!vars
  <2> QED  BY <2>2, <2>3
<1>7. ASSUME NEW t \in Threads, ReleaseUnref(t) PROVE [Identity!Next]_(Identity!vars)
  <2>1. ProxyMap' = ProxyMap
    BY <1>7 DEF ProxyMap, ReleaseUnref
  <2>2. key[self[t]] \in Pointers
    BY <1>7 DEF IInv, ThreadInv, ReleaseUnref
  <2>3. CASE fin[self[t]] = "armed"
    BY <1>7, <2>1, <2>2, <2>3, UnrefRefines DEF ReleaseUnref
  <2>4. CASE fin[self[t]] # "armed"
    BY <1>7, <2>1, <2>4 DEF AliveSet, ReleaseUnref, Identity!vars
  <2> QED  BY <2>3, <2>4
<1>8. ASSUME NEW w \in Wrappers, Finalize(w) PROVE [Identity!Next]_(Identity!vars)
  <2>1. \A q \in Pointers : cache[q] # w
    BY <1>8, NullAssumption DEF IInv, CacheInv, Finalize
  <2>2. ProxyMap' = ProxyMap
    BY <1>8, <2>1 DEF IInv, TypeOK, ProxyMap, Finalize
  <2>3. key[w] \in Pointers
    BY <1>8 DEF IInv, TypeOK, WrapperInv, Finalize
  <2>4. CASE fin[w] = "armed"
    BY <1>8, <2>2, <2>3, <2>4, UnrefRefines DEF Finalize
  <2>5. CASE fin[w] # "armed"
    BY <1>8, <2>2, <2>5 DEF AliveSet, Finalize, Identity!vars
  <2> QED  BY <2>4, <2>5
<1>9. ASSUME NEW t \in Threads, NEW p \in Pointers, GetBorrowed(t, p)
      PROVE  [Identity!Next]_(Identity!vars)
  BY <1>9 DEF AliveSet, ProxyMap, GetBorrowed, cvars, wvars, Identity!vars
<1>10. ASSUME NEW t \in Threads, GetOrCreateHit(t) \/ CallEnd(t)
       PROVE  [Identity!Next]_(Identity!vars)
  BY <1>10 DEF AliveSet, ProxyMap, GetOrCreateHit, CallEnd, cvars, wvars, Identity!vars
<1>11. ASSUME NEW t \in Threads, NEW u \in Threads, NEW w \in Wrappers,
              CallStart(t, w) \/ Share(t, u, w) \/ Drop(t, w)
       PROVE  [Identity!Next]_(Identity!vars)
  BY <1>11 DEF AliveSet, ProxyMap, CallStart, Share, Drop, cvars, wvars, Identity!vars
<1>12. CASE UNCHANGED vars
  BY <1>12 DEF AliveSet, ProxyMap, vars, Identity!vars
<1>13. CASE Library
  BY <1>13, <1>1, <1>2, <1>3 DEF Library
<1>14. CASE Collector
  BY <1>14, <1>8, CollectRefines DEF Collector
<1>15. ASSUME NEW t \in Threads, Thread(t) PROVE [Identity!Next]_(Identity!vars)
  <2>1. CASE \E p \in Pointers : GetBorrowed(t, p) \/ GetOwned(t, p)
    BY <2>1, <1>4, <1>9
  <2>2. CASE \E w \in Wrappers : GetOrCreateMiss(t, w) \/ Construct(t, w)
    BY <2>2, <1>5
  <2>3. CASE GetOrCreateHit(t) \/ CallEnd(t)
    BY <2>3, <1>10
  <2>4. CASE InitRef(t) \/ InitRegister(t)
    BY <2>4, <1>6, RegisterRefines
  <2>5. CASE ReleaseEvict(t) \/ ReleaseUnref(t)
    BY <2>5, <1>7, EvictRefines
  <2>6. CASE \E w \in Wrappers : ReleaseInvalidate(t, w)
    BY <2>6, InvalidateRefines
  <2>7. CASE \E w \in Wrappers : CallStart(t, w) \/ Drop(t, w)
    BY <2>7, <1>11
  <2>8. CASE \E u \in Threads, w \in Wrappers : Share(t, u, w)
    BY <2>8, <1>11
  <2> QED  BY <1>15, <2>1, <2>2, <2>3, <2>4, <2>5, <2>6, <2>7, <2>8 DEF Thread
<1> QED  BY <1>12, <1>13, <1>14, <1>15 DEF Next

(* The hierarchy, with its locks, counts and finalizers, implements the    *)
(* identity map of ObjectIdentity: one proxy per object, and the object    *)
(* outlives it.                                                            *)
THEOREM Refinement == Spec => KeepsIdentity
<1>1. Init => Identity!Init
  BY DEF Init, Identity!Init, AliveSet, ProxyMap
<1>2. IInv /\ IInv' /\ [Next]_vars => [Identity!Next]_(Identity!vars)
  BY StepRefines
<1> QED  BY <1>1, <1>2, Invariance, PTL DEF Spec, KeepsIdentity, Identity!Spec
=============================================================================
