-------------------------- MODULE LazyLoaderProofs --------------------------
(***************************************************************************)
(* Proofs about LazyLoader, for any number of threads and bindings: the    *)
(* library is opened once, a function is typed before it is called, and    *)
(* every thread is told the same about what is there.                      *)
(***************************************************************************)
EXTENDS LazyLoader, TLAPS

USE NullAssumption

(* Nothing has been loaded, typed or called in an initial state.           *)
LEMMA InitInv == Init => IInv
<1> SUFFICES ASSUME Init PROVE IInv
  OBVIOUS
<1>1. TypeOK
  BY DEF Init, TypeOK, PC
<1>2. LoadInv
  BY DEF Init, LoadInv
<1>3. LockInv /\ NameInv /\ TypedInv
  BY DEF Init, LockInv, NameInv, TypedInv
<1>4. AnswersAgree
  BY DEF Init, AnswersAgree
<1> QED  BY <1>1, <1>2, <1>3, <1>4 DEF IInv

(* Starting a call changes only where the thread is; a filled cache holds  *)
(* a typed function of a library that is loaded.                           *)
LEMMA CallBindingStep ==
  ASSUME IInv, NEW t \in Threads, NEW n \in Names, CallBinding(t, n)
  PROVE  IInv'
<1>1. TypeOK'
  BY DEF IInv, TypeOK, CallBinding, Goto, PC
<1>2. LoadInv' /\ LockInv'
  BY DEF IInv, TypeOK, LoadInv, LockInv, CallBinding, Goto, PC
<1>3. NameInv' /\ TypedInv'
  BY DEF IInv, TypeOK, NameInv, TypedInv, CallBinding, Goto, PC
<1>4. AnswersAgree'
  BY DEF IInv, TypeOK, AnswersAgree, Present, CallBinding, Goto, PC
<1> QED  BY <1>1, <1>2, <1>3, <1>4 DEF IInv

(* The same for is_available(), which has no binding.                      *)
LEMMA IsAvailableStep ==
  ASSUME IInv, NEW t \in Threads, IsAvailable(t)
  PROVE  IInv'
<1>1. TypeOK'
  BY DEF IInv, TypeOK, IsAvailable, Goto, PC
<1>2. LoadInv' /\ LockInv'
  BY DEF IInv, TypeOK, LoadInv, LockInv, IsAvailable, Goto, PC
<1>3. NameInv' /\ TypedInv'
  BY DEF IInv, TypeOK, NameInv, TypedInv, IsAvailable, Goto, PC
<1>4. AnswersAgree'
  BY DEF IInv, TypeOK, AnswersAgree, Present, IsAvailable, Goto, PC
<1> QED  BY <1>1, <1>2, <1>3, <1>4 DEF IInv

(* The unlocked check trusts _lib only when it is set, and then it stays.  *)
LEMMA FastPathStep ==
  ASSUME IInv, NEW t \in Threads, FastPath(t)
  PROVE  IInv'
<1>1. TypeOK'
  BY DEF IInv, TypeOK, FastPath, Loaded, Goto, PC
<1>2. LoadInv' /\ LockInv'
  BY DEF IInv, TypeOK, LoadInv, LockInv, FastPath, Loaded, Goto, PC
<1>3. NameInv' /\ TypedInv'
  BY DEF IInv, TypeOK, NameInv, TypedInv, FastPath, Loaded, Goto, PC
<1>4. AnswersAgree'
  BY DEF IInv, TypeOK, LoadInv, AnswersAgree, Present, FastPath, Loaded, Goto, PC
<1> QED  BY <1>1, <1>2, <1>3, <1>4 DEF IInv

(* The lock is taken by one thread.                                        *)
LEMMA AcquireStep ==
  ASSUME IInv, NEW t \in Threads, Acquire(t)
  PROVE  IInv'
<1>1. TypeOK'
  BY DEF IInv, TypeOK, Acquire, Goto, PC
<1>2. LoadInv' /\ LockInv'
  BY DEF IInv, TypeOK, LoadInv, LockInv, Acquire, Goto, PC
<1>3. NameInv' /\ TypedInv'
  BY DEF IInv, TypeOK, NameInv, TypedInv, Acquire, Goto, PC
<1>4. AnswersAgree'
  BY DEF IInv, TypeOK, AnswersAgree, Present, Acquire, Goto, PC
<1> QED  BY <1>1, <1>2, <1>3, <1>4 DEF IInv

(* Only a thread that has found neither _lib nor _load_error goes on to    *)
(* open the library, and it keeps the lock.                                *)
LEMMA CheckAgainStep ==
  ASSUME IInv, NEW t \in Threads, CheckAgain(t)
  PROVE  IInv'
<1>1. TypeOK'
  BY DEF IInv, TypeOK, CheckAgain, Loaded, NotFound, Goto, PC
<1>2. LoadInv' /\ LockInv'
  BY DEF IInv, TypeOK, LoadInv, LockInv, CheckAgain, Loaded, NotFound, Goto, PC
<1>3. NameInv' /\ TypedInv'
  BY DEF IInv, TypeOK, NameInv, TypedInv, CheckAgain, Loaded, NotFound, Goto, PC
<1>4. AnswersAgree'
  BY DEF IInv, TypeOK, LoadInv, AnswersAgree, Present, CheckAgain, Loaded,
         NotFound, Goto, PC
<1> QED  BY <1>1, <1>2, <1>3, <1>4 DEF IInv

(* The one thread that opens the library finds it neither open nor failed. *)
LEMMA DlopenStep ==
  ASSUME IInv, NEW t \in Threads, Dlopen(t)
  PROVE  IInv'
<1>1. TypeOK'
  BY DEF IInv, TypeOK, Dlopen, Loaded, NotFound, Goto, PC
<1>2. LoadInv' /\ LockInv'
  <2>1. ~lib /\ ~loadError /\ lock = t
    BY DEF IInv, LockInv, Dlopen
  <2>2. LoadInv'
    <3>1. opens = 0
      BY <2>1 DEF IInv, LoadInv
    <3>2. opens' = 1
      BY <3>1 DEF Dlopen
    <3>3. lib' = installed /\ loadError' = ~installed /\ installed' = installed
      BY DEF Dlopen
    <3> QED  BY <3>2, <3>3, Zenon DEF LoadInv
  <2>3. LockInv'
    BY <2>1 DEF IInv, TypeOK, LockInv, Dlopen, Loaded, NotFound, Goto, PC
  <2> QED  BY <2>2, <2>3
<1>3. NameInv' /\ TypedInv'
  BY DEF IInv, TypeOK, LoadInv, LockInv, NameInv, TypedInv, Dlopen, Loaded,
         NotFound, Goto, PC
<1>4. AnswersAgree'
  BY DEF IInv, TypeOK, LoadInv, AnswersAgree, Present, Dlopen, Loaded,
         NotFound, Goto, PC
<1> QED  BY <1>1, <1>2, <1>3, <1>4 DEF IInv

(* A symbol is found exactly if the library exports it.                    *)
LEMMA ResolveStep ==
  ASSUME IInv, NEW t \in Threads, Resolve(t)
  PROVE  IInv'
<1>1. TypeOK'
  BY DEF IInv, TypeOK, Resolve, NotFound, Goto, PC
<1>2. LoadInv' /\ LockInv'
  BY DEF IInv, TypeOK, LoadInv, LockInv, Resolve, NotFound, Goto, PC
<1>3. NameInv' /\ TypedInv'
  BY DEF IInv, TypeOK, NameInv, TypedInv, Resolve, NotFound, Goto, PC
<1>4. AnswersAgree'
  BY DEF IInv, TypeOK, LoadInv, NameInv, AnswersAgree, Present, Resolve,
         NotFound, Goto, PC
<1> QED  BY <1>1, <1>2, <1>3, <1>4 DEF IInv

(* Another thread that types the same function object takes no type away.  *)
LEMMA SetArgtypesStep ==
  ASSUME IInv, NEW t \in Threads, SetArgtypes(t)
  PROVE  IInv'
<1>1. TypeOK'
  BY DEF IInv, TypeOK, NameInv, SetArgtypes, SetType, Goto, PC, Types
<1>2. LoadInv' /\ LockInv'
  BY DEF IInv, TypeOK, LoadInv, LockInv, SetArgtypes, SetType, Goto, PC
<1>3. NameInv' /\ TypedInv'
  BY DEF IInv, TypeOK, NameInv, TypedInv, SetArgtypes, SetType, Goto, PC, Types
<1>4. AnswersAgree'
  BY DEF IInv, TypeOK, AnswersAgree, Present, SetArgtypes, SetType, Goto, PC
<1> QED  BY <1>1, <1>2, <1>3, <1>4 DEF IInv

(* The result type comes after the argument types: now both are there.     *)
LEMMA SetRestypeStep ==
  ASSUME IInv, NEW t \in Threads, SetRestype(t)
  PROVE  IInv'
<1>1. TypeOK'
  BY DEF IInv, TypeOK, NameInv, SetRestype, SetType, Goto, PC, Types
<1>2. LoadInv' /\ LockInv'
  BY DEF IInv, TypeOK, LoadInv, LockInv, SetRestype, SetType, Goto, PC
<1>3. NameInv' /\ TypedInv'
  BY DEF IInv, TypeOK, NameInv, TypedInv, SetRestype, SetType, Goto, PC, Types
<1>4. AnswersAgree'
  BY DEF IInv, TypeOK, AnswersAgree, Present, SetRestype, SetType, Goto, PC
<1> QED  BY <1>1, <1>2, <1>3, <1>4 DEF IInv

(* The cache is filled with a function that has both types.                *)
LEMMA KeepStep ==
  ASSUME IInv, NEW t \in Threads, Keep(t)
  PROVE  IInv'
<1>1. TypeOK'
  BY DEF IInv, TypeOK, NameInv, Keep, Goto, PC
<1>2. LoadInv' /\ LockInv'
  BY DEF IInv, TypeOK, LoadInv, LockInv, Keep, Goto, PC
<1>3. NameInv' /\ TypedInv'
  BY DEF IInv, TypeOK, NameInv, TypedInv, Keep, Goto, PC
<1>4. AnswersAgree'
  BY DEF IInv, TypeOK, AnswersAgree, Present, Keep, Goto, PC
<1> QED  BY <1>1, <1>2, <1>3, <1>4 DEF IInv

(* A C function that returns was found in an installed library.            *)
LEMMA CReturnsStep ==
  ASSUME IInv, NEW t \in Threads, CReturns(t)
  PROVE  IInv'
<1>1. TypeOK'
  BY DEF IInv, TypeOK, CReturns, Goto, PC
<1>2. LoadInv' /\ LockInv'
  BY DEF IInv, TypeOK, LoadInv, LockInv, CReturns, Goto, PC
<1>3. NameInv' /\ TypedInv'
  BY DEF IInv, TypeOK, NameInv, TypedInv, CReturns, Goto, PC
<1>4. AnswersAgree'
  BY DEF IInv, TypeOK, LoadInv, NameInv, TypedInv, AnswersAgree, Present,
         CReturns, Goto, PC
<1> QED  BY <1>1, <1>2, <1>3, <1>4 DEF IInv

(* Every step keeps the inductive invariant.                               *)
LEMMA NextInv == IInv /\ [Next]_vars => IInv'
<1> SUFFICES ASSUME IInv, [Next]_vars PROVE IInv'
  OBVIOUS
<1>1. CASE UNCHANGED vars
  BY <1>1 DEF vars, IInv, TypeOK, LoadInv, LockInv, NameInv, TypedInv,
              AnswersAgree, Present
<1>2. ASSUME NEW t \in Threads, NEW n \in Names, CallBinding(t, n)
      PROVE  IInv'
  BY <1>2, CallBindingStep
<1>3. ASSUME NEW t \in Threads, IsAvailable(t)  PROVE IInv'
  BY <1>3, IsAvailableStep
<1>4. ASSUME NEW t \in Threads, Inside(t)  PROVE IInv'
  BY <1>4, FastPathStep, AcquireStep, CheckAgainStep, DlopenStep, ResolveStep,
     SetArgtypesStep, SetRestypeStep, KeepStep, CReturnsStep DEF Inside
<1> QED  BY <1>1, <1>2, <1>3, <1>4 DEF Next

(* The inductive invariant holds in every reachable state, for any set of  *)
(* threads and of bindings.                                                *)
THEOREM Invariance == Spec => []IInv
  BY InitInv, NextInv, PTL DEF Spec

(* dlopen() is called at most once, however many threads make their first  *)
(* call together and whether or not it succeeds (loader.py:41-58).         *)
THEOREM OneDlopen == Spec => []OpensOnce
<1>1. IInv => OpensOnce
  BY DEF IInv, LoadInv, OpensOnce
<1> QED  BY <1>1, Invariance, PTL

(* No thread enters a C function whose argument and result types are not   *)
(* both set, not even through a cache another thread has just filled       *)
(* (loader.py:120-134).                                                    *)
THEOREM TypedCalls == Spec => []TypedBeforeCall
<1>1. IInv => TypedBeforeCall
  BY DEF IInv, TypedInv, TypedBeforeCall
<1> QED  BY <1>1, Invariance, PTL

(* Every finished call, and every is_available(), has told its thread the  *)
(* truth about the library and the symbol (loader.py:66-77, 123-129).      *)
THEOREM SameAnswer == Spec => []AnswersAgree
<1>1. IInv => AnswersAgree
  BY DEF IInv
<1> QED  BY <1>1, Invariance, PTL
=============================================================================
