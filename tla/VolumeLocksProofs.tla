-------------------------- MODULE VolumeLocksProofs --------------------------
(***************************************************************************)
(* pkg/util/idlocker.go for any number of identifiers, goroutines and      *)
(* mutex objects: the invariant, mutual exclusion, and refinement of the   *)
(* abstract per-identifier lock.                                           *)
(***************************************************************************)
EXTENDS VolumeLocks, TLAPS

LEMMA InitIInv == Init => IInv
BY LockConstants DEF Init, Fresh, IInv, TypeOK, Injective, Local, OwnerInside

\* Every step of Lock, of its callers and of a restart keeps the invariant:
\* the mutex a goroutine holds in mtx is the one the map has for its id.
LEMMA NextIInv == IInv /\ [Next]_vars => IInv'
<1> SUFFICES ASSUME IInv, [Next]_vars PROVE IInv'
  OBVIOUS
<1> USE LockConstants
<1>1. ASSUME NEW t \in Threads, NEW i \in Ids, Call(t, i) PROVE IInv'
  BY <1>1 DEF IInv, TypeOK, Injective, Local, OwnerInside, Call
<1>2. ASSUME NEW t \in Threads, NEW m \in Mutexes, LoadOrStore(t, m) PROVE IInv'
  <2> DEFINE stored == IF mutexes[id[t]] = None THEN m ELSE mutexes[id[t]]
  <2>1. /\ id[t] \in Ids
        /\ stored \in Mutexes
        /\ mutexes' = [mutexes EXCEPT ![id[t]] = stored]
        /\ mtx' = [mtx EXCEPT ![t] = stored]
        /\ pc' = [pc EXCEPT ![t] = "loaded"]
        /\ UNCHANGED <<owner, id>>
        /\ pc[t] = "called"
    BY <1>2 DEF IInv, TypeOK, Local, LoadOrStore
  <2>2. TypeOK'
    BY <2>1 DEF IInv, TypeOK
  <2>3. Injective'
    BY <1>2, <2>1 DEF IInv, TypeOK, Injective, LoadOrStore, Unshared
  <2>4. ASSUME NEW s \in Threads PROVE Local(s)'
    BY <1>2, <2>1 DEF IInv, TypeOK, Local, LoadOrStore, Unshared
  <2>5. OwnerInside'
    BY <2>1 DEF IInv, TypeOK, OwnerInside
  <2> QED
    BY <2>2, <2>3, <2>4, <2>5 DEF IInv
<1>3. ASSUME NEW t \in Threads, MutexLock(t) PROVE IInv'
  BY <1>3 DEF IInv, TypeOK, Injective, Local, OwnerInside, MutexLock
<1>4. ASSUME NEW t \in Threads, Unlock(t) PROVE IInv'
  BY <1>4 DEF IInv, TypeOK, Injective, Local, OwnerInside, Unlock
<1>5. CASE NewVolumeLocks
  BY <1>5 DEF NewVolumeLocks, Fresh, IInv, TypeOK, Injective, Local, OwnerInside
<1>6. CASE UNCHANGED vars
  BY <1>6 DEF vars, IInv, TypeOK, Injective, Local, OwnerInside
<1> QED
  BY <1>1, <1>2, <1>3, <1>4, <1>5, <1>6 DEF Next

\* The inductive invariant, and with it TypeOK, holds in every reachable
\* state of VolumeLocks.
THEOREM Invariance == Spec => []IInv
BY InitIInv, NextIInv, PTL DEF Spec

\* Two goroutines are never between Lock(id) and the unlock of the same id,
\* however their LoadOrStore and Lock calls interleave.
THEOREM LocksExclude == Spec => []MutualExclusion
<1>1. IInv => MutualExclusion
  BY DEF IInv, Local, MutualExclusion
<1> QED
  BY <1>1, Invariance, PTL

\* The owner of the mutex the map has for an identifier.
ownerOf ==
    [i \in Ids |-> IF mutexes[i] = None THEN Free ELSE owner[mutexes[i]]]

\* The goroutine inside an identifier's critical section, if any, is the one
\* that has locked the mutex in the map.
LEMMA HolderIsOwner == IInv => holderOf = ownerOf
<1> SUFFICES ASSUME IInv, NEW i \in Ids PROVE holderOf[i] = ownerOf[i]
  BY DEF holderOf, ownerOf
<1> USE LockConstants
<1>1. CASE mutexes[i] = None \/ owner[mutexes[i]] = Free
  <2>1. Inside(i) = {}
    BY <1>1 DEF IInv, TypeOK, Local, Inside
  <2>2. ownerOf[i] = Free
    BY <1>1 DEF ownerOf
  <2> QED
    BY <2>1, <2>2 DEF holderOf
<1>2. CASE mutexes[i] # None /\ owner[mutexes[i]] # Free
  <2> DEFINE h == owner[mutexes[i]]
  <2>1. mutexes[i] \in Mutexes /\ h \in Threads
    BY <1>2 DEF IInv, TypeOK
  <2>2. pc[h] = "in" /\ mtx[h] = mutexes[i]
    BY <1>2, <2>1 DEF IInv, OwnerInside
  <2>3. id[h] = i
    BY <2>1, <2>2 DEF IInv, TypeOK, Local, Injective
  <2>4. \A t \in Inside(i) : t = h
    BY DEF IInv, Local, Inside
  <2>5. Inside(i) = {h}
    BY <2>1, <2>2, <2>3, <2>4 DEF Inside
  <2> QED
    BY <1>2, <2>5 DEF holderOf, ownerOf
<1> QED
  BY <1>1, <1>2

\* LoadOrStore does not change who holds which lock: it can only install an
\* unlocked mutex where there was none.
LEMMA LoadKeepsHolders ==
  ASSUME IInv, NEW t \in Threads, NEW m \in Mutexes, LoadOrStore(t, m)
  PROVE  UNCHANGED ownerOf
<1>1. ASSUME NEW i \in Ids
      PROVE  (IF mutexes'[i] = None THEN Free ELSE owner'[mutexes'[i]])
                = (IF mutexes[i] = None THEN Free ELSE owner[mutexes[i]])
  BY LockConstants DEF IInv, TypeOK, Local, LoadOrStore, Unshared
<1> QED
  BY <1>1 DEF ownerOf

\* VolumeLocks implements IdLock: mutex look-ups are invisible, mtx.Lock and
\* mtx.Unlock are Acquire and Release of exactly the caller's identifier.
THEOREM VolumeLocksRefinesIdLock == Spec => Refinement
<1> USE LockConstants
<1>1. Init => IdLockSpec!Init
  BY DEF Init, Fresh, IdLockSpec!Init, holderOf, Inside
<1>2. (IInv => holderOf = ownerOf)'
  BY HolderIsOwner, PTL
<1>3. IInv /\ [Next]_vars => [IdLockSpec!Next]_holderOf
  <2> SUFFICES ASSUME IInv, [Next]_vars PROVE [IdLockSpec!Next]_holderOf
    OBVIOUS
  <2>0. holderOf = ownerOf /\ holderOf' = ownerOf'
    BY <1>2, HolderIsOwner, NextIInv
  <2>1. ASSUME NEW t \in Threads, NEW i \in Ids, Call(t, i)
        PROVE  UNCHANGED ownerOf
    BY <2>1 DEF Call, ownerOf
  <2>2. ASSUME NEW t \in Threads, NEW m \in Mutexes, LoadOrStore(t, m)
        PROVE  UNCHANGED ownerOf
    BY <2>2, LoadKeepsHolders
  <2>3. ASSUME NEW t \in Threads, MutexLock(t)
        PROVE  IdLockSpec!Acquire(t, id[t])
    <3>1. id[t] \in Ids /\ mtx[t] \in Mutexes /\ mutexes[id[t]] = mtx[t]
      BY <2>3 DEF IInv, TypeOK, Local, MutexLock
    <3>2. ownerOf[id[t]] = Free
      BY <2>3, <3>1 DEF MutexLock, ownerOf
    <3>3. ASSUME NEW i \in Ids
          PROVE  (IF mutexes'[i] = None THEN Free ELSE owner'[mutexes'[i]])
                    = [ownerOf EXCEPT ![id[t]] = t][i]
      BY <2>3, <3>1 DEF IInv, TypeOK, Injective, MutexLock, ownerOf
    <3>4. ownerOf' = [ownerOf EXCEPT ![id[t]] = t]
      BY <3>3 DEF ownerOf
    <3> QED
      BY <2>0, <3>2, <3>4 DEF IdLockSpec!Acquire
  <2>4. ASSUME NEW t \in Threads, Unlock(t)
        PROVE  IdLockSpec!Release(t, id[t])
    <3>1. /\ id[t] \in Ids /\ mtx[t] \in Mutexes
          /\ mutexes[id[t]] = mtx[t] /\ owner[mtx[t]] = t
      BY <2>4 DEF IInv, TypeOK, Local, Unlock
    <3>2. ownerOf[id[t]] = t
      BY <3>1 DEF ownerOf
    <3>3. ASSUME NEW i \in Ids
          PROVE  (IF mutexes'[i] = None THEN Free ELSE owner'[mutexes'[i]])
                    = [ownerOf EXCEPT ![id[t]] = Free][i]
      BY <2>4, <3>1 DEF IInv, TypeOK, Injective, Unlock, ownerOf
    <3>4. ownerOf' = [ownerOf EXCEPT ![id[t]] = Free]
      BY <3>3 DEF ownerOf
    <3> QED
      BY <2>0, <3>2, <3>4 DEF IdLockSpec!Release
  <2>5. CASE NewVolumeLocks
    BY <2>0, <2>5 DEF NewVolumeLocks, Fresh, IdLockSpec!Next, IdLockSpec!Reset, ownerOf
  <2>6. CASE UNCHANGED vars
    BY <2>0, <2>6 DEF vars, ownerOf
  <2> QED
    BY <2>0, <2>1, <2>2, <2>3, <2>4, <2>5, <2>6
       DEF Next, IdLockSpec!Next, IInv, TypeOK, Local, MutexLock, Unlock
<1> QED
  BY <1>1, <1>3, Invariance, PTL DEF Spec, Refinement, IdLockSpec!Spec
=============================================================================
