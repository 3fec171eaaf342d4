----------------------------- MODULE VolumeLocks -----------------------------
(***************************************************************************)
(* pkg/util/idlocker.go.  VolumeLocks keeps a sync.Map from identifier to  *)
(* *sync.Mutex.  Lock(id) first builds a new mutex, then LoadOrStore()s it *)
(* (atomic: the stored mutex is the one already there, if any), then locks *)
(* the mutex it got.  Between the two calls other goroutines may run.      *)
(* Mutexes are never removed from the map.                                 *)
(***************************************************************************)
EXTENDS Naturals

CONSTANTS
    Ids,        \* volume ids (node server) or volume names (controller)
    Threads,    \* goroutines calling Lock
    Mutexes,    \* mutex objects that &sync.Mutex{} can return
    Free,       \* owner of an unlocked mutex
    None        \* "no entry", "no id", "no mutex"

ASSUME LockConstants ==
    /\ Free \notin Threads
    /\ None \notin Mutexes \cup Ids

VARIABLES
    mutexes,    \* VolumeLocks.mutexes, the sync.Map
    owner,      \* owner[m]: the goroutine that has locked mutex m
    pc,         \* where goroutine t is in Lock / in its critical section
    id,         \* the volumeID argument of t's call of Lock
    mtx         \* the local variable mtx of t's call of Lock

vars == <<mutexes, owner, pc, id, mtx>>

TypeOK ==
    /\ mutexes \in [Ids -> Mutexes \cup {None}]
    /\ owner \in [Mutexes -> Threads \cup {Free}]
    /\ pc \in [Threads -> {"out", "called", "loaded", "in"}]
    /\ id \in [Threads -> Ids \cup {None}]
    /\ mtx \in [Threads -> Mutexes \cup {None}]

\* A process starts with an empty map: NewVolumeLocks().
Fresh(m, o, p, i, x) ==
    /\ m = [i_ \in Ids |-> None]
    /\ o = [m_ \in Mutexes |-> Free]
    /\ p = [t \in Threads |-> "out"]
    /\ i = [t \in Threads |-> None]
    /\ x = [t \in Threads |-> None]

Init == Fresh(mutexes, owner, pc, id, mtx)

Call(t, i) ==
    /\ pc[t] = "out"
    /\ pc' = [pc EXCEPT ![t] = "called"]
    /\ id' = [id EXCEPT ![t] = i]
    /\ UNCHANGED <<mutexes, owner, mtx>>

\* m is the mutex built for this call: an object nobody else refers to.
Unshared(m) ==
    /\ \A i \in Ids : mutexes[i] # m
    /\ \A t \in Threads : mtx[t] # m
    /\ owner[m] = Free

\* Bug: Store instead of LoadOrStore, so every call gets its own mutex.
StoreAlways(t, m) ==
    /\ pc[t] = "called"
    /\ Unshared(m)
    /\ mutexes' = [mutexes EXCEPT ![id[t]] = m]
    /\ mtx' = [mtx EXCEPT ![t] = m]
    /\ pc' = [pc EXCEPT ![t] = "loaded"]
    /\ UNCHANGED <<owner, id>>

LoadOrStore(t, m) ==
    /\ pc[t] = "called"
    /\ Unshared(m)
    /\ LET stored == IF mutexes[id[t]] = None THEN m ELSE mutexes[id[t]]
       IN  /\ mutexes' = [mutexes EXCEPT ![id[t]] = stored]
           /\ mtx' = [mtx EXCEPT ![t] = stored]
    /\ pc' = [pc EXCEPT ![t] = "loaded"]
    /\ UNCHANGED <<owner, id>>

\* mtx.Lock() returns: the caller is in its critical section.
MutexLock(t) ==
    /\ pc[t] = "loaded"
    /\ owner[mtx[t]] = Free
    /\ owner' = [owner EXCEPT ![mtx[t]] = t]
    /\ pc' = [pc EXCEPT ![t] = "in"]
    /\ UNCHANGED <<mutexes, id, mtx>>

\* Bug: the handler forgets to defer the unlock.
LeaveLocked(t) ==
    /\ pc[t] = "in"
    /\ pc' = [pc EXCEPT ![t] = "out"]
    /\ id' = [id EXCEPT ![t] = None]
    /\ mtx' = [mtx EXCEPT ![t] = None]
    /\ UNCHANGED <<mutexes, owner>>

\* The returned closure runs: mtx.Unlock().
Unlock(t) ==
    /\ pc[t] = "in"
    /\ owner' = [owner EXCEPT ![mtx[t]] = Free]
    /\ pc' = [pc EXCEPT ![t] = "out"]
    /\ id' = [id EXCEPT ![t] = None]
    /\ mtx' = [mtx EXCEPT ![t] = None]
    /\ UNCHANGED mutexes

\* The process is restarted; every goroutine is gone with its locks.
NewVolumeLocks == Fresh(mutexes', owner', pc', id', mtx')

LockStep(t) == (\E m \in Mutexes : LoadOrStore(t, m)) \/ Unlock(t)

Next ==
    \/ \E t \in Threads :
          \/ \E i \in Ids : Call(t, i)
          \/ \E m \in Mutexes : LoadOrStore(t, m)
          \/ MutexLock(t)
          \/ Unlock(t)
    \/ NewVolumeLocks

Spec == Init /\ [][Next]_vars

\* Critical sections end (the handlers defer the unlock) and sync.Mutex does
\* not starve a waiter: after 1 ms it switches to first-in first-out hand-off.
FairSpec ==
    /\ Spec
    /\ \A t \in Threads : WF_vars(LockStep(t)) /\ SF_vars(MutexLock(t))

-----------------------------------------------------------------------------
\* The critical sections of one identifier exclude each other although the
\* mutex is looked up and locked in two steps and created on first use.
MutualExclusion ==
    \A s, t \in Threads :
        pc[s] = "in" /\ pc[t] = "in" /\ id[s] = id[t] => s = t

\* The goroutines between Lock(i) and its unlock, and the lock of an
\* identifier as its callers see it, whatever mutex they use.
Inside(i) == {t \in Threads : pc[t] = "in" /\ id[t] = i}

holderOf ==
    [i \in Ids |-> IF Inside(i) = {} THEN Free ELSE CHOOSE t \in Inside(i) : TRUE]

\* VolumeLocks implements one lock per identifier (Lock returns only to the
\* goroutine that then holds it, Unlock gives exactly that lock back).
IdLockSpec == INSTANCE IdLock WITH holder <- holderOf
Refinement == IdLockSpec!Spec

\* A call of Lock returns (unless the process ends), whatever the others do.
LockReturns == \A t \in Threads : pc[t] = "called" ~> pc[t] \in {"in", "out"}

-----------------------------------------------------------------------------
(* The inductive invariant behind MutualExclusion and Refinement.          *)

\* Two identifiers never share a mutex.
Injective ==
    \A i, j \in Ids : mutexes[i] = mutexes[j] /\ mutexes[i] # None => i = j

\* A goroutine that has looked its mutex up has the one in the map.
Local(t) ==
    /\ pc[t] = "out" <=> id[t] = None
    /\ pc[t] \in {"loaded", "in"} =>
          /\ mtx[t] \in Mutexes
          /\ mutexes[id[t]] = mtx[t]
    /\ pc[t] \in {"out", "called"} => mtx[t] = None
    /\ pc[t] = "in" => owner[mtx[t]] = t

\* A locked mutex is locked by a goroutine in its critical section.
OwnerInside ==
    \A m \in Mutexes :
        owner[m] # Free => pc[owner[m]] = "in" /\ mtx[owner[m]] = m

IInv ==
    /\ TypeOK
    /\ Injective
    /\ \A t \in Threads : Local(t)
    /\ OwnerInside
=============================================================================
