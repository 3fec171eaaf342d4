------------------------------- MODULE IdLock -------------------------------
(***************************************************************************)
(* What pkg/util's VolumeLocks promises to the two gRPC servers: one       *)
(* exclusive lock per identifier, taken by the goroutine that serves a     *)
(* request and given back when its handler returns.  The handlers of the   *)
(* node and controller services are modelled on top of this abstraction;   *)
(* VolumeLocks.tla is the implementation that is shown to refine it.       *)
(***************************************************************************)
CONSTANTS
    Ids,        \* identifiers a lock is taken on (volume ids, volume names)
    Threads,    \* goroutines that serve requests
    Free        \* holder of a lock nobody holds

VARIABLE holder \* holder[id]: the goroutine inside id's critical section

Init == holder = [id \in Ids |-> Free]

\* Lock(id) returns to goroutine t.
Acquire(t, id) ==
    /\ holder[id] = Free
    /\ holder' = [holder EXCEPT ![id] = t]

\* The function returned by Lock(id) is called (the handlers defer it).
Release(t, id) ==
    /\ holder[id] = t
    /\ holder' = [holder EXCEPT ![id] = Free]

\* The process ends; the next one starts with NewVolumeLocks().
Reset == holder' = [id \in Ids |-> Free]

Next ==
    \/ \E t \in Threads, id \in Ids : Acquire(t, id) \/ Release(t, id)
    \/ Reset

Spec == Init /\ [][Next]_holder
=============================================================================
