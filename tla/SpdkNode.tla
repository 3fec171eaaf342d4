------------------------------ MODULE SpdkNode ------------------------------
(***************************************************************************)
(* The SPDK storage node: nodeNVMf (pkg/util/nvmf.go) on top of the        *)
(* JSON-RPC client (pkg/util/jsonrpc.go).                                  *)
(*                                                                         *)
(* A logical volume is published as an NVMe-oF subsystem of its own (NQN   *)
(* made from the volume id) with one namespace and one listener, built and *)
(* taken down one RPC at a time.  Every RPC may fail, before or after the  *)
(* target has executed it.  getVolume takes the first element of an empty  *)
(* result when its RPC fails with anything but "No such device": the       *)
(* process panics.                                                         *)
(*                                                                         *)
(* As the contract of interface SpdkNode has it, the caller serializes     *)
(* publish, unpublish and delete of one volume; all else may overlap.  The *)
(* SPDK target is external: modelled from how the client uses it.          *)
(***************************************************************************)
EXTENDS Naturals

CONSTANTS
    Names,      \* names of logical volumes, clones and snapshots
    Threads,    \* goroutines calling the SpdkNode interface
    None,       \* no call, no result, no volume
    MaxLvols    \* bound: logical volumes ever made (space of the lvstore)

ASSUME SpdkConstants ==
    /\ MaxLvols \in Nat
    /\ None \notin Names \cup (1 .. MaxLvols)

Ids == 1 .. MaxLvols

Calls ==
    [op : {"create"}, name : Names]
    \cup [op : {"clone", "snapshot"}, name : Names, vol : Ids]
    \cup [op : {"info", "publish", "unpublish", "delete"}, vol : Ids]

Serialized == {"publish", "unpublish", "delete"}

\* The target: name[v] of the logical volume v (None: there is none), how
\* many were made, whether the transport exists, and for each volume its
\* subsystem, with the namespace and the listener in it.
Target ==
    [name : [Ids -> Names \cup {None}], made : 0 .. MaxLvols, transport : BOOLEAN,
     subsystems : SUBSET Ids, ns : SUBSET Ids, listeners : SUBSET Ids]

VARIABLES
    pc,           \* the RPC goroutine t makes next; "ok"/"err": its result
    call,         \* the call goroutine t is in
    result,       \* the volume id it returns
    transCreated, \* nodeNVMf.transCreated
    spdk,         \* the target
    broken        \* history: subsystems a lost or failed RPC has left behind

vars == <<pc, call, result, transCreated, spdk, broken>>

PcValues ==
    {"idle", "lookup", "make", "info", "source", "lvstores", "exists",
     "listeners", "flag", "transport", "subsystem", "addNs", "addListener",
     "undoNs", "undoSubsystem", "removeNs", "deleteSubsystem", "delete",
     "ok", "err"}

TypeOK ==
    /\ pc \in [Threads -> PcValues]
    /\ call \in [Threads -> Calls \cup {None}]
    /\ result \in [Threads -> Ids \cup {None}]
    /\ transCreated \in BOOLEAN
    /\ spdk \in Target
    /\ broken \subseteq Ids

\* A new process, in front of a target without any volume.
Init ==
    /\ pc = [t \in Threads |-> "idle"]
    /\ call = [t \in Threads |-> None]
    /\ result = [t \in Threads |-> None]
    /\ transCreated = FALSE
    /\ spdk = [name |-> [v \in Ids |-> None], made |-> 0, transport |-> FALSE,
               subsystems |-> {}, ns |-> {}, listeners |-> {}]
    /\ broken = {}

Op(t) == call[t].op
Vol(t) == call[t].vol
Created(v) == spdk.name[v] # None
Published(v) == v \in spdk.listeners

Goto(t, l) == pc' = [pc EXCEPT ![t] = l]

\* rpcClient.call: the target executes the request if it can; an error may
\* come without or, when the answer is lost, after execution.
Rpc(t, can, after, ok, err) ==
    \/ can /\ spdk' = after /\ Goto(t, ok)
    \/ /\ \/ spdk' = spdk
          \/ can /\ spdk' = after
       /\ Goto(t, err)

\* Subsystem v, as it is now, will not be cleaned up by this call.
LeaveBehind(v) == broken' = broken \cup ({v} \cap spdk'.subsystems)

-----------------------------------------------------------------------------
(* Calls of the interface.                                                 *)

\* Who is in a call on volume v that must not overlap with others.
Using(t, v) == pc[t] # "idle" /\ Op(t) \in Serialized /\ Vol(t) = v

First(op) ==
    CASE op \in {"create", "clone"}      -> "lookup"
      [] op = "snapshot"                 -> "source"
      [] op = "info"                     -> "info"
      [] op \in {"publish", "unpublish"} -> "exists"
      [] op = "delete"                   -> "delete"

\* Volume ids come from earlier calls, of volumes deleted meanwhile too.
Arrive(t, c) ==
    /\ pc[t] = "idle"
    /\ c.op # "create" => c.vol <= spdk.made
    /\ c.op \in Serialized => \A s \in Threads : ~Using(s, c.vol)
    /\ call' = [call EXCEPT ![t] = c]
    /\ Goto(t, First(c.op))
    /\ UNCHANGED <<result, transCreated, spdk, broken>>

Return(t) ==
    /\ pc[t] \in {"ok", "err"}
    /\ Goto(t, "idle")
    /\ call' = [call EXCEPT ![t] = None]
    /\ result' = [result EXCEPT ![t] = None]
    /\ UNCHANGED <<transCreated, spdk, broken>>

-----------------------------------------------------------------------------
(* CreateVolume, CloneVolume, CreateSnapshot, VolumeInfo.                  *)

\* getVolume("lvstore/name"): made by an earlier call already?
Lookup(t) ==
    /\ pc[t] = "lookup"
    /\ \/ \E v \in Ids :
             /\ spdk.name[v] = call[t].name
             /\ result' = [result EXCEPT ![t] = v]
             /\ Goto(t, "ok")
       \/ /\ \A v \in Ids : spdk.name[v] # call[t].name
          /\ Goto(t, "make")
          /\ UNCHANGED result
    /\ UNCHANGED <<call, transCreated, spdk, broken>>

\* bdev_lvol_create, bdev_lvol_clone, bdev_lvol_snapshot.
Make(t) ==
    /\ pc[t] = "make"
    /\ LET new == spdk.made + 1
           can == /\ new \in Ids
                  /\ \A v \in Ids : spdk.name[v] # call[t].name
                  /\ Op(t) # "create" => Created(Vol(t))
       IN  /\ Rpc(t, can, [spdk EXCEPT !.made = new, !.name[new] = call[t].name],
                  "ok", "err")
           /\ result' = IF pc'[t] = "ok" THEN [result EXCEPT ![t] = new] ELSE result
    /\ UNCHANGED <<call, transCreated, broken>>

\* getVolume of VolumeInfo, and the one in getLvstore.
GetSource(t) ==
    /\ pc[t] \in {"info", "source"}
    /\ Goto(t, CASE ~Created(Vol(t)) -> "err"
                 [] pc[t] = "info" -> "source"
                 [] OTHER -> "lvstores")
    /\ UNCHANGED <<call, result, transCreated, spdk, broken>>

\* getLvstore: bdev_lvol_get_lvstores.
LvStores(t) ==
    /\ pc[t] = "lvstores"
    /\ \/ Goto(t, IF Op(t) = "snapshot" THEN "lookup" ELSE "ok")
       \/ Goto(t, "err")
    /\ UNCHANGED <<call, result, transCreated, spdk, broken>>

\* bdev_lvol_delete; the target drops the namespace of a deleted volume.
DeleteVolume(t) ==
    /\ pc[t] = "delete"
    /\ Rpc(t, Created(Vol(t)),
           [spdk EXCEPT !.name[Vol(t)] = None, !.ns = @ \ {Vol(t)}], "ok", "err")
    /\ UNCHANGED <<call, result, transCreated, broken>>

-----------------------------------------------------------------------------
(* PublishVolume and UnpublishVolume.                                      *)

\* ErrVolumeDeleted when the volume is gone.
IsVolumeCreated(t) ==
    /\ pc[t] = "exists"
    /\ Goto(t, IF Created(Vol(t)) THEN "listeners" ELSE "err")
    /\ UNCHANGED <<call, result, transCreated, spdk, broken>>

\* nvmf_subsystem_get_listeners; no subsystem ("Invalid parameters") counts
\* as not published.
IsVolumePublished(t) ==
    /\ pc[t] = "listeners"
    /\ \/ Goto(t, CASE Op(t) = "publish" -> IF Published(Vol(t)) THEN "ok" ELSE "flag"
                    [] Op(t) = "unpublish" -> IF Published(Vol(t)) THEN "removeNs" ELSE "ok")
       \/ Goto(t, "err")
    /\ UNCHANGED <<call, result, transCreated, spdk, broken>>

\* createTransport: the fast path ...
LoadTransCreated(t) ==
    /\ pc[t] = "flag"
    /\ Goto(t, IF transCreated THEN "subsystem" ELSE "transport")
    /\ UNCHANGED <<call, result, transCreated, spdk, broken>>

\* ... and the RPC; that the transport exists already is no error.
CreateTransport(t) ==
    /\ pc[t] = "transport"
    /\ \/ /\ spdk' = [spdk EXCEPT !.transport = TRUE]
          /\ transCreated' = TRUE
          /\ Goto(t, "subsystem")
       \/ /\ spdk' \in {spdk, [spdk EXCEPT !.transport = TRUE]}
          /\ Goto(t, "err")
          /\ UNCHANGED transCreated
    /\ UNCHANGED <<call, result, broken>>

CreateSubsystem(t) ==
    /\ pc[t] = "subsystem"
    /\ LET v == Vol(t) IN
       /\ Rpc(t, v \notin spdk.subsystems,
              [spdk EXCEPT !.subsystems = @ \cup {v}], "addNs", "err")
       /\ IF pc'[t] = "err" /\ spdk' # spdk THEN LeaveBehind(v) ELSE UNCHANGED broken
    /\ UNCHANGED <<call, result, transCreated>>

SubsystemAddNs(t) ==
    /\ pc[t] = "addNs"
    /\ LET v == Vol(t) IN
       Rpc(t, v \in spdk.subsystems \ spdk.ns /\ Created(v),
           [spdk EXCEPT !.ns = @ \cup {v}], "addListener", "undoSubsystem")
    /\ UNCHANGED <<call, result, transCreated, broken>>

\* Bug: a failure is returned without taking down what was built.
AddListenerNoUndo(t) ==
    /\ pc[t] = "addListener"
    /\ LET v == Vol(t) IN
       Rpc(t, v \in spdk.subsystems \ spdk.listeners /\ spdk.transport,
           [spdk EXCEPT !.listeners = @ \cup {v}], "ok", "err")
    /\ UNCHANGED <<call, result, transCreated, broken>>

SubsystemAddListener(t) ==
    /\ pc[t] = "addListener"
    /\ LET v == Vol(t) IN
       Rpc(t, v \in spdk.subsystems \ spdk.listeners /\ spdk.transport,
           [spdk EXCEPT !.listeners = @ \cup {v}], "ok", "undoNs")
    /\ UNCHANGED <<call, result, transCreated, broken>>

\* subsystemRemoveNs: nvmf_get_subsystems for the NSID, then
\* nvmf_subsystem_remove_ns.  An error of either is dropped, and calls on a
\* volume are serial, so that the first, which changes nothing, needs no step:
\* its failure is a removal that fails without being executed.
SubsystemRemoveNs(t) ==
    /\ pc[t] \in {"undoNs", "removeNs"}
    /\ LET next == IF pc[t] = "undoNs" THEN "undoSubsystem" ELSE "deleteSubsystem"
       IN  Rpc(t, Vol(t) \in spdk.ns, [spdk EXCEPT !.ns = @ \ {Vol(t)}], next, next)
    /\ UNCHANGED <<call, result, transCreated, broken>>

\* What nvmf_delete_subsystem does.
WithoutSubsystem(v) ==
    [spdk EXCEPT !.subsystems = @ \ {v}, !.ns = @ \ {v}, !.listeners = @ \ {v}]

\* Bug: UnpublishVolume drops this error too.
DeleteSubsystemUnchecked(t) ==
    /\ pc[t] \in {"undoSubsystem", "deleteSubsystem"}
    /\ LET v == Vol(t)
           end == IF pc[t] = "undoSubsystem" THEN "err" ELSE "ok"
       IN  /\ Rpc(t, v \in spdk.subsystems, WithoutSubsystem(v), end, end)
           /\ LeaveBehind(v)
    /\ UNCHANGED <<call, result, transCreated>>

\* Undoing a publish drops the error, UnpublishVolume returns it.
DeleteSubsystem(t) ==
    /\ pc[t] \in {"undoSubsystem", "deleteSubsystem"}
    /\ LET v == Vol(t)
           end == IF pc[t] = "undoSubsystem" THEN "err" ELSE "ok"
       IN  /\ Rpc(t, v \in spdk.subsystems, WithoutSubsystem(v), end, "err")
           /\ LeaveBehind(v)
    /\ UNCHANGED <<call, result, transCreated>>

-----------------------------------------------------------------------------
\* The process ends, and the next one starts (NewSpdkNode, newNVMf).
Die ==
    /\ pc' = [t \in Threads |-> "idle"]
    /\ call' = [t \in Threads |-> None]
    /\ result' = [t \in Threads |-> None]
    /\ transCreated' = FALSE
    /\ broken' = broken \cup {v \in spdk.subsystems : \E t \in Threads : Using(t, v)}
    /\ UNCHANGED spdk

\* bdev_get_bdevs fails: getVolume indexes an empty slice.
Panic(t) == pc[t] \in {"lookup", "info", "source", "exists"} /\ Die

Crash == Die

\* The SPDK target is restarted: its volumes are on disk, the transport and
\* the subsystems are gone, and the process does not notice (transCreated).
TargetRestart ==
    /\ spdk' = [spdk EXCEPT !.transport = FALSE, !.subsystems = {}, !.ns = {},
                            !.listeners = {}]
    /\ broken' = {}
    /\ UNCHANGED <<pc, call, result, transCreated>>

Step(t) ==
    \/ Lookup(t) \/ Make(t) \/ GetSource(t) \/ LvStores(t) \/ DeleteVolume(t)
    \/ IsVolumeCreated(t) \/ IsVolumePublished(t) \/ LoadTransCreated(t)
    \/ CreateTransport(t) \/ CreateSubsystem(t) \/ SubsystemAddNs(t)
    \/ SubsystemAddListener(t) \/ SubsystemRemoveNs(t) \/ DeleteSubsystem(t)
    \/ Panic(t) \/ Return(t)

Next ==
    \/ \E t \in Threads : (\E c \in Calls : Arrive(t, c)) \/ Step(t)
    \/ Crash \/ TargetRestart

Spec == Init /\ [][Next]_vars

-----------------------------------------------------------------------------
(* Correctness.                                                            *)

Exported(v) == v \in spdk.ns /\ v \in spdk.listeners

\* Volume v is being built up or taken down.
Between == {"addNs", "addListener", "undoNs", "undoSubsystem", "deleteSubsystem"}
InBetween(v) == \E t \in Threads : Using(t, v) /\ pc[t] \in Between

\* A volume is published whole or not at all: whichever RPCs of PublishVolume
\* and UnpublishVolume fail, what they have built is taken down again, except
\* when nvmf_delete_subsystem fails, the answer of nvmf_create_subsystem is
\* lost or the process dies (the subsystem is then in `broken').  So a publish
\* also fails cleanly that runs into a target restarted meanwhile, or trusts
\* a transport that is gone.
AllOrNothing ==
    \A v \in spdk.subsystems :
        v \in broken \/ ~Created(v) \/ InBetween(v) \/ Exported(v)

\* UnpublishVolume returns success only when no host can reach the volume.
UnpublishHides ==
    \A t \in Threads : pc[t] = "ok" /\ Op(t) = "unpublish" => ~Published(Vol(t))

\* The call that lets PublishVolume return success, be it the last one or the
\* check that the volume is published already, finds or leaves it exported.
PublishExports ==
    [][\A t \in Threads :
          pc[t] # "ok" /\ pc'[t] = "ok" /\ Op(t) = "publish" => Exported(Vol(t))']_vars

-----------------------------------------------------------------------------
(* The inductive invariant.                                                *)

Serial == \A s, t \in Threads, v \in Ids : Using(s, v) /\ Using(t, v) => s = t

\* Which calls can be where, and what they know there.
Knows(t) ==
    /\ pc[t] # "idle" => call[t] \in Calls
    /\ pc[t] \in {"lookup", "make"} => Op(t) \in {"create", "clone", "snapshot"}
    /\ pc[t] \in {"info", "source", "lvstores"} => Op(t) \in {"info", "snapshot"}
    /\ pc[t] \in {"exists", "listeners"} => Op(t) \in {"publish", "unpublish"}
    /\ pc[t] \in {"flag", "transport", "subsystem", "addNs", "addListener",
                  "undoNs", "undoSubsystem"} => Op(t) = "publish"
    /\ pc[t] \in {"removeNs", "deleteSubsystem"} => Op(t) = "unpublish"
    /\ pc[t] = "delete" => Op(t) = "delete"
    /\ pc[t] # "idle" /\ Op(t) \in Serialized => Vol(t) <= spdk.made
    /\ pc[t] = "addListener" /\ Vol(t) \in spdk.subsystems => Vol(t) \in spdk.ns
    /\ pc[t] = "ok" /\ Op(t) = "unpublish" => ~Published(Vol(t))

Nested ==
    /\ spdk.ns \subseteq spdk.subsystems /\ spdk.listeners \subseteq spdk.subsystems
    /\ \A v \in spdk.subsystems : v <= spdk.made

IInv ==
    /\ TypeOK
    /\ Serial
    /\ \A t \in Threads : Knows(t)
    /\ Nested
    /\ AllOrNothing
=============================================================================
