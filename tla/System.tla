------------------------------- MODULE System -------------------------------
(***************************************************************************)
(* The driver as a whole: the controller service and its gateway           *)
(* (ControllerServer), the node service of one worker node (NodeServer),   *)
(* and the CO that drives both in the order of the CSI volume life cycle.  *)
(*                                                                         *)
(* The two services share no memory.  They meet in three places:           *)
(*  - the publish context: the uuid that ControllerPublishVolume looks up  *)
(*    is the device that NodeStageVolume waits for;                        *)
(*  - the kernel: the devices of a connected subsystem are the namespaces  *)
(*    the gateway has in it, so a deleted namespace is a removed device;   *)
(*  - the CO: what one service answers decides what it asks the other.     *)
(***************************************************************************)
EXTENDS Naturals, Sequences

CONSTANTS
    Names, Nqns, NqnOf,             \* volumes and their subsystems
    Threads,                        \* goroutines of the controller
    NodeThreads,                    \* goroutines of the node service
    Pods, Stage,                    \* target paths, staging path
    Used,                           \* volumes that pods of this node use
    Free, None, Malformed,
    ReuseNsids, AcceptDuplicates,   \* the gateway
    MaxAdds, MaxFaults, MaxLayers,  \* bounds
    NodeFaults,                     \* what may happen to the node
    GivesUp                         \* may the CO send the next request for a
                                    \* volume while the node serves one?

VARIABLES
    pc, call, lock, req, resp, volume, found, late, namespaces, made,
    known, retired, faults, lost,
    npc, ncall, nlock, mounts, files, dirs, connected,
    context,    \* uuid in the publish context of a volume
    onNode,     \* volumes the CO has asked to stage and not seen unstaged
    ready,      \* volumes staged for all the CO knows
    inPods,     \* targets the CO has asked to publish and not seen unpublished
    asked,      \* uuid in the stage request a goroutine of the node serves
    disk        \* uuid of the device mounted last on a path

controller == <<pc, call, lock, req, resp, volume, found, late, namespaces,
                made, known, retired, faults, lost>>
node == <<npc, ncall, nlock, mounts, files, dirs, connected>>
kubelet == <<context, onNode, ready, inPods>>
devices == <<asked, disk>>
vars == <<controller, node, kubelet, devices>>

C == INSTANCE ControllerServer

N == INSTANCE NodeServer WITH
        Volumes <- Names, Threads <- NodeThreads, NoCall <- None,
        Faults <- NodeFaults, pc <- npc, call <- ncall, lock <- nlock

\* What the two services assume of the constants they share.
ASSUME SystemConstants ==
    /\ NqnOf \in [Names -> Nqns]
    /\ Stage \notin Pods /\ Used \subseteq Names
    /\ Free \notin Threads /\ Free \notin NodeThreads
    /\ Malformed \notin C!VolumeIds
    /\ None \notin C!VolumeIds /\ None \notin C!Responses /\ None \notin C!Nsids
    /\ ReuseNsids \in BOOLEAN /\ AcceptDuplicates \in BOOLEAN
    /\ MaxAdds \in Nat /\ MaxFaults \in Nat /\ MaxLayers \in Nat
    /\ NodeFaults \subseteq {"crash", "reboot", "loss", "halfMount"}

Paths == N!Paths
Uuids == 1 .. MaxAdds

\* The requests a CO that follows the specification makes.
ControllerCalls == {c \in C!Calls : c.op = "delete" => c.id # Malformed}
NodeCalls == {c \in N!Calls : c.input = "good" /\ c.vol \in Used}

TypeOK ==
    /\ C!TypeOK
    /\ N!TypeOK
    /\ context \in [Names -> Uuids \cup {None}]
    /\ onNode \subseteq Names
    /\ ready \subseteq onNode
    /\ inPods \subseteq Names \X Pods
    /\ asked \in [NodeThreads -> Uuids \cup {None}]
    /\ disk \in [Paths -> Uuids \cup {None}]

Init ==
    /\ C!Init
    /\ N!Init
    /\ context = [v \in Names |-> None]
    /\ onNode = {} /\ ready = {} /\ inPods = {}
    /\ asked = [t \in NodeThreads |-> None]
    /\ disk = [p \in Paths |-> None]

-----------------------------------------------------------------------------
(* The kernel: which devices there are.                                    *)

\* There is a namespace, hence a device, with uuid u.
Exposed(u) == \E ns \in namespaces : ns.uuid = u

\* The devices of removed namespaces disappear under the mounts that show
\* them (the kernel is notified of a changed namespace list).
DevicesFollow ==
    mounts' = [p \in Paths |->
        IF \E ns \in namespaces' : ns.uuid = disk[p] THEN mounts[p]
        ELSE [i \in DOMAIN mounts[p] |->
                IF mounts[p][i] = "live" THEN "dead" ELSE mounts[p][i]]]

\* waitForDeviceReady and the bind mount of NodeStageVolume need the device
\* of the uuid in the request's publish context, not only a connection.
NeedsDevice(t) ==
    ncall[t].op = "stage" /\
    \/ npc[t] = "waitReady" /\ npc'[t] = "create"
    \/ npc[t] = "mount" /\ mounts' # mounts

-----------------------------------------------------------------------------
(* The controller and the gateway.                                         *)

\* The CO deletes a volume only when it is on no node and in no pod.
Unused(v) == v \notin onNode /\ \A p \in Pods : <<v, p>> \notin inPods

AskController(t, c) ==
    /\ C!Arrive(t, c)
    /\ c.op = "delete" => Unused(C!Name(c))
    /\ UNCHANGED <<node, kubelet, devices>>

ControllerStep(t) ==
    /\ \/ C!DecodeId(t) \/ C!LockAndCall(t) \/ C!Receive(t) \/ C!Timeout(t)
       \/ C!ReturnUnheard(t) \/ C!ServeError(t)
    /\ UNCHANGED <<node, kubelet, devices>>

\* The answer of ControllerPublishVolume is the publish context.
ControllerAnswer(t) ==
    /\ C!Return(t)
    /\ context' = IF pc[t] = "ok" /\ C!Op(t) = "publish"
                  THEN [context EXCEPT ![C!Name(call[t])] = found[t].uuid]
                  ELSE context
    /\ UNCHANGED <<node, onNode, ready, inPods, devices>>

ControllerCrash ==
    /\ C!Crash
    /\ UNCHANGED <<node, kubelet, devices>>

GatewayStep ==
    /\ \/ \E t \in Threads : C!Serve(t)
       \/ \E l \in late : C!ServeLate(l)
    /\ DevicesFollow
    /\ UNCHANGED <<npc, ncall, nlock, files, dirs, connected, kubelet, devices>>

-----------------------------------------------------------------------------
(* The node.                                                               *)

Busy(v) == \E t \in NodeThreads : npc[t] # "idle" /\ ncall[t].vol = v

\* The order of the volume life cycle, with repetitions: a volume is staged
\* when it is attached, published when it is staged, unstaged when it is in
\* no pod.
InOrder(c) ==
    CASE c.op = "stage"     -> context[c.vol] # None /\ c.vol \notin retired
      [] c.op = "publish"   -> c.vol \in ready
      [] c.op = "unpublish" -> <<c.vol, c.at>> \in inPods
      [] c.op = "unstage"   -> c.vol \in onNode /\ \A p \in Pods : <<c.vol, p>> \notin inPods

AskNode(t, c) ==
    /\ GivesUp \/ ~Busy(c.vol)
    /\ InOrder(c)
    /\ N!Arrive(t, c)
    /\ onNode' = IF c.op = "stage" THEN onNode \cup {c.vol} ELSE onNode
    /\ ready' = IF c.op = "unstage" THEN ready \ {c.vol} ELSE ready
    /\ inPods' = IF c.op = "publish" THEN inPods \cup {<<c.vol, c.at>>} ELSE inPods
    /\ asked' = [asked EXCEPT ![t] = IF c.op = "stage" THEN context[c.vol] ELSE None]
    /\ UNCHANGED <<controller, context, disk>>

\* A bind mount shows the device of the request (NodeStageVolume) or the one
\* at the staging path (NodePublishVolume).
Bound(t) ==
    IF ncall[t].op = "stage" THEN asked[t] ELSE disk[<<ncall[t].vol, Stage>>]

NodeStep(t) ==
    /\ \/ N!LockVolume(t)
       \/ N!Step(t) /\ ~N!Return(t)
    /\ NeedsDevice(t) => Exposed(asked[t])
    /\ disk' = IF npc[t] = "mount" /\ mounts' # mounts
               THEN [disk EXCEPT ![<<ncall[t].vol, ncall[t].at>>] = Bound(t)]
               ELSE disk
    /\ UNCHANGED <<controller, kubelet, asked>>

\* The CO hears the answer.
NodeAnswer(t) ==
    /\ N!Return(t)
    /\ LET c == ncall[t]
           did(op) == npc[t] = "ok" /\ c.op = op
       IN  /\ ready' = IF did("stage") THEN ready \cup {c.vol} ELSE ready
           /\ onNode' = IF did("unstage") THEN onNode \ {c.vol} ELSE onNode
           /\ inPods' = IF did("unpublish") THEN inPods \ {<<c.vol, c.at>>} ELSE inPods
    /\ UNCHANGED <<controller, context, devices>>

\* The handler returns after the CO has given up waiting.
NodeAnswerUnheard(t) ==
    /\ N!Return(t)
    /\ UNCHANGED <<controller, kubelet, devices>>

NodeEvent ==
    /\ \/ N!Crash
       \/ \E n \in Nqns : N!ConnectionLoss(n)
       \/ \E v \in Used : N!MakeStagingDir(v)
    /\ UNCHANGED <<controller, kubelet, devices>>

\* After a reboot the CO stages and publishes again.
NodeReboot ==
    /\ N!Reboot
    /\ ready' = {}
    /\ UNCHANGED <<controller, context, onNode, inPods, devices>>

Next ==
    \/ \E t \in Threads :
          \/ \E c \in ControllerCalls : AskController(t, c)
          \/ ControllerStep(t) \/ ControllerAnswer(t)
    \/ ControllerCrash \/ GatewayStep
    \/ \E t \in NodeThreads :
          \/ \E c \in NodeCalls : AskNode(t, c)
          \/ NodeStep(t) \/ NodeAnswer(t) \/ NodeAnswerUnheard(t)
    \/ NodeEvent \/ NodeReboot

Spec == Init /\ [][Next]_vars

-----------------------------------------------------------------------------
(* Correctness.                                                            *)

Shows(p, c) == \E i \in DOMAIN mounts[p] : mounts[p][i] = c

\* The device at a volume's staging path or in a pod is the namespace of that
\* volume's own image: the uuid found by ControllerPublishVolume leads
\* NodeStageVolume to it, across lost answers, repeated requests, restarts.
OwnDevice ==
    \A p \in Paths : Shows(p, "live") =>
        \E ns \in namespaces : ns.uuid = disk[p] /\ ns.image = p[1]

\* The controller never takes away the namespace whose device the CO has
\* staged on the node.
ReadyIsExported ==
    \A v \in ready :
        \E ns \in namespaces : ns.uuid = disk[<<v, Stage>>] /\ ns.image = v

\* A pod never gets the mount point file of the staging path instead of a
\* device, although NodePublishVolume does not look whether the volume is
\* staged and the file survives a reboot.
PodsGetDevices ==
    \A v \in Names, p \in Pods : ~Shows(<<v, p>>, "file")

\* When the CO has a volume deleted nothing of it is left mounted on the node.
DeletedIsUnmounted ==
    \A v \in retired, a \in Pods \cup {Stage} : mounts[<<v, a>>] = <<>>

-----------------------------------------------------------------------------
(* The inductive invariant, in three parts.                                *)

\* The CO has no two requests for one volume at the node.
Alone ==
    \A s, t \in NodeThreads :
        npc[s] # "idle" /\ npc[t] # "idle" /\ ncall[s].vol = ncall[t].vol => s = t

\* What the CO believes of a volume while the node serves a request for it.
Serving(t) ==
    npc[t] # "idle" =>
        LET c == ncall[t] IN
        /\ c.vol \in onNode
        /\ c.op = "publish" => c.vol \in ready
        /\ c.op \in {"publish", "unpublish"} => <<c.vol, c.at>> \in inPods
        /\ c.op = "unstage" =>
              c.vol \notin ready /\ \A p \in Pods : <<c.vol, p>> \notin inPods

\* The CO knows of what is mounted, and what it takes for staged is mounted.
MountsKnown ==
    /\ \A p \in Paths : N!Mounted(p) => p[1] \in onNode /\ (p[2] # Stage => p \in inPods)
    /\ \A v \in ready : N!Mounted(<<v, Stage>>)

LifeCycle ==
    /\ onNode \subseteq Names /\ onNode \cap retired = {}
    /\ ready \subseteq onNode
    /\ inPods \subseteq onNode \X Pods

\* The node and what the CO believes of it, if the CO waits for an answer
\* before it asks again.
NodeSide ==
    /\ N!IInv
    /\ Alone
    /\ \A t \in NodeThreads : Serving(t)
    /\ MountsKnown
    /\ LifeCycle
    /\ \A p \in Paths : ~Shows(p, "file")

\* A uuid that was found for volume v is that of a namespace of v's image,
\* until the CO has the volume deleted.
Leads(u, v) ==
    v \in retired \/ \E ns \in namespaces : ns.uuid = u /\ ns.image = v

\* The gateway and the publish contexts.
GatewaySide ==
    /\ C!IInv
    /\ \A t \in Threads : C!Looked(t)
    /\ context \in [Names -> Uuids \cup {None}]
    /\ \A v \in Names : context[v] # None => Leads(context[v], v)
    /\ \A v \in onNode : v \in Names /\ context[v] # None

\* The uuids on the node, which were taken from publish contexts earlier.
DeviceSide ==
    /\ asked \in [NodeThreads -> Uuids \cup {None}]
    /\ disk \in [Paths -> Uuids \cup {None}]
    /\ \A t \in NodeThreads : npc[t] # "idle" /\ ncall[t].op = "stage" =>
          asked[t] # None /\ Leads(asked[t], ncall[t].vol)
    /\ \A p \in Paths : N!Mounted(p) => disk[p] # None /\ Leads(disk[p], p[1])

IInv == NodeSide /\ GatewaySide /\ DeviceSide
=============================================================================
