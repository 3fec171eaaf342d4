# A TLA+ model of the NVMe-oF CSI driver

This directory holds TLA+ modules, TLC configurations and TLAPS proofs for
nvmeof-csi: a Kubernetes CSI driver that provisions RBD-backed NVMe-oF
namespaces through a Ceph NVMe-oF gateway and attaches them on the worker
nodes. `PROJECT.json` maps every definition to the lines it models.

## 1. The system

| component | code | state | operations |
|---|---|---|---|
| volume locks | `pkg/util/idlocker.go` | a `sync.Map` id -> mutex | `Lock(id)`, the returned unlock |
| node service | `pkg/driver/nodeserver.go`, `pkg/util/validate.go` | none of its own but the locks; works on the node's mount table, mount point files and directories | `NodeStageVolume`, `NodeUnstageVolume`, `NodePublishVolume`, `NodeUnpublishVolume` |
| initiator | `pkg/util/initiator.go` | none; works on the node's NVMe connections | `Connect`, `Disconnect` |
| controller service | `pkg/driver/controllerserver.go` | locks, the gateway connection | `CreateVolume`, `DeleteVolume`, `ControllerPublishVolume`, and three requests that change nothing |
| gateway client | `proto/` (generated) | the gateway's namespaces, behind gRPC | `namespace_add`, `namespace_delete`, `list_namespaces` |
| SPDK target | `pkg/util/nvmf.go`, `pkg/util/jsonrpc.go` | `transCreated`; volumes and subsystems of the target, behind JSON-RPC | create, clone, snapshot, info, publish, unpublish, delete |
| gRPC server, driver start-up | `pkg/csi-common/`, `pkg/driver/driver.go`, `cmd/` | the driver object (capabilities, access modes), the service objects, the listening server and its socket file | `main`, `Run`, `Start`, `serve`, `Wait`; `Stop` and `ForceStop`, which nothing calls |
| device lookup and helpers | `pkg/util/util.go` | a lock word, a file with the stashed context | sysfs device detection, `TryLock`, stash and look-up of the context |
| identity and default services | `pkg/driver/identityserver.go`, `pkg/csi-common/*-default.go` | none | answers read off the driver object |
| configuration, charts | `pkg/util/config.go`, `charts/` | none | flags and data |

How the parts interact. The container orchestrator (CO: the Kubernetes
sidecars and kubelet) calls the controller to create a volume, then to publish
it, then the node to stage and to publish it, and undoes this in the reverse
order; it repeats a request until it succeeds, also while an earlier copy is
still being served. Each gRPC request runs in a goroutine of its own. Node
handlers of one volume exclude each other through the lock of the volume id;
create and delete through the lock of the volume name;
`ControllerPublishVolume` takes no lock. The controller gives the gateway five
seconds for an add or a delete; the node runs `nvme` and `mount` commands. The
volumes of a StorageClass are namespaces of one subsystem and hence share one
NVMe connection of a node.

The SPDK client is complete code that the two services do not call at this
commit; it is modelled as the library it is, under the contract of its
interface.

What is hard:

* concurrency: overlapping requests for one volume, requests for different
  volumes that share a connection or a directory, look-ups without a lock;
* failure: every command, system call and RPC may fail, some of them after
  having taken effect; handlers clean up after some failures and not after
  others;
* ordering and time: gateway requests executed after the caller has given up,
  answers lost, requests repeated;
* restarts: the plugin is killed between any two calls, the node reboots, the
  connection is lost, the SPDK target restarts; mounts, files and namespaces
  stay, locks do not; a new process starts on the old one's socket file and must
  reach the gateway before it serves anything.

What makes each part correct: the locks exclude, and never keep a caller for
ever; a node answers OK only when it is true of the mount table, mounts a volume
once, has its mount point ready when it mounts, and does not cut off a volume
that is in use; the controller never deletes a volume nobody asked it to delete,
leaves no namespace without an owner, and publishes the namespace the volume id
names; a target exports a volume whole or not at all; the process always gets
back to serving complete answers. For the user of a volume: the device in a pod is
that volume's own. `PROJECT.json` lists
the hazards, with the line where each bites and the property that watches it.

## 2. Modules

```
IdLock  <-- refined by --  VolumeLocks  <-- VolumeLocksProofs
  ^  ^
  |  +-- used by  NodeServer        <-- MCNodeServer,       NodeServerProofs
  +----- used by  ControllerServer  <-- MCControllerServer, ControllerServerProofs
                        ^  NodeServer
                        |    ^
                        System  (both as instances, and the CO)  <-- MCSystem, SystemProofs
                  SpdkNode          <-- MCSpdkNode,         SpdkNodeProofs
                  Driver            <-- DriverProofs
```

**IdLock** is what `VolumeLocks` promises: one exclusive lock for each
identifier, reset when the process ends. The two services are written on top of
it (`Locks == INSTANCE IdLock`), so that the details of the mutex map are
checked once, in **VolumeLocks**: `Lock` there is three steps (the call,
`LoadOrStore` of a new mutex, `Mutex.Lock`), the unlock a fourth, and a restart
empties the map. The refinement maps a lock to the goroutine inside the
critical section, not to a mutex: two goroutines that got different mutexes for
one id would violate it.

**NodeServer** has an action for each call a handler makes that reads or changes
the node. `pc[t]` names the call goroutine `t` makes next; `"ok"` and `"err"`
stand for a handler that has its answer and still holds its lock (the `defer`).

| variable | in the code |
|---|---|
| `lock` | `nodeServer.volumeLocks` |
| `mounts` | the kernel's mount table: a stack of bind mounts for each path, each showing a live device, a disconnected one, or the plain mount point file |
| `files`, `dirs` | mount point files, and the directories they are in |
| `connected` | subsystems with an NVMe connection |

| action | code |
|---|---|
| `Validate` | `ValidateNodeStageVolumeRequest`, before the lock |
| `LockVolume`, `Return` | `volumeLocks.Lock` and the deferred unlock |
| `IsStaged` | `isStaged` and the decisions after it |
| `Connect`, `WaitForDeviceReady`, `Disconnect` | `initiatorNVMf` (`nvme connect-all` connects what discovery lists, here any subsystems; its error is ignored, as in the code) |
| `CreateMountPoint`, `OpenMountPoint`, `BindMount` | `createMountPoint` (directory, then file), `stageVolume` / `NodePublishVolume` |
| `DeleteMountPoint`, `Unmount`, `RemoveMountPoint`, `RemoveParentDir` | `deleteMountPoint` (file, then directory) |
| `Crash`, `Reboot`, `ConnectionLoss`, `MakeStagingDir` | the environment |

**ControllerServer** has the three handlers, the gateway and the CO. A
handler waits in `"await"` with `req` set; the gateway answers into `resp`
(`Serve`, `ServeError`), or `Timeout` lets the handler go on while its request
moves to `late`, where `ServeLate` may execute it at any later time. `Crash`
moves all requests there. `known` and `retired` are what the CO has been given
and has asked to delete; `lost` remembers that an answer was ever lost.

**SpdkNode** has an action for each JSON-RPC of `nodeNVMf`. Each
RPC that changes the target may succeed, fail, or be executed and then fail.
`Panic` is `getVolume` indexing an empty result. `broken` is a history
variable: subsystems for which a clean-up RPC failed, the answer of the create
was lost, or the process died. `TargetRestart` is a restart of the SPDK process:
its subsystems, listeners and transport are gone while `transCreated` is still
set, so that every later publish fails at the listener and has to be undone.

**System** composes the two services as instances, each with its own goroutines,
and adds what lies between them. Every step of it is a step of one service, with
what the other parts see of it:

| variable or action | in the system |
|---|---|
| `context` | the uuid in the publish context the CO has stored for a volume |
| `onNode`, `ready`, `inPods` | what the CO thinks is on the node: asked to stage, staged, asked to publish |
| `asked`, `disk` | the uuid in the stage request a node goroutine serves; the uuid of the device mounted last on a path |
| `ControllerAnswer` | `ControllerPublishVolume` returns; its uuid becomes the publish context |
| `AskController`, `AskNode`, `InOrder` | the CO's order: attach, stage, publish and back; deletes only what is on no node |
| `GatewayStep`, `DevicesFollow` | a removed namespace takes its device away under the mounts |
| `NodeStep`, `NeedsDevice`, `Bound` | waiting for the device and mounting it needs a namespace with the uuid of the request, not only a connection; a publish binds what is at the staging path |
| `NodeAnswer`, `NodeAnswerUnheard` | the CO hears an answer, or repeats the request |
| `NodeReboot` | the CO stages and publishes again |

**Driver** is the life of the process. `main` follows `Run`, `loop` the
goroutine `serve`; `Exit` is every end of the process (`klog.Fatal`, a panic, a
kill) and leaves the socket file; `Restart` is the next process with the same
command line.

| action | code |
|---|---|
| `NewDriver`, `NewNodeServer`, `NewControllerServer`, `Start` | `Run`, in its order |
| `Parse`, `RemoveSocket`, `Listen`, `Register`, `ServeFails` | `serve` |
| `Request`, `Handler`, `logGRPC` | a request, the method, the interceptor |
| `Kill`, `GatewayDown`, `GatewayUp`, `Restart` | the environment |

`Run` passes pointers of concrete types to `Start`, so that `cs != nil` and
`ns != nil` hold for services that were not asked for: they are registered
with a nil receiver, and a request that touches it ends the process. Whether
registering such a receiver panics already depends on the version of the
generated CSI code, which is not in the repository: `nilOK` covers both.
`parseEndpoint` accepts a scheme in capitals and returns it unchanged, which
`net.Listen` then does not know (`"UNIX"`).

The `MC` modules hold only the functions that configurations give to constants.
Definitions whose comment starts with "Bug:" are variants that a plausible
mistake would produce; the properties are required to fail for them.

### Assumptions about what is outside the repository

* Gateway: serves a request atomically; chooses the NSID itself (no request
  names one); answers an error status for a missing namespace, and, as `force` is
  never set, for an image that has a namespace already. `ReuseNsids` and
  `AcceptDuplicates` make the two doubtful points parameters. With duplicates
  accepted, a `CreateVolume` repeated after a lost answer makes a second
  namespace, and `PublishMatchesId` does not hold.
* CO: does not use the name of a deleted volume again, repeats requests,
  publishes no volume it has asked to delete.
* Node: `nvme disconnect -n` removes every device of the subsystem; one `umount`
  undoes one mount; a mounted file cannot be removed; the mount library runs
  `mount` twice for a bind mount, so that it can fail with the path mounted;
  kubelet makes the staging directory.
* SPDK target: serves requests atomically, drops the namespace of a deleted
  volume, removes namespaces and listeners with their subsystem; a restart keeps
  its volumes and nothing else.
* Kernel (System): the devices of a connected subsystem are the namespaces the
  gateway has in it.
* CO (System): follows the CSI life cycle, with one node; does not send the next
  request for a volume while the node serves one (`GivesUp = FALSE`). With
  `GivesUp = TRUE` and two node goroutines `DeletedIsUnmounted` fails: a
  `NodeStageVolume` the CO has given up on runs after the unstage and the delete,
  as the handlers ignore their context. `PROJECT.json` lists this as a hazard.
* kubelet restarts the plugin with the same command line.

## 3. Runs

| run | expected | what it shows |
|---|---|---|
| `volume_locks` | pass | `MutualExclusion`, `Refinement` of `IdLock`, `LockReturns`: three goroutines, two ids, restarts |
| `node_pods` | pass | one volume, two pods, two overlapping requests and every fault: mounted once at the staging path (`StagedOnce`), answers true (`RepliesTrue`, `UnpublishedIsGone`), and what a handler has prepared (directory, then file) is there when it opens and mounts, although unpublishes of other pods remove the directory when it is empty (`MountPointReady`) |
| `node_dedicated` | pass | with a subsystem for each volume, and as long as the kernel does not give the connection up, an OK to a stage request means a live device (`StagedIsLive`); every stage and unstage request is answered (`RequestsReturn`); repeating a stage request gets the volume staged once the calls stop failing, whatever earlier attempts left behind (`StageRecovers`); across crash and reboot |
| `node_foreign_disconnect` | violation | with a shared subsystem the cleanup of a failed stage takes the device of another staged volume away (`NoForeignDisconnect`), against `pkg/README.md:231` |
| `node_unstage_connected` | violation | unstaging the last volume keeps the connection, against `README.md:269` |
| `controller` | pass | two volumes and a fault (gateway error, timeout, lost answer or crash): `VolumesKept`, `NoOrphans`, `PublishMatchesId`; the gateway deletes nothing the CO did not ask to delete (`NamespacesKept`, a property of steps); every request is answered (`RequestsReturn`), and a `CreateVolume` that is repeated succeeds unless an answer was lost, the volume is to be deleted or the gateway has no namespace left for it (`CreatesSucceed`) |
| `controller_nsid_reuse` | violation | if the gateway gives NSIDs out again, a repeated delete destroys another volume |
| `controller_delete_retry` | violation | a delete whose answer was lost never succeeds, although the CO repeats it for ever |
| `system` | pass | the whole driver: a pod's or staging path's device is the volume's own (`OwnDevice`), a staged volume stays exported (`ReadyIsExported`), a pod never gets the plain mount point file although `NodePublishVolume` does not look (`PodsGetDevices`), a deleted volume is mounted nowhere (`DeletedIsUnmounted`) |
| `driver` | pass | the process gets back to serving, over its old socket file and after gateway outages (`ServesAgain`); requests for services that were asked for never meet an unbuilt object (`PanicsOnlyUnasked`) nor an incomplete capability list (`AnswersComplete`) |
| `spdk` | pass | `AllOrNothing`, `UnpublishHides`: two goroutines, two volumes, every RPC failing in both ways, restarts of both sides |
| `spdk_publish` | violation | adding the listener reports an error after it was executed, the undo removes the namespace, the process dies; the next publish finds the listener and reports success (`PublishExports`, stated of the step that decides the answer) |

The runs of the six modules with proofs also check `IInv`, the invariant the
proofs use.

**Bounds.** Two goroutines are enough for an overlap on one volume or between
two; three are used for the lock map, where a third waits while two others race.
`MaxLayers = 2` allows stacked publish mounts; it limits publish *requests* only,
so a path may exceed it by requests already admitted. `Mutexes` has one member
more than `Ids`: every mutex a goroutine refers to is in the map, so that a new
one can always be built. The controller run has two volumes, two adds and one
fault, enough for a request to be delayed past its repetition and past a request
for the other volume; its safety properties are proved for all bounds, and the
bounds are chosen for its two liveness properties. When the two adds are used up
(both executed, and the volume asked for got none, as the other one took both)
nothing can be promised for that volume: this is the exception `NoRoom` of
`CreatesSucceed`. A volume that has its namespace must still be handed out. `node_dedicated` has no pods:
`RequestsReturn` is checked there for stage and unstage, whose handlers contain
every blocking call (the publish handlers only lock and make system calls).
`system` has two volumes of one subsystem, of which one (`Used`) is used on the
node while the other is made and deleted around it; one request at a time on each
side, as overlaps within a service are the other runs' subject and the lock
makes them serial. `MaxFaults = 3` in `driver` lets the process be killed, fail
again while it starts, and lose the gateway. `MaxLvols = 2` lets one volume be
published while another is cloned from it or its name reused. Symmetry is over
goroutines (`node_pods`) and over goroutines and names (`spdk`), in runs without
liveness only.

**Deadlock** is checked in every run.

**Fairness.** Weak fairness for the steps of a handler: each command and wait is
bounded in the code (40 s for an `nvme` command, 21 looks for the device, 5 s for
`namespace_add` and `namespace_delete`), by the CO's own deadline
(`list_namespaces`, which runs in the context of the request), or is a system
call. Strong fairness for taking a lock:
`sync.Mutex` hands over first-in first-out after 1 ms of waiting, and
`LockReturns` is the same statement for the map. Nothing is assumed of
arrivals or faults, except that the CO repeats a request until it succeeds:

* `RetrySpec` of the controller: deletions; `DeletesSucceed` would hold under it
  if a missing namespace were answered with success.
* `CreateSpec`: creations, with strong fairness as the CO may be busy with
  another request of the volume in between.
* `RetrySpec` of the node: stage requests, and kubelet makes the staging
  directory. `StageRecovers` has the premise that from some time on the calls of
  the handler succeed and it is not killed; without it nothing can be promised.
* `FairSpec` of the driver: the two goroutines of a live process run and kubelet
  restarts a dead one. `ServesAgain` assumes of the gateway only that it stays
  reachable in the end, and only for command lines with the controller service.

## 4. Proofs

The proofs hold for every number of volumes, pods, goroutines, mutexes and
faults, from the `ASSUME`d facts about constants (distinctness, and bounds
that are natural numbers). Each is an inductive invariant `IInv`, with a lemma
for each action, and the properties as corollaries.

* `VolumeLocksProofs`: `Invariance`, `LocksExclude`, `VolumeLocksRefinesIdLock`.
  Mutual exclusion is not inductive: the proof needs that a goroutine that has
  looked its mutex up has the one in the map (`Local`), that ids do not share
  mutexes (`Injective`) and that a locked mutex has its owner in the critical
  section (`OwnerInside`). For the refinement, `HolderIsOwner` shows that the
  goroutine inside is the owner of the mutex in the map.
* `NodeServerProofs`: `Invariance`, `TypeCorrect`, `StagedAtMostOnce`,
  `AnswersAreTrue`, `UnpublishLeavesNothing`, `MountPointsAreReady`,
  `StagedVolumesHaveTheirDevice`. `LockHeld`
  says that a handler past its lock holds it; `Knows(t)` what it has learnt of the
  mount table at each point, which nobody else can change meanwhile;
  `DirsKept` and `MountPointsKept` that the kernel removes no directory with a
  file in it and no file with a mount on it. `StagedVolumesHaveTheirDevice` (property `StagedIsLive`) adds a second
  invariant, `Lively`: a handler about to disconnect has nothing mounted, so that
  what is mounted on a staging path shows a live device. It assumes that no two
  volumes have a subsystem in common, which `node_foreign_disconnect` shows to be
  needed, that the kernel gives no connection up and that no failing mount
  leaves a mount: each of them makes "already staged" wrong.
* `ControllerServerProofs`: `Invariance`, `TypeCorrect`, `VolumesAreKept` for a
  gateway that does not reuse NSIDs, `PublishFindsTheVolume` for one that
  also refuses duplicates, `NothingIsForgotten` (property `NoOrphans`). The
  invariant says that every id the CO has or is
  about to get, and every delete on its way, late ones included, names an NSID
  made for its own volume (`Owns`), and that the namespace is there until the CO
  wants it gone (`Alive`). The lock on the volume name is not used: volumes are
  protected by their ids and by the gateway serving one request at a time.
  From the same invariant follow `NamespacesAreKept`, an action property (the gateway
  executes no delete the CO has not asked for: `VolumesKept` says it of the
  volumes the CO knows, this of every namespace, those of lost answers included),
  and, with a second invariant `Looked`, `PublishAnswersCurrent`: what the list the
  lockless `ControllerPublishVolume` looks through said is still so when it
  answers, also if the gateway accepts duplicates.
  `NothingIsForgotten` needs more (`OInv`): late requests exist only after a lost
  answer, an error status carries no NSID, and a delete reported as done has
  removed what its id names, so that forgetting the id forgets no namespace.
* `SpdkNodeProofs`: `Invariance`, `PublishedWhole`, `UnpublishedIsHidden`. Needs that calls on
  one volume are serial (`Serial`, the contract of the interface), what a call has
  built so far (`Knows`), and that namespaces and listeners are in subsystems
  (`Nested`). Restarts of the target are covered: what a publish in progress
  knows is weakened to what a restart leaves true.
* `DriverProofs`: `Invariance`, `OnlyUnaskedPanic`, `CompleteAnswers`, for every
  command line and any number of faults. `Progress` says what `Run` has built at each
  point and that `serve` runs only when all of it is there; `SocketOwned` that a
  live socket has a server behind it.

* `SystemProofs`: the whole driver. It instantiates the proofs of the two services
  (`CP`, `NP`) instead of repeating them. For the controller this is immediate:
  every step of the system is a step of `ControllerServer` or leaves it alone
  (`ControllerMoves`), hence `ControllerInside`, `Spec => C!Spec`, and with it every
  theorem about the controller. It is not so for the node: the gateway takes
  devices away under the node's mounts, a step `NodeServer` does not have. `NodeIInv`
  shows that its invariant survives those steps as well, hence
  `NodeServiceInside`.

  The invariant of the system has three parts, the first two inductive by
  themselves:

  - `NodeSide`, what the CO believes of the node: it has no two requests for a volume
    there (`Alone`), what it thinks while one is served (`Serving`), what is
    mounted is on its list and what it takes for staged is mounted (`MountsKnown`),
    nothing it has deleted is on the node (`LifeCycle`). None of the four
    is inductive without the others: that the answer to an unstage may be
    believed needs that the volume is in no pod and that no other request for it is on its
    way. Theorem `BeliefsAreTrue`, and from it `PodsSeeNoFile` and
    `DeletedVolumesAreUnmounted`. They assume `~GivesUp` and nothing of the
    gateway.
  - `GatewaySide`, what the publish contexts are worth: a context is the uuid of a
    namespace of its own volume until the volume's deletion is asked for
    (`Leads`), which needs the controller's `IInv`, `Looked` and the lemma behind
    `NamespacesAreKept`. Theorem `ContextsAreKept`, which assumes `~ReuseNsids` and
    nothing of how the CO treats the node.
  - `DeviceSide`, the uuids that have left the contexts: the one in a stage request
    being served and the one of the device mounted on a path lead to the volume,
    too. It needs both other parts: a stage request takes its uuid from a context
    that leads there, and a publish binds the staging path of a volume that is
    staged, so that something is mounted there.

  `Invariance`, `TypeCorrect`, `MountsShowOwnDevice` and `StagedVolumesAreExported`
  use all three: a mounted volume is on the node, so its deletion is not asked
  for, so the uuid of what is mounted is that of its own namespace. With `ReuseNsids` a repeated delete
  destroys a volume in use (run `controller_nsid_reuse`). With `GivesUp` and two
  node goroutines `ReadyIsExported` fails: a `NodeStageVolume` the CO has given up
  on is answered after the volume was unstaged and deleted. None of the theorems
  assumes that the gateway refuses duplicates.

Only model-checked: all liveness (`LockReturns`, `RequestsReturn`,
`StageRecovers`, `CreatesSucceed`, `ServesAgain`), which the prover does not
support under fairness. Every invariant and every safety property of steps that
a passing run checks is also a theorem.

## 5. Not modelled

* `pkg/util/util.go` beyond `checkDirExists`: device detection through sysfs,
  `TryLock` and the stashed volume context have no caller at this commit (the calls
  in the node service are commented out), so that no use of them could be
  checked.
* `Stop` and `ForceStop` of the gRPC server: never called. `Wait` returns only
  with the process, which is how `Driver` has it.
* Generated protobuf code; charts; the JSON files and secrets of the SPDK client,
  which nothing reads.
* Volume sizes, rounding in `lvStores` and the encodings of JSON and base64,
  beyond that an id decodes to what was encoded and a malformed one is refused: no
  property depends on them.
* Several nodes: `ControllerPublishVolume` keeps no record of them and
  `ControllerUnpublishVolume` does nothing, so that the controller is the same for
  one node and for many.

## 6. Plan

Done: the locks, the node service with its initiator, the controller service
with its gateway, the two composed under a CO, the SPDK library with restarts of
both sides, the life of the process; safety proofs for all of them. Left:

1. `System` for several nodes: nothing in the controller depends on it, and
   `NodeSide` is about one node at a time, so that the proof should carry over
   node by node.
2. `CreateVolume` repeated after a lost answer is refused for ever, as
   `CreatesSucceed` says by its exception `lost`; once the code looks an existing
   namespace up, the exception should go.
3. When the node service uses the stashed volume context to disconnect
   (commented out in `NodeUnstageVolume`), the context file and its crash
   behaviour belong in `NodeServer`.
