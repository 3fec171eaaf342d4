------------------------------ MODULE NodeServer ------------------------------
(***************************************************************************)
(* The CSI node service of one worker node (pkg/driver/nodeserver.go) with *)
(* its NVMe-oF initiator (pkg/util/initiator.go) and request validation    *)
(* (pkg/util/validate.go).                                                 *)
(*                                                                         *)
(* Every gRPC request is served by its own goroutine.  A handler holds the *)
(* lock of its volume from (nearly) its first to its last statement, so    *)
(* handlers of one volume are serial, but handlers of different volumes    *)
(* interleave, and they share the node's NVMe connections: `nvme connect'  *)
(* and `nvme disconnect' work on a subsystem (NQN), which the volumes of a *)
(* StorageClass have in common.                                            *)
(*                                                                         *)
(* One action is one call that changes or reads the node's state (mount    *)
(* table, files, NVMe connections).  Every such call may fail.  The plugin *)
(* process may be killed between any two of them.                          *)
(***************************************************************************)
EXTENDS Naturals, Sequences

CONSTANTS
    Volumes,    \* volume ids
    Pods,       \* pods that publish a volume: one target path each
    Stage,      \* the staging path of a volume, among its paths
    Nqns,       \* NVMe subsystems
    NqnOf,      \* the subsystem of each volume (publish context "nqn")
    Threads,    \* goroutines serving requests
    Free,       \* holder of a lock nobody holds
    NoCall,     \* a goroutine without a request
    Faults,     \* what the node may do to the plugin
    MaxLayers   \* bound: no publish request for a target with so many mounts

ASSUME NodeConstants ==
    /\ Stage \notin Pods
    /\ NqnOf \in [Volumes -> Nqns]
    /\ Free \notin Threads
    /\ Faults \subseteq {"crash", "reboot", "loss", "halfMount"}
    /\ MaxLayers \in Nat

\* A volume has a staging path <<v, Stage>> (<staging dir>/<volume id>) and a
\* target path <<v, p>> for every pod.  The target paths of a volume lie in
\* one directory; the staging path lies in a directory of its own.
Paths == Volumes \X (Pods \cup {Stage})
Parent(p) == <<p[1], IF p[2] = Stage THEN "staging" ELSE "publish">>
Dirs == Volumes \X {"staging", "publish"}

\* What a bind mount shows: the volume's NVMe device, the node of a device
\* that has been disconnected, or the regular file made as mount point.
Content == {"live", "dead", "file"}

\* input: what the CO put into the request.  "badArgs": a missing volume
\* capability (stage) or a capability that is not block (publish);
\* "badContext": a publish context without uuid, nqn or address.
Calls ==
    [op : {"stage"}, vol : Volumes, at : {Stage},
     input : {"good", "badArgs", "badContext"}]
    \cup [op : {"unstage"}, vol : Volumes, at : {Stage}, input : {"good"}]
    \cup [op : {"publish"}, vol : Volumes, at : Pods, input : {"good", "badArgs"}]
    \cup [op : {"unpublish"}, vol : Volumes, at : Pods, input : {"good"}]

VARIABLES
    pc,         \* the call goroutine t makes next; "ok"/"err": its answer
    call,       \* the request goroutine t serves
    lock,       \* volumeLocks: the goroutine that holds a volume's lock
    mounts,     \* the mount table: mounts stacked on a path, newest first
    files,      \* mount point files that exist
    dirs,       \* parent directories that exist
    connected   \* subsystems the node has an NVMe connection to

node == <<mounts, files, dirs, connected>>
vars == <<pc, call, lock, mounts, files, dirs, connected>>

Locks == INSTANCE IdLock WITH Ids <- Volumes, holder <- lock

PcValues ==
    {"idle", "validate", "lock", "check", "connect", "waitReady", "create", "open",
     "mount", "disconnect", "delete", "unmount", "remove", "rmdir", "ok", "err"}

TypeOK ==
    /\ pc \in [Threads -> PcValues]
    /\ call \in [Threads -> Calls \cup {NoCall}]
    /\ lock \in [Volumes -> Threads \cup {Free}]
    /\ mounts \in [Paths -> Seq(Content)]
    /\ files \subseteq Paths
    /\ dirs \subseteq Dirs
    /\ connected \subseteq Nqns

Op(t) == call[t].op
Vol(t) == call[t].vol
Path(t) == <<call[t].vol, call[t].at>>
Nqn(t) == NqnOf[call[t].vol]

\* mount.IsNotMountPoint, negated.
Mounted(p) == mounts[p] # <<>>

Goto(t, l) == pc' = [pc EXCEPT ![t] = l]

Init ==
    /\ pc = [t \in Threads |-> "idle"]
    /\ call = [t \in Threads |-> NoCall]
    /\ Locks!Init
    /\ mounts = [p \in Paths |-> <<>>]
    /\ files = {}
    /\ dirs = {}
    /\ connected = {}

-----------------------------------------------------------------------------
(* Requests.  The CO may repeat a request, and it may send one while an    *)
(* earlier one for the same volume is still being served (after a timeout  *)
(* of its own: the handlers ignore their context).                         *)

\* kubelet makes the staging directory before it asks for staging.
MakeStagingDir(v) ==
    /\ <<v, "staging">> \notin dirs
    /\ dirs' = dirs \cup {<<v, "staging">>}
    /\ UNCHANGED <<pc, call, lock, mounts, files, connected>>

Arrive(t, c) ==
    /\ pc[t] = "idle"
    /\ c.op = "publish" => Len(mounts[<<c.vol, c.at>>]) < MaxLayers
    /\ call' = [call EXCEPT ![t] = c]
    /\ Goto(t, IF c.op = "stage" THEN "validate" ELSE "lock")
    /\ UNCHANGED <<lock, node>>

\* ValidateNodeStageVolumeRequest: before the lock is taken.
Validate(t) ==
    /\ pc[t] = "validate"
    /\ IF call[t].input # "badArgs" /\ <<Vol(t), "staging">> \in dirs
       THEN Goto(t, "lock") /\ UNCHANGED call
       ELSE Goto(t, "idle") /\ call' = [call EXCEPT ![t] = NoCall]
    /\ UNCHANGED <<lock, node>>

\* What the handler does first once it has the lock.
Begin(c) ==
    CASE c.op \in {"stage", "unstage"} -> "check"
      [] c.op = "unpublish"            -> "delete"
      [] c.op = "publish"              -> IF c.input = "badArgs" THEN "err"
                                                                 ELSE "create"

\* Bug: the handler does not wait for the volume's lock.
LockNothing(t) ==
    /\ pc[t] = "lock"
    /\ lock' = [lock EXCEPT ![Vol(t)] = t]
    /\ Goto(t, Begin(call[t]))
    /\ UNCHANGED <<call, node>>

LockVolume(t) ==
    /\ pc[t] = "lock"
    /\ Locks!Acquire(t, Vol(t))
    /\ Goto(t, Begin(call[t]))
    /\ UNCHANGED <<call, node>>

\* Bug: the deferred unlock is missing.
ReturnLocked(t) ==
    /\ pc[t] \in {"ok", "err"}
    /\ Goto(t, "idle")
    /\ call' = [call EXCEPT ![t] = NoCall]
    /\ UNCHANGED <<lock, node>>

\* The handler returns: the deferred unlock runs and the answer is sent.
Return(t) ==
    /\ pc[t] \in {"ok", "err"}
    /\ Locks!Release(t, Vol(t))
    /\ Goto(t, "idle")
    /\ call' = [call EXCEPT ![t] = NoCall]
    /\ UNCHANGED node

-----------------------------------------------------------------------------
(* NodeStageVolume and NodeUnstageVolume up to their first change.         *)

\* Bug: a mount point file counts as a staged volume.
IsStagedByFile(t) ==
    /\ pc[t] = "check"
    /\ Goto(t, CASE Path(t) \in files -> IF Op(t) = "stage" THEN "ok" ELSE "delete"
                 [] OTHER -> IF Op(t) = "stage" THEN "connect" ELSE "ok")
    /\ UNCHANGED <<call, lock, node>>

\* Bug: when the mount table cannot be read the volume counts as unstaged.
IsStagedOrUnknown(t) ==
    /\ pc[t] = "check"
    /\ \/ Goto(t, CASE Mounted(Path(t)) -> IF Op(t) = "stage" THEN "ok" ELSE "delete"
                    [] OTHER -> IF Op(t) = "stage" THEN "connect" ELSE "ok")
       \/ Goto(t, IF Op(t) = "stage" THEN "connect" ELSE "ok")
    /\ UNCHANGED <<call, lock, node>>

IsStaged(t) ==
    /\ pc[t] = "check"
    /\ \/ /\ Op(t) = "stage"
          /\ Goto(t, CASE Mounted(Path(t)) -> "ok"     \* already staged
                       [] call[t].input = "badContext" -> "err"
                       [] OTHER -> "connect")
       \/ /\ Op(t) = "unstage"
          /\ Goto(t, IF Mounted(Path(t)) THEN "delete" ELSE "ok")
       \/ Goto(t, "err")                                \* the check fails
    /\ UNCHANGED <<call, lock, node>>

(* initiatorNVMf.                                                          *)

\* Bug: an error of `nvme connect-all' ends Connect, although it only says
\* that an earlier attempt has connected.
ConnectStrict(t) ==
    /\ pc[t] = "connect"
    /\ connected' \in SUBSET Nqns /\ connected \subseteq connected'
    /\ Goto(t, IF connected' # connected THEN "waitReady" ELSE "err")
    /\ UNCHANGED <<call, lock, mounts, files, dirs>>

\* `nvme connect-all' (the NQN it is given is the host's name) connects the
\* subsystems that the gateway's discovery service lists, or some of them when
\* it fails or is killed after 40 s: its error is logged and otherwise ignored.
Connect(t) ==
    /\ pc[t] = "connect"
    /\ connected' \in SUBSET Nqns /\ connected \subseteq connected'
    /\ Goto(t, "waitReady")
    /\ UNCHANGED <<call, lock, mounts, files, dirs>>

\* waitForDeviceReady: 21 looks at /dev/disk/by-id, one second apart.  When
\* the device does not show up Connect fails and NodeStageVolume returns
\* (its deferred Disconnect is not registered yet).
WaitForDeviceReady(t) ==
    /\ pc[t] = "waitReady"
    /\ \/ Nqn(t) \in connected /\ Goto(t, "create")
       \/ Goto(t, "err")
    /\ UNCHANGED <<call, lock, node>>

\* The mount table after the devices of subsystem n are gone.
Dead(m, n) ==
    [p \in Paths |->
        [i \in DOMAIN m[p] |->
            IF NqnOf[p[1]] = n /\ m[p][i] = "live" THEN "dead" ELSE m[p][i]]]

\* `nvme disconnect -n': all controllers, hence all devices, of the
\* subsystem; then waitForDeviceGone, whose result the caller drops.  Runs
\* as NodeStageVolume's deferred function, with the volume still locked.
Disconnect(t) ==
    /\ pc[t] = "disconnect"
    /\ \/ connected' = connected \ {Nqn(t)} /\ mounts' = Dead(mounts, Nqn(t))
       \/ UNCHANGED <<connected, mounts>>
    /\ Goto(t, "err")
    /\ UNCHANGED <<call, lock, files, dirs>>

-----------------------------------------------------------------------------
(* Mount points.                                                           *)

\* Where a failing stageVolume or NodePublishVolume goes next.
Fail(t) == Goto(t, IF Op(t) = "stage" THEN "disconnect" ELSE "err")

\* createMountPoint up to MkdirAll.  stageVolume is done when the path is
\* mounted already; NodePublishVolume does not look at that result.
CreateMountPoint(t) ==
    /\ pc[t] = "create"
    /\ LET p == Path(t) IN
       \/ /\ p \in files
          /\ Goto(t, IF Op(t) = "stage" /\ Mounted(p) THEN "ok" ELSE "mount")
          /\ UNCHANGED dirs
       \/ /\ p \notin files
          /\ dirs' = dirs \cup {Parent(p)}
          /\ Goto(t, "open")
       \/ Fail(t) /\ UNCHANGED dirs    \* IsNotMountPoint or MkdirAll fails
    /\ UNCHANGED <<call, lock, mounts, files, connected>>

\* The rest of createMountPoint: OpenFile(O_CREATE) in the directory.  When it
\* fails the directory stays.  (A Stat before it that fails for any reason but
\* a missing file skips OpenFile: the mount that follows fails instead.)
OpenMountPoint(t) ==
    /\ pc[t] = "open"
    /\ \/ /\ Parent(Path(t)) \in dirs
          /\ files' = files \cup {Path(t)}
          /\ Goto(t, "mount")
       \/ Fail(t) /\ UNCHANGED files
    /\ UNCHANGED <<call, lock, mounts, dirs, connected>>

\* What the source of the bind mount shows: the device for stageVolume, the
\* staging path for NodePublishVolume; {} when the source does not exist.
Source(t) ==
    LET s == <<Vol(t), Stage>> IN
    IF Op(t) = "stage"
    THEN IF Nqn(t) \in connected THEN {"live"} ELSE {}
    ELSE IF Mounted(s) THEN {Head(mounts[s])}
         ELSE IF s \in files THEN {"file"} ELSE {}

Push(p, c) == mounts' = [mounts EXCEPT ![p] = <<c>> \o @]

\* mounter.Mount(source, path, "", ["bind"]).  The library runs `mount' twice
\* for a bind mount (bind, then remount): it can fail after mounting.
BindMount(t) ==
    /\ pc[t] = "mount"
    /\ \/ \E c \in Source(t) : Push(Path(t), c) /\ Goto(t, "ok")
       \/ Fail(t) /\ UNCHANGED mounts
       \/ /\ "halfMount" \in Faults
          /\ \E c \in Source(t) : Push(Path(t), c) /\ Fail(t)
    /\ UNCHANGED <<call, lock, files, dirs, connected>>

\* deleteMountPoint, up to the decision whether there is a mount to undo.
DeleteMountPoint(t) ==
    /\ pc[t] = "delete"
    /\ \/ Path(t) \notin files /\ Goto(t, "ok")
       \/ Path(t) \in files /\ Goto(t, IF Mounted(Path(t)) THEN "unmount" ELSE "remove")
       \/ Goto(t, "err")
    /\ UNCHANGED <<call, lock, node>>

\* One umount undoes one mount of the path.
Unmount(t) ==
    /\ pc[t] = "unmount"
    /\ \/ Goto(t, "remove") /\ mounts' = [mounts EXCEPT ![Path(t)] = Tail(@)]
       \/ Goto(t, "err") /\ UNCHANGED mounts
    /\ UNCHANGED <<call, lock, files, dirs, connected>>

\* Bug: the result of os.Remove(path) is not looked at.
RemoveIgnoringErrors(t) ==
    /\ pc[t] = "remove"
    /\ \/ ~Mounted(Path(t)) /\ files' = files \ {Path(t)}
       \/ UNCHANGED files
    /\ Goto(t, "rmdir")
    /\ UNCHANGED <<call, lock, mounts, dirs, connected>>

\* os.Remove of the file: EBUSY while something is mounted there.
RemoveMountPoint(t) ==
    /\ pc[t] = "remove"
    /\ \/ /\ ~Mounted(Path(t))
          /\ files' = files \ {Path(t)}
          /\ Goto(t, "rmdir")
       \/ Goto(t, "err") /\ UNCHANGED files
    /\ UNCHANGED <<call, lock, mounts, dirs, connected>>

\* os.Remove of its directory, if that is empty; every error is dropped.
RemoveParentDir(t) ==
    /\ pc[t] = "rmdir"
    /\ \/ /\ \A q \in files : Parent(q) # Parent(Path(t))
          /\ dirs' = dirs \ {Parent(Path(t))}
       \/ UNCHANGED dirs
    /\ Goto(t, "ok")
    /\ UNCHANGED <<call, lock, mounts, files, connected>>

-----------------------------------------------------------------------------
(* The node.                                                               *)

\* The plugin process is killed and started again (newNodeServer): its
\* goroutines and locks are gone, the node keeps mounts and connections.
NewNodeServer ==
    /\ pc' = [t \in Threads |-> "idle"]
    /\ call' = [t \in Threads |-> NoCall]
    /\ Locks!Reset

Crash ==
    /\ "crash" \in Faults
    /\ NewNodeServer
    /\ UNCHANGED node

\* The node reboots: only what is on disk is left.
Reboot ==
    /\ "reboot" \in Faults
    /\ NewNodeServer
    /\ mounts' = [p \in Paths |-> <<>>]
    /\ connected' = {}
    /\ UNCHANGED <<files, dirs>>

\* The kernel gives a connection up (1800 s after losing the controller).
ConnectionLoss(n) ==
    /\ "loss" \in Faults
    /\ n \in connected
    /\ connected' = connected \ {n}
    /\ mounts' = Dead(mounts, n)
    /\ UNCHANGED <<pc, call, lock, files, dirs>>

Step(t) ==
    \/ Validate(t) \/ IsStaged(t) \/ Connect(t) \/ WaitForDeviceReady(t)
    \/ Disconnect(t) \/ CreateMountPoint(t) \/ OpenMountPoint(t) \/ BindMount(t)
    \/ DeleteMountPoint(t) \/ Unmount(t) \/ RemoveMountPoint(t) \/ RemoveParentDir(t)
    \/ Return(t)

Next ==
    \/ \E t \in Threads : (\E c \in Calls : Arrive(t, c)) \/ LockVolume(t) \/ Step(t)
    \/ \E v \in Volumes : MakeStagingDir(v)
    \/ Crash \/ Reboot
    \/ \E n \in Nqns : ConnectionLoss(n)

Spec == Init /\ [][Next]_vars

\* Every command and every wait of a handler is bounded (40 s for nvme, 21
\* looks for a device), and the mutex of a volume does not starve a waiter
\* (VolumeLocks!LockReturns).  Nothing is assumed of requests and faults.
FairSpec ==
    /\ Spec
    /\ \A t \in Threads : WF_vars(Step(t)) /\ SF_vars(LockVolume(t))

\* kubelet repeats a stage request for ever.
StageRetried ==
    \A v \in Volumes :
        /\ WF_vars(MakeStagingDir(v))
        /\ SF_vars(\E t \in Threads : Arrive(t, [op |-> "stage", vol |-> v,
                                               at |-> Stage, input |-> "good"]))

RetrySpec == FairSpec /\ StageRetried

-----------------------------------------------------------------------------
(* Correctness.                                                            *)

StagePath(v) == <<v, Stage>>

\* However stage requests of a volume are repeated, overlap, fail half way or
\* are cut off by a crash: the volume is never mounted twice on its staging
\* path (NodeUnstageVolume undoes one mount only).
StagedOnce == \A v \in Volumes : Len(mounts[StagePath(v)]) <= 1

\* What a handler answers is true of the node when it answers: a staged or
\* published volume is mounted, an unstaged one is not.
RepliesTrue ==
    \A t \in Threads : pc[t] = "ok" =>
        Mounted(Path(t)) <=> Op(t) \in {"stage", "publish"}

\* NodeUnpublishVolume answers OK only when nothing is left at the target,
\* also when repeated publish requests have stacked several mounts there.
UnpublishedIsGone ==
    \A t \in Threads : pc[t] = "ok" /\ Op(t) = "unpublish" => Path(t) \notin files

\* What a handler has prepared is still there when it uses it: the directory
\* it has made when it opens the mount point file, the file when it mounts.
\* The directory is shared by the targets of a volume and removed by whichever
\* unpublish finds it empty, a repeated or half-done one included, and the
\* staging directory was checked before the lock was taken.
MountPointReady ==
    \A t \in Threads :
        /\ pc[t] = "open" => Parent(Path(t)) \in dirs
        /\ pc[t] = "mount" => Path(t) \in files

\* Every request is answered, unless the plugin is killed meanwhile.
RequestsReturn == \A t \in Threads : pc[t] # "idle" ~> pc[t] = "idle"

\* A step in which goroutine t is not killed while it serves a proper stage
\* request, and the call it makes for it, if any, does what it should.
Succeeds(t) ==
    /\ pc[t] # "idle" /\ Op(t) = "stage" /\ call[t].input = "good"
    /\ pc'[t] # pc[t] /\ pc[t] \notin {"ok", "err", "disconnect"}
    => /\ pc'[t] # "idle"
       /\ IF pc[t] = "connect" THEN Nqn(t) \in connected'
          ELSE pc'[t] \notin {"err", "disconnect"}

\* However often staging a volume has failed, and whatever the failures, a
\* crash or a reboot have left behind (a connection, a mount point file, an
\* empty directory): once the calls stop failing, repeating the request gets
\* the volume staged.
StageRecovers ==
    <>[][\A t \in Threads : Succeeds(t)]_vars
        => \A v \in Volumes : []<>Mounted(<<v, Stage>>)

DeviceLive(v) == \E i \in DOMAIN mounts[StagePath(v)] : mounts[StagePath(v)][i] = "live"

\* The cleanup of a failed NodeStageVolume does not take the device away from
\* another volume that is staged on the node.
NoForeignDisconnect ==
    [][\A t \in Threads : pc[t] = "disconnect" /\ pc'[t] = "err" =>
          \A v \in Volumes \ {Vol(t)} : DeviceLive(v) => DeviceLive(v)']_vars

\* NodeStageVolume answers OK, and "already staged" in particular, only when
\* the device mounted at the staging path is connected.
StagedIsLive ==
    \A t \in Threads : pc[t] = "ok" /\ Op(t) = "stage" => DeviceLive(Vol(t))

\* NodeUnstageVolume of the last staged volume of a subsystem, with no other
\* request in progress, leaves no connection to that subsystem behind.
UnstageDisconnects ==
    [][\A t \in Threads :
          /\ pc[t] = "rmdir" /\ pc'[t] = "ok" /\ Op(t) = "unstage"
          /\ \A v \in Volumes : NqnOf[v] = Nqn(t) => ~Mounted(StagePath(v))
          /\ \A s \in Threads \ {t} : pc[s] = "idle"
          => Nqn(t) \notin connected']_vars

-----------------------------------------------------------------------------
(* The inductive invariant.                                                *)

\* The handler holds the lock of its volume.
InLock == PcValues \ {"idle", "validate", "lock"}

LockHeld ==
    /\ \A t \in Threads : pc[t] \in InLock => lock[Vol(t)] = t
    /\ \A v \in Volumes : lock[v] # Free =>
          pc[lock[v]] \in InLock /\ Vol(lock[v]) = v

\* Which requests can be where, and what they know there.
Knows(t) ==
    /\ pc[t] # "idle" => call[t] \in Calls
    /\ pc[t] \in {"connect", "waitReady", "disconnect"} => Op(t) = "stage"
    /\ pc[t] \in {"create", "open", "mount"} => Op(t) \in {"stage", "publish"}
    /\ pc[t] = "check" => Op(t) \in {"stage", "unstage"}
    /\ pc[t] \in {"delete", "unmount", "remove", "rmdir"} => Op(t) \in {"unstage", "unpublish"}
    /\ pc[t] \in {"connect", "waitReady", "create", "open", "mount"} /\ Op(t) = "stage" =>
          ~Mounted(Path(t))
    /\ pc[t] = "open" => Parent(Path(t)) \in dirs
    /\ pc[t] = "mount" => Path(t) \in files
    /\ pc[t] = "unmount" => Mounted(Path(t))
    /\ pc[t] = "remove" /\ Op(t) = "unstage" => ~Mounted(Path(t))
    /\ pc[t] = "rmdir" => ~Mounted(Path(t)) /\ Path(t) \notin files
    /\ pc[t] = "ok" => (Mounted(Path(t)) <=> Op(t) \in {"stage", "publish"})
    /\ pc[t] = "ok" /\ Op(t) = "unpublish" => Path(t) \notin files

\* A directory is there as long as a file is in it.
DirsKept == \A p \in files : Parent(p) \in dirs

\* The kernel removes no file that something is mounted on.
MountPointsKept == \A p \in Paths : Mounted(p) => p \in files

IInv ==
    /\ TypeOK
    /\ LockHeld
    /\ \A t \in Threads : Knows(t)
    /\ StagedOnce
    /\ DirsKept
    /\ MountPointsKept
=============================================================================
