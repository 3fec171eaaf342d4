---------------------------- MODULE SystemProofs ----------------------------
(***************************************************************************)
(* The driver as a whole, for any volumes, pods, subsystems, goroutines    *)
(* and faults.  The proofs build on those of the two services: the         *)
(* controller inside the system behaves as the controller alone (a theorem *)
(* below), and the node's invariant also survives what the gateway does to *)
(* the node's devices.  What is new is the agreement between the node, the *)
(* gateway and the CO's beliefs.                                           *)
(***************************************************************************)
EXTENDS System, SequenceTheorems, TLAPS

CP == INSTANCE ControllerServerProofs

NP == INSTANCE NodeServerProofs WITH
        Volumes <- Names, Threads <- NodeThreads, NoCall <- None,
        Faults <- NodeFaults, pc <- npc, call <- ncall, lock <- nlock

-----------------------------------------------------------------------------
(* CP and NP speak of the same definitions as C and N.                     *)

LEMMA SameController ==
  /\ C!Init <=> CP!Init
  /\ [C!Next]_(C!vars) <=> [CP!Next]_(CP!vars)
  /\ (C!IInv <=> CP!IInv) /\ (C!IInv' <=> CP!IInv')
  /\ \A t \in Threads : (C!Looked(t) <=> CP!Looked(t)) /\ (C!Looked(t)' <=> CP!Looked(t)')
<1>1. C!Init <=> CP!Init
  BY DEF C!Init, CP!Init, C!Locks!Init, CP!Locks!Init
<1>2. [C!Next]_(C!vars) <=> [CP!Next]_(CP!vars)
  BY DEF C!Next, CP!Next, C!Arrive, CP!Arrive, C!DecodeId, CP!DecodeId,
         C!LockAndCall, CP!LockAndCall, C!Receive, CP!Receive, C!ReceiveAdd,
         CP!ReceiveAdd, C!ReceiveDelete, CP!ReceiveDelete, C!ReceiveList,
         CP!ReceiveList, C!Timeout, CP!Timeout, C!Return, CP!Return,
         C!ReturnUnheard, CP!ReturnUnheard, C!Serve, CP!Serve, C!ServeError,
         CP!ServeError, C!Crash, CP!Crash, C!ServeLate, CP!ServeLate,
         C!Finish, CP!Finish, C!Started, CP!Started, C!Fault, CP!Fault,
         C!Goto, CP!Goto, C!COAllows, CP!COAllows, C!Consumed, CP!Consumed,
         C!Answered, CP!Answered, C!NewIdentifier, CP!NewIdentifier,
         C!encodeVolumeID, CP!encodeVolumeID, C!Matches, CP!Matches,
         C!Waiting, CP!Waiting, C!Apply, CP!Apply, C!Answer, CP!Answer,
         C!Refused, CP!Refused, C!CanAdd, CP!CanAdd, C!Hit, CP!Hit, C!NewNsid,
         CP!NewNsid, C!Calls, CP!Calls, C!VolumeIds, CP!VolumeIds, C!Nsids,
         CP!Nsids, C!Op, CP!Op, C!Name, CP!Name, C!decodeVolumeID,
         CP!decodeVolumeID, C!NamespaceAddReq, CP!NamespaceAddReq,
         C!NamespaceDeleteReq, CP!NamespaceDeleteReq, C!ListNamespacesReq,
         CP!ListNamespacesReq, C!vars, CP!vars, C!gateway, CP!gateway, C!co,
         CP!co, C!server, CP!server, C!Locks!Acquire, CP!Locks!Acquire,
         C!Locks!Release, CP!Locks!Release, C!Locks!Reset, CP!Locks!Reset
<1>3. (C!IInv <=> CP!IInv) /\ (C!IInv' <=> CP!IInv')
  BY DEF C!IInv, CP!IInv, C!TypeOK, CP!TypeOK, C!Calls, CP!Calls, C!Requests,
         CP!Requests, C!Responses, CP!Responses, C!Namespace, CP!Namespace,
         C!VolumeIds, CP!VolumeIds, C!Nsids, CP!Nsids, C!NsidsUsed,
         CP!NsidsUsed, C!OneNamespacePerImage, CP!OneNamespacePerImage,
         C!Issued, CP!Issued, C!Owns, CP!Owns, C!Alive, CP!Alive, C!DeleteOwn,
         CP!DeleteOwn, C!Knows, CP!Knows, C!Op, CP!Op, C!Name, CP!Name,
         C!decodeVolumeID, CP!decodeVolumeID, C!RequestOf, CP!RequestOf,
         C!NamespaceAddReq, CP!NamespaceAddReq, C!NamespaceDeleteReq,
         CP!NamespaceDeleteReq, C!ListNamespacesReq, CP!ListNamespacesReq,
         C!Identifies, CP!Identifies
<1>4. \A t \in Threads : (C!Looked(t) <=> CP!Looked(t)) /\ (C!Looked(t)' <=> CP!Looked(t)')
  BY DEF C!Looked, CP!Looked, C!Kept, CP!Kept, C!Op, CP!Op, C!Name, CP!Name,
         C!decodeVolumeID, CP!decodeVolumeID, C!Namespace, CP!Namespace,
         C!Nsids, CP!Nsids
<1> QED
  BY <1>1, <1>2, <1>3, <1>4

LEMMA SameNode ==
  /\ N!Init <=> NP!Init
  /\ [N!Next]_(N!vars) <=> [NP!Next]_(NP!vars)
  /\ (N!IInv <=> NP!IInv) /\ (N!IInv' <=> NP!IInv')
  /\ \A t \in NodeThreads :
        (N!LockVolume(t) \/ (N!Step(t) /\ ~N!Return(t)))
          <=> (NP!LockVolume(t) \/ (NP!Step(t) /\ ~NP!Return(t)))
<1>1. N!Init <=> NP!Init
  BY DEF N!Init, NP!Init, N!Locks!Init, NP!Locks!Init, N!Paths, NP!Paths
<1>2. [N!Next]_(N!vars) <=> [NP!Next]_(NP!vars)
  BY DEF N!Next, NP!Next, N!Arrive, NP!Arrive, N!MakeStagingDir,
         NP!MakeStagingDir, N!Crash, NP!Crash, N!Reboot, NP!Reboot,
         N!ConnectionLoss, NP!ConnectionLoss, N!NewNodeServer,
         NP!NewNodeServer, N!Calls, NP!Calls, N!vars, NP!vars, N!Locks!Reset,
         NP!Locks!Reset, N!Step, NP!Step, N!LockVolume, NP!LockVolume,
         N!Return, NP!Return, N!Validate, NP!Validate, N!IsStaged,
         NP!IsStaged, N!Connect, NP!Connect, N!WaitForDeviceReady,
         NP!WaitForDeviceReady, N!Disconnect, NP!Disconnect,
         N!CreateMountPoint, NP!CreateMountPoint, N!BindMount, NP!BindMount,
         N!DeleteMountPoint, NP!DeleteMountPoint, N!Unmount, NP!Unmount,
         N!RemoveMountPoint, NP!RemoveMountPoint, N!OpenMountPoint,
         NP!OpenMountPoint, N!RemoveParentDir, NP!RemoveParentDir, N!Dead,
         NP!Dead, N!Fail, NP!Fail, N!Goto, NP!Goto, N!Source, NP!Source, N!Push, NP!Push,
         N!Mounted, NP!Mounted, N!Begin, NP!Begin, N!Parent, NP!Parent,
         N!Path, NP!Path, N!Vol, NP!Vol, N!Op, NP!Op, N!Nqn, NP!Nqn, N!Paths,
         NP!Paths, N!node, NP!node, N!Locks!Acquire, NP!Locks!Acquire,
         N!Locks!Release, NP!Locks!Release
<1>3. (N!IInv <=> NP!IInv) /\ (N!IInv' <=> NP!IInv')
  BY DEF N!IInv, NP!IInv, N!TypeOK, NP!TypeOK, N!LockHeld, NP!LockHeld,
         N!Knows, NP!Knows, N!StagedOnce, NP!StagedOnce, N!DirsKept,
         NP!DirsKept, N!MountPointsKept, NP!MountPointsKept, N!InLock,
         NP!InLock, N!PcValues, NP!PcValues, N!Calls, NP!Calls, N!Dirs,
         NP!Dirs, N!Content, NP!Content, N!Paths, NP!Paths, N!StagePath,
         NP!StagePath, N!Parent, NP!Parent, N!Path, NP!Path, N!Vol, NP!Vol,
         N!Op, NP!Op, N!Mounted, NP!Mounted
<1>4. \A t \in NodeThreads :
        (N!LockVolume(t) \/ (N!Step(t) /\ ~N!Return(t)))
          <=> (NP!LockVolume(t) \/ (NP!Step(t) /\ ~NP!Return(t)))
  BY DEF N!Step, NP!Step, N!LockVolume, NP!LockVolume, N!Return, NP!Return,
         N!Validate, NP!Validate, N!IsStaged, NP!IsStaged, N!Connect,
         NP!Connect, N!WaitForDeviceReady, NP!WaitForDeviceReady,
         N!Disconnect, NP!Disconnect, N!CreateMountPoint, NP!CreateMountPoint,
         N!BindMount, NP!BindMount, N!DeleteMountPoint, NP!DeleteMountPoint,
         N!Unmount, NP!Unmount, N!RemoveMountPoint, NP!RemoveMountPoint,
         N!OpenMountPoint, NP!OpenMountPoint, N!RemoveParentDir, NP!RemoveParentDir,
         N!Dead, NP!Dead, N!Fail, NP!Fail, N!Goto, NP!Goto, N!Source,
         NP!Source, N!Push, NP!Push, N!Mounted, NP!Mounted, N!Begin, NP!Begin,
         N!Parent, NP!Parent, N!Path, NP!Path, N!Vol, NP!Vol, N!Op, NP!Op,
         N!Nqn, NP!Nqn, N!Paths, NP!Paths, N!node, NP!node, N!Locks!Acquire,
         NP!Locks!Acquire, N!Locks!Release, NP!Locks!Release
<1> QED
  BY <1>1, <1>2, <1>3, <1>4

-----------------------------------------------------------------------------
(* The services inside the system.                                         *)

\* Every step of the system is a step of the controller and its gateway, or
\* leaves them alone.
LEMMA ControllerMoves ==
  ASSUME [Next]_vars
  PROVE  [C!Next]_(C!vars)
<1>1. CASE \E t \in Threads :
             \/ \E c \in ControllerCalls : AskController(t, c)
             \/ ControllerStep(t) \/ ControllerAnswer(t)
  BY <1>1 DEF ControllerCalls, AskController, ControllerStep, ControllerAnswer, C!Next
<1>2. CASE ControllerCrash \/ GatewayStep
  BY <1>2 DEF ControllerCrash, GatewayStep, C!Next
<1>3. CASE UNCHANGED controller
  BY <1>3 DEF controller, C!vars, C!server, C!gateway, C!co
<1> QED
  BY <1>1, <1>2, <1>3
     DEF Next, vars, AskNode, NodeStep, NodeAnswer, NodeAnswerUnheard, NodeEvent, NodeReboot

\* Every step of the system is a step of the node, leaves it alone, or takes
\* devices away from it.
LEMMA NodeMoves ==
  ASSUME [Next]_vars
  PROVE  [N!Next]_(N!vars) \/ GatewayStep
<1>1. CASE \E t \in NodeThreads :
             \/ \E c \in NodeCalls : AskNode(t, c)
             \/ NodeStep(t) \/ NodeAnswer(t) \/ NodeAnswerUnheard(t)
  BY <1>1 DEF NodeCalls, AskNode, NodeStep, NodeAnswer, NodeAnswerUnheard, N!Next, N!Step
<1>2. CASE NodeReboot
  BY <1>2 DEF NodeReboot, N!Next
<1>3. CASE NodeEvent
  <2>1. CASE \E v \in Used : N!MakeStagingDir(v)
    BY <2>1, SystemConstants DEF N!Next
  <2> QED
    BY <1>3, <2>1 DEF NodeEvent, N!Next
<1>4. CASE UNCHANGED node
  BY <1>4 DEF node, N!vars
<1> QED
  BY <1>1, <1>2, <1>3, <1>4
     DEF Next, vars, AskController, ControllerStep, ControllerAnswer, ControllerCrash

\* The gateway's steps change what mounts show, not how many there are.
LEMMA DevicesFollowFacts ==
  ASSUME mounts \in [Paths -> Seq(N!Content)], DevicesFollow
  PROVE  /\ mounts' \in [Paths -> Seq(N!Content)]
         /\ \A p \in Paths : /\ Len(mounts'[p]) = Len(mounts[p])
                             /\ mounts'[p] = <<>> <=> mounts[p] = <<>>
                             /\ Shows(p, "file")' => Shows(p, "file")
<1>1. ASSUME NEW p \in Paths
      PROVE  /\ mounts'[p] \in Seq(N!Content)
             /\ Len(mounts'[p]) = Len(mounts[p])
             /\ mounts'[p] = <<>> <=> mounts[p] = <<>>
             /\ Shows(p, "file")' => Shows(p, "file")
  <2> DEFINE d == [i \in DOMAIN mounts[p] |->
                     IF mounts[p][i] = "live" THEN "dead" ELSE mounts[p][i]]
  <2>1. mounts[p] \in Seq(N!Content) /\ (mounts'[p] = mounts[p] \/ mounts'[p] = d)
    BY DEF DevicesFollow
  <2>2. CASE mounts'[p] = mounts[p]
    BY <2>1, <2>2 DEF Shows
  <2>3. CASE mounts'[p] = d
    <3>1. /\ Len(mounts[p]) \in Nat /\ mounts[p] \in [1 .. Len(mounts[p]) -> N!Content]
          /\ DOMAIN mounts[p] = 1 .. Len(mounts[p])
      BY <2>1, LenProperties
    <3>2. d \in [1 .. Len(mounts[p]) -> N!Content]
      BY <3>1 DEF N!Content
    <3>3. d \in Seq(N!Content)
      BY <3>1, <3>2, SeqDef
    <3>4. Len(d) = Len(mounts[p])
      BY <3>1, <3>2, <3>3, LenProperties
    <3>5. (\E i \in DOMAIN d : d[i] = "file") => Shows(p, "file")
      BY DEF Shows
    <3> HIDE DEF d
    <3>6. d = <<>> <=> mounts[p] = <<>>
      BY <2>1, <3>3, <3>4, EmptySeq
    <3> QED
      BY <2>3, <3>3, <3>4, <3>5, <3>6 DEF Shows
  <2> QED
    BY <2>1, <2>2, <2>3
<1>2. mounts' = [p \in Paths |-> mounts'[p]]
  BY DEF DevicesFollow
<1> QED
  BY <1>1, <1>2

\* The node's invariant survives all steps of the system, the gateway's too,
\* whatever requests the CO makes.
LEMMA NodeIInv ==
  ASSUME N!IInv, [Next]_vars
  PROVE  N!IInv'
<1>1. NP!IInv
  BY SameNode
<1>2. CASE [N!Next]_(N!vars)
  <2>1. [NP!Next]_(NP!vars)
    BY <1>2, SameNode
  <2>2. NP!IInv'
    BY <1>1, <2>1, NP!NextIInv, SystemConstants
  <2> QED
    BY <2>2, SameNode
<1>3. CASE GatewayStep
  <2>1. /\ UNCHANGED <<npc, ncall, nlock, files, dirs>> /\ connected' \subseteq connected
        /\ DevicesFollow
    BY <1>3 DEF GatewayStep
  <2>2. mounts \in [Paths -> Seq(N!Content)]
    BY DEF N!IInv, N!TypeOK, Paths
  <2>3. /\ mounts' \in [Paths -> Seq(N!Content)]
        /\ \A p \in Paths : /\ Len(mounts'[p]) = Len(mounts[p])
                            /\ mounts'[p] = <<>> <=> mounts[p] = <<>>
    BY <2>1, <2>2, DevicesFollowFacts
  <2>4. NP!Paths = Paths /\ NP!Content = N!Content
    BY DEF NP!Paths, N!Paths, Paths, NP!Content, N!Content
  <2>5. NP!IInv'
    BY <1>1, <2>1, <2>3, <2>4, NP!DevicesChangeIInv, SystemConstants
  <2> QED
    BY <2>5, SameNode
<1> QED
  BY <1>2, <1>3, NodeMoves

-----------------------------------------------------------------------------
(* The node and the CO.                                                    *)

LEMMA PathFacts ==
  /\ \A p \in Paths : p = <<p[1], p[2]>> /\ p[1] \in Names /\ p[2] \in Pods \cup {Stage}
  /\ \A v \in Names, a \in Pods \cup {Stage} :
        <<v, a>> \in Paths /\ <<v, a>>[1] = v /\ <<v, a>>[2] = a
BY DEF Paths, N!Paths

LEMMA CallFacts ==
  ASSUME NEW c \in N!Calls
  PROVE  /\ c.vol \in Names /\ <<c.vol, c.at>> \in Paths
         /\ c.op \in {"stage", "unstage", "publish", "unpublish"}
         /\ c.op \in {"stage", "unstage"} => c.at = Stage
         /\ c.op \in {"publish", "unpublish"} => c.at \in Pods /\ c.at # Stage
BY SystemConstants DEF N!Calls, Paths, N!Paths

\* A request that is being served is one.
LEMMA ServedCall ==
  ASSUME N!IInv, NEW t \in NodeThreads, npc[t] # "idle"
  PROVE  ncall[t] \in N!Calls
BY DEF N!IInv, N!Knows

LEMMA InitNodeSide == Init => NodeSide
<1> SUFFICES ASSUME Init PROVE NodeSide
  OBVIOUS
<1>1. N!IInv
  <2>1. NP!Init
    BY SameNode DEF Init
  <2>2. NP!IInv
    BY <2>1, NP!InitIInv, SystemConstants
  <2> QED
    BY <2>2, SameNode
<1>2. /\ \A t \in NodeThreads : npc[t] = "idle"
      /\ \A p \in Paths : mounts[p] = <<>>
      /\ onNode = {} /\ ready = {} /\ inPods = {}
  BY DEF Init, N!Init, Paths
<1>3. \A p \in Paths : ~Shows(p, "file")
  BY <1>2 DEF Shows
<1> QED
  BY <1>1, <1>2, <1>3 DEF NodeSide, Alone, Serving, MountsKnown, N!Mounted, LifeCycle

\* Steps that leave the requests and the CO's beliefs alone, and unmount and
\* mount nothing.
LEMMA NodeSideFrame ==
  ASSUME NodeSide, N!IInv', UNCHANGED <<npc, ncall, onNode, ready, inPods>>,
         onNode \cap retired' = {},
         \A p \in Paths : /\ mounts'[p] = <<>> <=> mounts[p] = <<>>
                          /\ Shows(p, "file")' => Shows(p, "file")
  PROVE  NodeSide'
<1>1. Alone' /\ \A t \in NodeThreads : Serving(t)'
  BY DEF NodeSide, Alone, Serving
<1>2. LifeCycle' /\ \A p \in Paths : ~Shows(p, "file")'
  BY DEF NodeSide, LifeCycle
<1>3. MountsKnown'
  BY PathFacts DEF NodeSide, MountsKnown, N!Mounted, LifeCycle
<1> QED
  BY <1>1, <1>2, <1>3 DEF NodeSide, Paths

LEMMA ControllerNodeSide ==
  ASSUME NodeSide, N!IInv',
         \/ \E t \in Threads :
               \/ \E c \in ControllerCalls : AskController(t, c)
               \/ ControllerStep(t) \/ ControllerAnswer(t)
         \/ ControllerCrash
  PROVE  NodeSide'
<1>1. UNCHANGED <<npc, ncall, mounts, onNode, ready, inPods>>
  BY DEF AskController, ControllerStep, ControllerAnswer, ControllerCrash, node, kubelet
<1>2. onNode \cap retired' = {}
  <2>1. CASE \E t \in Threads, c \in ControllerCalls : AskController(t, c)
    <3>1. PICK t \in Threads, c \in ControllerCalls : AskController(t, c)
      BY <2>1
    <3>2. CASE c.op = "delete"
      <4>1. C!Name(c) \notin onNode
        BY <3>1, <3>2 DEF AskController, Unused
      <4>2. retired' \subseteq retired \cup {C!Name(c)}
        BY <3>1, <3>2 DEF AskController, C!Arrive
      <4> QED
        BY <4>1, <4>2 DEF NodeSide, LifeCycle
    <3>3. CASE c.op # "delete"
      BY <3>1, <3>3 DEF AskController, C!Arrive, NodeSide, LifeCycle
    <3> QED
      BY <3>2, <3>3
  <2>2. CASE \/ ControllerCrash
             \/ \E t \in Threads : ControllerStep(t) \/ ControllerAnswer(t)
    <3>1. retired' = retired
      BY <2>2 DEF ControllerCrash, ControllerStep, ControllerAnswer, C!Crash, C!DecodeId,
                  C!LockAndCall, C!Receive, C!ReceiveAdd, C!ReceiveDelete, C!ReceiveList,
                  C!Consumed, C!Timeout, C!Return, C!ReturnUnheard, C!Finish,
                  C!ServeError, C!co
    <3> QED
      BY <3>1 DEF NodeSide, LifeCycle
  <2> QED
    BY <2>1, <2>2
<1> QED
  BY <1>1, <1>2, NodeSideFrame DEF Shows

LEMMA GatewayNodeSide ==
  ASSUME NodeSide, N!IInv', GatewayStep
  PROVE  NodeSide'
<1>1. /\ UNCHANGED <<npc, ncall, onNode, ready, inPods>> /\ retired' = retired
      /\ DevicesFollow
  BY DEF GatewayStep, kubelet, C!Serve, C!ServeLate, C!co
<1>2. mounts \in [Paths -> Seq(N!Content)]
  BY DEF NodeSide, N!IInv, N!TypeOK, Paths
<1>3. onNode \cap retired' = {}
  BY <1>1 DEF NodeSide, LifeCycle
<1> QED
  BY <1>1, <1>2, <1>3, DevicesFollowFacts, NodeSideFrame

\* The CO asks the node, having heard the answer to its last request for the
\* volume.
LEMMA AskNodeSide ==
  ASSUME NodeSide, N!IInv', ~GivesUp, NEW t \in NodeThreads, NEW c \in NodeCalls, AskNode(t, c)
  PROVE  NodeSide'
<1>1. /\ c \in N!Calls /\ npc[t] = "idle" /\ ~Busy(c.vol) /\ InOrder(c)
      /\ npc' = [npc EXCEPT ![t] = IF c.op = "stage" THEN "validate" ELSE "lock"]
      /\ ncall' = [ncall EXCEPT ![t] = c] /\ mounts' = mounts /\ retired' = retired
      /\ onNode' = IF c.op = "stage" THEN onNode \cup {c.vol} ELSE onNode
      /\ ready' = IF c.op = "unstage" THEN ready \ {c.vol} ELSE ready
      /\ inPods' = IF c.op = "publish" THEN inPods \cup {<<c.vol, c.at>>} ELSE inPods
  BY DEF NodeCalls, AskNode, N!Arrive, N!Goto, N!node, controller
<1>2. /\ c.vol \in Names /\ <<c.vol, c.at>> \in Paths
      /\ c.op \in {"stage", "unstage", "publish", "unpublish"}
      /\ c.op \in {"stage", "unstage"} => c.at = Stage
      /\ c.op \in {"publish", "unpublish"} => c.at \in Pods /\ c.at # Stage
  BY <1>1, CallFacts
<1>3. /\ c.op = "stage" => c.vol \notin retired
      /\ c.op = "publish" => c.vol \in ready
      /\ c.op = "unpublish" => <<c.vol, c.at>> \in inPods
      /\ c.op = "unstage" => c.vol \in onNode /\ \A p \in Pods : <<c.vol, p>> \notin inPods
  BY <1>1, <1>2 DEF InOrder
<1>4. /\ npc'[t] # "idle" /\ ncall'[t] = c
      /\ \A s \in NodeThreads \ {t} : npc'[s] = npc[s] /\ ncall'[s] = ncall[s]
      /\ \A s \in NodeThreads : npc[s] # "idle" => ncall[s].vol # c.vol /\ s # t
  BY <1>1 DEF NodeSide, N!IInv, N!TypeOK, Busy
<1>5. LifeCycle
  BY DEF NodeSide
<1>6. Alone'
  BY <1>4 DEF NodeSide, Alone
<1>7. Serving(t)'
  <2>1. c.vol \in onNode'
    BY <1>1, <1>2, <1>3, <1>5 DEF LifeCycle
  <2>2. c.op = "publish" => c.vol \in ready' /\ <<c.vol, c.at>> \in inPods'
    BY <1>1, <1>3
  <2>3. c.op = "unpublish" => <<c.vol, c.at>> \in inPods'
    BY <1>1, <1>3
  <2>4. c.op = "unstage" => c.vol \notin ready' /\ \A p \in Pods : <<c.vol, p>> \notin inPods'
    BY <1>1, <1>3
  <2> QED
    BY <1>4, <2>1, <2>2, <2>3, <2>4 DEF Serving
<1>8. ASSUME NEW s \in NodeThreads \ {t} PROVE Serving(s)'
  <2>1. Serving(s) /\ npc'[s] = npc[s] /\ ncall'[s] = ncall[s]
        /\ (npc[s] # "idle" => ncall[s].vol # c.vol)
    BY <1>4 DEF NodeSide
  <2> QED
    BY <1>1, <2>1 DEF Serving
<1>9. LifeCycle'
  BY <1>1, <1>2, <1>3, <1>5 DEF LifeCycle
<1>10. MountsKnown'
  <2>1. onNode \subseteq onNode' /\ inPods \subseteq inPods' /\ ready' \subseteq ready
    BY <1>1
  <2> QED
    BY <1>1, <2>1 DEF NodeSide, MountsKnown, N!Mounted
<1>11. \A p \in Paths : ~Shows(p, "file")'
  BY <1>1 DEF NodeSide, Shows
<1> QED
  BY <1>6, <1>7, <1>8, <1>9, <1>10, <1>11 DEF NodeSide, Paths

\* A handler of the node does its next step.
LEMMA NodeStepSide ==
  ASSUME NodeSide, N!IInv', NEW t \in NodeThreads, NodeStep(t)
  PROVE  NodeSide'
<1> DEFINE c == ncall[t]
           p == <<c.vol, c.at>>
<1>1. /\ N!LockVolume(t) \/ (N!Step(t) /\ ~N!Return(t))
      /\ UNCHANGED <<retired, onNode, ready, inPods>>
  BY DEF NodeStep, controller, kubelet
<1>2. NP!LockVolume(t) \/ (NP!Step(t) /\ ~NP!Return(t))
  BY <1>1, SameNode
<1>3. NP!IInv
  BY SameNode DEF NodeSide
<1>4. /\ npc[t] \notin {"idle", "ok", "err"}
      /\ \A s \in NodeThreads \ {t} : npc'[s] = npc[s] /\ ncall'[s] = ncall[s]
      /\ npc'[t] = "idle" \/ ncall'[t] = ncall[t]
  BY <1>2, <1>3, NP!HandlerKeepsCall, SystemConstants
<1>5. NP!MountsFollow(t)
  BY <1>2, <1>3, NP!HandlerMounts, SystemConstants
<1>6. /\ \A q \in Paths : q # p => (mounts'[q] = <<>> <=> mounts[q] = <<>>)
      /\ mounts'[p] # <<>> =>
            mounts[p] # <<>> \/ (npc[t] = "mount" /\ c.op \in {"stage", "publish"})
      /\ mounts'[p] = <<>> => mounts[p] = <<>> \/ c.op \in {"unstage", "unpublish"}
      /\ \A q \in Paths : Shows(q, "file")' =>
            \/ Shows(q, "file")
            \/ /\ c.op = "publish"
               /\ mounts[<<c.vol, Stage>>] = <<>> \/ Shows(<<c.vol, Stage>>, "file")
  BY <1>5 DEF NP!MountsFollow, NP!Paths, NP!Path, NP!Op, NP!Vol, NP!ShowsFile,
              NP!Mounted, NP!StagePath, Paths, N!Paths, Shows
<1>7. c \in N!Calls
  BY <1>4, ServedCall DEF NodeSide
<1>8. /\ c.vol \in Names /\ p \in Paths
      /\ c.op \in {"stage", "unstage", "publish", "unpublish"}
      /\ c.op \in {"stage", "unstage"} => c.at = Stage
      /\ c.op \in {"publish", "unpublish"} => c.at \in Pods /\ c.at # Stage
  BY <1>7, CallFacts
<1>9. /\ c.vol \in onNode
      /\ c.op = "publish" => c.vol \in ready
      /\ c.op \in {"publish", "unpublish"} => p \in inPods
      /\ c.op = "unstage" => c.vol \notin ready
  BY <1>4 DEF NodeSide, Serving
<1> HIDE DEF c
<1>10. Alone'
  BY <1>4 DEF NodeSide, Alone
<1>11. ASSUME NEW s \in NodeThreads PROVE Serving(s)'
  <2>1. npc'[s] # "idle" => npc[s] # "idle" /\ ncall'[s] = ncall[s]
    BY <1>4
  <2> QED
    BY <1>1, <2>1 DEF NodeSide, Serving
<1>12. LifeCycle'
  BY <1>1 DEF NodeSide, LifeCycle
<1>13. MountsKnown'
  <2>1. ASSUME NEW q \in Paths, mounts'[q] # <<>>
        PROVE  q[1] \in onNode /\ (q[2] # Stage => q \in inPods)
    <3>1. CASE mounts[q] # <<>>
      BY <3>1 DEF NodeSide, MountsKnown, N!Mounted
    <3>2. CASE mounts[q] = <<>>
      <4>1. q = p /\ c.op \in {"stage", "publish"}
        BY <1>6, <2>1, <3>2
      <4>2. q[1] = c.vol /\ q[2] = c.at
        BY <4>1
      <4> QED
        BY <1>8, <1>9, <4>1, <4>2
    <3> QED
      BY <3>1, <3>2
  <2>2. ASSUME NEW v \in ready PROVE mounts'[<<v, Stage>>] # <<>>
    <3>1. v \in Names /\ <<v, Stage>> \in Paths /\ mounts[<<v, Stage>>] # <<>>
      BY PathFacts DEF NodeSide, LifeCycle, MountsKnown, N!Mounted
    <3>2. CASE <<v, Stage>> # p
      BY <1>6, <3>1, <3>2
    <3>3. CASE <<v, Stage>> = p
      <4>1. v = c.vol /\ c.at = Stage
        BY <3>3
      <4>2. c.op \notin {"unstage", "unpublish"}
        BY <1>8, <1>9, <4>1
      <4> QED
        BY <1>6, <3>1, <3>3, <4>2
    <3> QED
      BY <3>2, <3>3
  <2> QED
    BY <1>1, <2>1, <2>2 DEF MountsKnown, N!Mounted, Paths
<1>14. ASSUME NEW q \in Paths PROVE ~Shows(q, "file")'
  <2>1. /\ ~Shows(q, "file") /\ <<c.vol, Stage>> \in Paths
        /\ ~Shows(<<c.vol, Stage>>, "file")
    BY <1>8, PathFacts DEF NodeSide
  <2>2. c.op = "publish" => mounts[<<c.vol, Stage>>] # <<>>
    BY <1>9 DEF NodeSide, MountsKnown, N!Mounted
  <2> QED
    BY <1>6, <2>1, <2>2
<1> QED
  BY <1>10, <1>11, <1>12, <1>13, <1>14 DEF NodeSide, Paths

\* A handler of the node returns: its answer is true, so what the CO makes of
\* it is.  Nobody else serves the volume.
LEMMA NodeAnswerSide ==
  ASSUME NodeSide, N!IInv', NEW t \in NodeThreads, NodeAnswer(t) \/ NodeAnswerUnheard(t)
  PROVE  NodeSide'
<1> DEFINE c == ncall[t]
           p == <<c.vol, c.at>>
<1>1. /\ npc[t] \in {"ok", "err"} /\ npc' = [npc EXCEPT ![t] = "idle"]
      /\ ncall' = [ncall EXCEPT ![t] = None]
      /\ mounts' = mounts /\ retired' = retired
  BY DEF NodeAnswer, NodeAnswerUnheard, N!Return, N!Goto, N!node, controller
<1>2. /\ \/ ready' = ready
         \/ npc[t] = "ok" /\ c.op = "stage" /\ ready' = ready \cup {c.vol}
      /\ \/ onNode' = onNode
         \/ npc[t] = "ok" /\ c.op = "unstage" /\ onNode' = onNode \ {c.vol}
      /\ \/ inPods' = inPods
         \/ npc[t] = "ok" /\ c.op = "unpublish" /\ inPods' = inPods \ {p}
  BY DEF NodeAnswer, NodeAnswerUnheard, kubelet
<1>3. /\ npc'[t] = "idle"
      /\ \A s \in NodeThreads \ {t} : npc'[s] = npc[s] /\ ncall'[s] = ncall[s]
      /\ \A s \in NodeThreads \ {t} : npc[s] # "idle" => ncall[s].vol # c.vol
  BY <1>1 DEF NodeSide, Alone, N!IInv, N!TypeOK
<1>4. c \in N!Calls
  BY <1>1, ServedCall DEF NodeSide
<1>5. /\ c.vol \in Names /\ p \in Paths /\ p[1] = c.vol /\ p[2] = c.at
      /\ c.op \in {"stage", "unstage", "publish", "unpublish"}
      /\ c.op \in {"stage", "unstage"} => c.at = Stage
      /\ c.op \in {"publish", "unpublish"} => c.at \in Pods /\ c.at # Stage
  BY <1>4, CallFacts
<1>6. /\ c.vol \in onNode
      /\ c.op = "unstage" => c.vol \notin ready /\ \A a \in Pods : <<c.vol, a>> \notin inPods
  BY <1>1 DEF NodeSide, Serving
<1>7. npc[t] = "ok" => (mounts[p] # <<>> <=> c.op \in {"stage", "publish"})
  BY DEF NodeSide, N!IInv, N!Knows, N!Mounted, N!Path, N!Op
<1> HIDE DEF c
<1>8. Alone'
  BY <1>3 DEF NodeSide, Alone
<1>9. ASSUME NEW s \in NodeThreads PROVE Serving(s)'
  <2>1. CASE s = t
    BY <1>3, <2>1 DEF Serving
  <2>2. CASE s # t
    <3>1. /\ Serving(s) /\ npc'[s] = npc[s] /\ ncall'[s] = ncall[s]
          /\ npc[s] # "idle" => ncall[s].vol # c.vol
      BY <1>3, <2>2 DEF NodeSide
    <3>2. /\ ready \subseteq ready' /\ ready' \subseteq ready \cup {c.vol}
          /\ onNode \ {c.vol} \subseteq onNode'
          /\ inPods \ {p} \subseteq inPods' /\ inPods' \subseteq inPods
      BY <1>2
    <3>3. npc[s] # "idle" => <<ncall[s].vol, ncall[s].at>> # p
      BY <3>1
    <3> QED
      BY <3>1, <3>2, <3>3 DEF Serving
  <2> QED
    BY <2>1, <2>2
<1>10. LifeCycle
  BY DEF NodeSide
<1>11. LifeCycle'
  <2>1. onNode' \subseteq Names /\ onNode' \cap retired' = {}
    BY <1>1, <1>2, <1>10 DEF LifeCycle
  <2>2. ready' \subseteq onNode'
    BY <1>2, <1>6, <1>10 DEF LifeCycle
  <2>3. inPods' \subseteq onNode' \X Pods
    <3>1. ASSUME NEW x \in inPods' PROVE x \in onNode' \X Pods
      <4>1. x \in inPods /\ x = <<x[1], x[2]>> /\ x[1] \in onNode /\ x[2] \in Pods
        BY <1>2, <1>10, <3>1 DEF LifeCycle
      <4>2. c.op = "unstage" => x[1] # c.vol
        BY <1>6, <4>1
      <4> QED
        BY <1>2, <4>1, <4>2
    <3> QED
      BY <3>1
  <2> QED
    BY <2>1, <2>2, <2>3 DEF LifeCycle
<1>12. MountsKnown'
  <2>1. ASSUME NEW q \in Paths, mounts[q] # <<>>
        PROVE  q[1] \in onNode' /\ (q[2] # Stage => q \in inPods')
    <3>1. /\ q[1] \in onNode /\ (q[2] # Stage => q \in inPods)
          /\ q = <<q[1], q[2]>> /\ q[2] \in Pods \cup {Stage}
      BY <2>1, PathFacts DEF NodeSide, MountsKnown, N!Mounted
    <3>2. npc[t] = "ok" /\ c.op \in {"unstage", "unpublish"} => q # p
      BY <1>7, <2>1
    <3>3. npc[t] = "ok" /\ c.op = "unstage" => q[1] # c.vol
      BY <1>5, <1>6, <3>1, <3>2
    <3> QED
      BY <1>2, <3>1, <3>2, <3>3
  <2>2. ASSUME NEW v \in ready' PROVE mounts[<<v, Stage>>] # <<>>
    <3>1. CASE v \in ready
      BY <3>1 DEF NodeSide, MountsKnown, N!Mounted
    <3>2. CASE v \notin ready
      BY <1>2, <1>5, <1>7, <2>2, <3>2
    <3> QED
      BY <3>1, <3>2
  <2> QED
    BY <1>1, <2>1, <2>2 DEF MountsKnown, N!Mounted, Paths
<1>13. \A q \in Paths : ~Shows(q, "file")'
  BY <1>1 DEF NodeSide, Shows
<1> QED
  BY <1>8, <1>9, <1>11, <1>12, <1>13 DEF NodeSide, Paths

\* The plugin is killed, or the node reboots and the CO stages again.
LEMMA RestartSide ==
  ASSUME NodeSide, N!IInv', UNCHANGED <<retired, onNode, inPods>>,
         \/ N!Crash /\ ready' = ready
         \/ N!Reboot /\ ready' = {}
  PROVE  NodeSide'
<1>1. \A t \in NodeThreads : npc'[t] = "idle"
  BY DEF N!Crash, N!Reboot, N!NewNodeServer
<1>2. Alone' /\ \A t \in NodeThreads : Serving(t)'
  BY <1>1 DEF Alone, Serving
<1>3. LifeCycle'
  BY DEF NodeSide, LifeCycle
<1>4. CASE N!Crash /\ ready' = ready
  <2>1. mounts' = mounts
    BY <1>4 DEF N!Crash, N!node
  <2>2. MountsKnown' /\ \A p \in Paths : ~Shows(p, "file")'
    BY <1>4, <2>1 DEF NodeSide, MountsKnown, N!Mounted, Shows
  <2> QED
    BY <1>2, <1>3, <2>2 DEF NodeSide, Paths
<1>5. CASE N!Reboot /\ ready' = {}
  <2>1. \A p \in Paths : mounts'[p] = <<>>
    BY <1>5 DEF N!Reboot, Paths
  <2>2. MountsKnown' /\ \A p \in Paths : ~Shows(p, "file")'
    BY <1>5, <2>1 DEF MountsKnown, N!Mounted, Shows, Paths
  <2> QED
    BY <1>2, <1>3, <2>2 DEF NodeSide, Paths
<1> QED
  BY <1>4, <1>5

\* Losing the devices of a subsystem unmounts nothing and shows no file.
LEMMA DeadKeeps ==
  ASSUME N!IInv, NEW n, mounts' = N!Dead(mounts, n)
  PROVE  \A p \in Paths : /\ mounts'[p] = <<>> <=> mounts[p] = <<>>
                          /\ Shows(p, "file")' => Shows(p, "file")
<1>1. mounts \in [NP!Paths -> Seq(NP!Content)] /\ NP!Paths = Paths
  BY DEF N!IInv, N!TypeOK, N!Paths, NP!Paths, NP!Content, N!Content, Paths
<1>2. mounts' = NP!Dead(mounts, n)
  BY DEF N!Dead, NP!Dead, N!Paths, NP!Paths
<1>3. \A p \in NP!Paths : /\ mounts'[p] = <<>> <=> mounts[p] = <<>>
                          /\ NP!ShowsFile(p)' => NP!ShowsFile(p)
  BY <1>1, <1>2, NP!DeadShowsNoFile, SystemConstants
<1> QED
  BY <1>1, <1>3 DEF NP!ShowsFile, Shows

LEMMA NodeEventSide ==
  ASSUME NodeSide, N!IInv', NodeEvent \/ NodeReboot
  PROVE  NodeSide'
<1>1. CASE NodeReboot
  BY <1>1, RestartSide DEF NodeReboot, controller
<1>2. CASE NodeEvent /\ N!Crash
  BY <1>2, RestartSide DEF NodeEvent, controller, kubelet
<1>3. CASE NodeEvent /\ \E n \in Nqns : N!ConnectionLoss(n)
  <2>1. PICK n \in Nqns : N!ConnectionLoss(n)
    BY <1>3
  <2>2. \A p \in Paths : /\ mounts'[p] = <<>> <=> mounts[p] = <<>>
                         /\ Shows(p, "file")' => Shows(p, "file")
    BY <2>1, DeadKeeps DEF NodeSide, N!ConnectionLoss
  <2>3. UNCHANGED <<npc, ncall, onNode, ready, inPods>> /\ onNode \cap retired' = {}
    BY <1>3, <2>1 DEF NodeEvent, N!ConnectionLoss, controller, kubelet, NodeSide, LifeCycle
  <2> QED
    BY <2>2, <2>3, NodeSideFrame
<1>4. CASE NodeEvent /\ \E v \in Used : N!MakeStagingDir(v)
  <2>1. /\ UNCHANGED <<npc, ncall, mounts, onNode, ready, inPods>>
        /\ onNode \cap retired' = {}
    BY <1>4 DEF NodeEvent, N!MakeStagingDir, controller, kubelet, NodeSide, LifeCycle
  <2> QED
    BY <2>1, NodeSideFrame DEF Shows
<1> QED
  BY <1>1, <1>2, <1>3, <1>4 DEF NodeEvent

LEMMA NextNodeSide ==
  ASSUME NodeSide, ~GivesUp, [Next]_vars
  PROVE  NodeSide'
<1>1. N!IInv'
  BY NodeIInv DEF NodeSide
<1>2. CASE \/ \E t \in Threads :
                 \/ \E c \in ControllerCalls : AskController(t, c)
                 \/ ControllerStep(t) \/ ControllerAnswer(t)
           \/ ControllerCrash
  BY <1>1, <1>2, ControllerNodeSide
<1>3. CASE GatewayStep
  BY <1>1, <1>3, GatewayNodeSide
<1>4. CASE \E t \in NodeThreads, c \in NodeCalls : AskNode(t, c)
  BY <1>1, <1>4, AskNodeSide
<1>5. CASE \E t \in NodeThreads : NodeStep(t)
  BY <1>1, <1>5, NodeStepSide
<1>6. CASE \E t \in NodeThreads : NodeAnswer(t) \/ NodeAnswerUnheard(t)
  BY <1>1, <1>6, NodeAnswerSide
<1>7. CASE NodeEvent \/ NodeReboot
  BY <1>1, <1>7, NodeEventSide
<1>8. CASE UNCHANGED vars
  <2>1. UNCHANGED <<npc, ncall, mounts, onNode, ready, inPods, retired>>
    BY <1>8 DEF vars, node, kubelet, controller
  <2>2. onNode \cap retired' = {}
    BY <2>1 DEF NodeSide, LifeCycle
  <2> QED
    BY <1>1, <2>1, <2>2, NodeSideFrame DEF Shows
<1> QED
  BY <1>2, <1>3, <1>4, <1>5, <1>6, <1>7, <1>8 DEF Next

-----------------------------------------------------------------------------
(* The gateway and the publish contexts.                                   *)

\* What the controller's proofs say of a step of the system.
LEMMA ControllerKeeps ==
  ASSUME ~ReuseNsids, C!IInv, \A t \in Threads : C!Looked(t), [Next]_vars
  PROVE  /\ C!IInv'
         /\ \A t \in Threads : C!Looked(t)'
         /\ retired \subseteq retired'
         /\ \A ns \in namespaces : ns \in namespaces' \/ ns.image \in retired'
<1> USE SystemConstants DEF CP!VolumeIds, CP!Responses, C!VolumeIds, C!Responses,
        C!Nsids, CP!Nsids, C!Namespace, CP!Namespace
<1>1. CP!IInv /\ [CP!Next]_(CP!vars) /\ \A t \in Threads : CP!Looked(t)
  BY ControllerMoves, SameController
<1>2. CP!IInv'
  BY <1>1, CP!NextIInv
<1>3. \A t \in Threads : CP!Looked(t)'
  BY <1>1, CP!NextLooked
<1>4. /\ retired \subseteq retired'
      /\ \A ns \in namespaces : ns \in namespaces' \/ ns.image \in retired'
  BY <1>1, CP!NextKeeps
<1> QED
  BY <1>2, <1>3, <1>4, SameController

LEMMA InitGatewaySide == Init => GatewaySide
<1> SUFFICES ASSUME Init PROVE GatewaySide
  OBVIOUS
<1>1. C!IInv
  <2>1. CP!Init
    BY SameController DEF Init
  <2>2. CP!IInv
    BY <2>1, CP!InitIInv, SystemConstants
       DEF CP!VolumeIds, CP!Responses, C!VolumeIds, C!Responses, C!Nsids, CP!Nsids,
           C!Namespace, CP!Namespace
  <2> QED
    BY <2>2, SameController
<1>2. \A t \in Threads : C!Looked(t)
  BY DEF Init, C!Init, C!Looked
<1>3. context = [v \in Names |-> None] /\ onNode = {}
  BY DEF Init
<1> QED
  BY <1>1, <1>2, <1>3 DEF GatewaySide

\* The CO takes a uuid from an answer of ControllerPublishVolume: that of a
\* namespace of the volume that is there.
LEMMA AnswerContext ==
  ASSUME GatewaySide, NEW t \in Threads, ControllerAnswer(t)
  PROVE  /\ context' \in [Names -> Uuids \cup {None}]
         /\ \A v \in Names : context'[v] # None => Leads(context[v], v)'
         /\ \A v \in Names : context[v] # None => context'[v] # None
<1>1. UNCHANGED <<namespaces, retired>>
  BY DEF ControllerAnswer, C!Return, C!Finish, C!gateway
<1>2. CASE pc[t] = "ok" /\ C!Op(t) = "publish"
  <2> DEFINE w == C!Name(call[t])
             u == found[t].uuid
  <2>1. context' = [context EXCEPT ![w] = u]
    BY <1>2 DEF ControllerAnswer
  <2>2. found[t] \in C!Namespace /\ C!Kept(found[t]) /\ found[t].image = w
    BY <1>2 DEF GatewaySide, C!Looked
  <2>3. w \in Names /\ u \in Uuids /\ u # None
    BY <2>2, SystemConstants DEF C!Namespace, C!Nsids, Uuids
  <2>4. w \in retired \/ \E ns \in namespaces : ns.uuid = u /\ ns.image = w
    BY <2>2 DEF C!Kept
  <2> HIDE DEF w, u
  <2>5. ASSUME NEW v \in Names, context'[v] # None PROVE Leads(context[v], v)'
    BY <1>1, <2>1, <2>3, <2>4, <2>5 DEF GatewaySide, Leads
  <2> QED
    BY <2>1, <2>3, <2>5 DEF GatewaySide
<1>3. CASE ~(pc[t] = "ok" /\ C!Op(t) = "publish")
  <2>1. context' = context
    BY <1>3 DEF ControllerAnswer
  <2> QED
    BY <1>1, <2>1 DEF GatewaySide, Leads
<1> QED
  BY <1>2, <1>3

\* A volume goes to the node only with a publish context.
LEMMA ContextOnNode ==
  ASSUME GatewaySide, [Next]_vars, NEW v \in onNode'
  PROVE  v \in Names /\ context[v] # None
<1>1. CASE \E t \in NodeThreads, c \in NodeCalls : AskNode(t, c)
  <2>1. PICK t \in NodeThreads, c \in NodeCalls : AskNode(t, c)
    BY <1>1
  <2>2. c.op = "stage" => c.vol \in Names /\ context[c.vol] # None
    BY <2>1, CallFacts DEF NodeCalls, AskNode, InOrder
  <2>3. v \in onNode \/ (c.op = "stage" /\ v = c.vol)
    BY <2>1 DEF AskNode
  <2> QED
    BY <2>2, <2>3 DEF GatewaySide
<1>2. CASE ~\E t \in NodeThreads, c \in NodeCalls : AskNode(t, c)
  <2>1. v \in onNode
    BY <1>2 DEF Next, vars, kubelet, AskController, ControllerStep, ControllerAnswer,
                ControllerCrash, GatewayStep, NodeStep, NodeAnswer, NodeAnswerUnheard,
                NodeEvent, NodeReboot
  <2> QED
    BY <2>1 DEF GatewaySide
<1> QED
  BY <1>1, <1>2

LEMMA NextGatewaySide ==
  ASSUME GatewaySide, ~ReuseNsids, [Next]_vars
  PROVE  GatewaySide'
<1>1. /\ C!IInv' /\ \A t \in Threads : C!Looked(t)'
      /\ retired \subseteq retired'
      /\ \A ns \in namespaces : ns \in namespaces' \/ ns.image \in retired'
  BY ControllerKeeps DEF GatewaySide
<1>2. /\ context' \in [Names -> Uuids \cup {None}]
      /\ \A v \in Names : context'[v] # None => Leads(context[v], v)'
      /\ \A v \in Names : context[v] # None => context'[v] # None
  <2>1. CASE \E t \in Threads : ControllerAnswer(t)
    BY <2>1, AnswerContext
  <2>2. CASE ~\E t \in Threads : ControllerAnswer(t)
    <3>1. context' = context
      BY <2>2 DEF Next, vars, kubelet, AskController, ControllerStep, ControllerCrash,
                  GatewayStep, AskNode, NodeStep, NodeAnswer, NodeAnswerUnheard,
                  NodeEvent, NodeReboot
    <3>2. ASSUME NEW v \in Names, context'[v] # None PROVE Leads(context[v], v)'
      BY <1>1, <3>1, <3>2 DEF GatewaySide, Leads
    <3> QED
      BY <3>1, <3>2 DEF GatewaySide
  <2> QED
    BY <2>1, <2>2
<1>3. \A v \in onNode' : v \in Names /\ context'[v] # None
  BY <1>2, ContextOnNode
<1> QED
  BY <1>1, <1>2, <1>3 DEF GatewaySide

-----------------------------------------------------------------------------
(* The devices on the node.                                                *)

LEMMA InitDeviceSide == Init => DeviceSide
<1> SUFFICES ASSUME Init PROVE DeviceSide
  OBVIOUS
<1>1. /\ asked = [t \in NodeThreads |-> None] /\ disk = [p \in Paths |-> None]
      /\ \A t \in NodeThreads : npc[t] = "idle"
      /\ \A p \in Paths : mounts[p] = <<>>
  BY DEF Init, N!Init, Paths
<1> QED
  BY <1>1 DEF DeviceSide, N!Mounted

\* A uuid that leads to a volume leads there after the step.
LEMMA LeadsOn ==
  ASSUME ~ReuseNsids, GatewaySide, [Next]_vars, NEW u, NEW v, Leads(u, v)
  PROVE  Leads(u, v)'
<1>1. /\ retired \subseteq retired'
      /\ \A ns \in namespaces : ns \in namespaces' \/ ns.image \in retired'
  BY ControllerKeeps DEF GatewaySide
<1> QED
  BY <1>1 DEF Leads

\* Steps that start no request and mount nothing.
LEMMA DeviceSideFrame ==
  ASSUME DeviceSide, UNCHANGED devices,
         \A u, v : Leads(u, v) => Leads(u, v)',
         \A t \in NodeThreads : npc'[t] # "idle" => npc[t] # "idle" /\ ncall'[t] = ncall[t],
         \A p \in Paths : mounts'[p] # <<>> => mounts[p] # <<>>
  PROVE  DeviceSide'
<1>1. asked' = asked /\ disk' = disk
  BY DEF devices
<1>2. ASSUME NEW t \in NodeThreads, npc'[t] # "idle", ncall'[t].op = "stage"
      PROVE  asked'[t] # None /\ Leads(asked[t], ncall[t].vol)'
  BY <1>1, <1>2 DEF DeviceSide
<1>3. ASSUME NEW p \in Paths, mounts'[p] # <<>>
      PROVE  disk'[p] # None /\ Leads(disk[p], p[1])'
  BY <1>1, <1>3 DEF DeviceSide, N!Mounted
<1> QED
  BY <1>1, <1>2, <1>3 DEF DeviceSide, N!Mounted, Paths

\* The stage request carries the uuid of the volume's publish context.
LEMMA AskNodeDevices ==
  ASSUME NodeSide, GatewaySide, DeviceSide, \A u, v : Leads(u, v) => Leads(u, v)',
         NEW t \in NodeThreads, NEW c \in NodeCalls, AskNode(t, c)
  PROVE  DeviceSide'
<1>1. /\ c \in N!Calls /\ InOrder(c) /\ ncall' = [ncall EXCEPT ![t] = c]
      /\ \E l \in {"validate", "lock"} : npc' = [npc EXCEPT ![t] = l]
      /\ asked' = [asked EXCEPT ![t] = IF c.op = "stage" THEN context[c.vol] ELSE None]
      /\ mounts' = mounts /\ disk' = disk
  BY DEF NodeCalls, AskNode, N!Arrive, N!Goto, N!node
<1>2. c.vol \in Names
  BY <1>1, CallFacts
<1>3. c.op = "stage" => context[c.vol] # None /\ Leads(context[c.vol], c.vol)
  BY <1>1, <1>2 DEF InOrder, GatewaySide
<1>4. asked' \in [NodeThreads -> Uuids \cup {None}]
  BY <1>1, <1>2 DEF GatewaySide, DeviceSide
<1>5. /\ ncall \in [NodeThreads -> N!Calls \cup {None}]
      /\ npc \in [NodeThreads -> N!PcValues]
      /\ asked \in [NodeThreads -> Uuids \cup {None}]
  BY DEF NodeSide, N!IInv, N!TypeOK, DeviceSide
<1>6. ASSUME NEW s \in NodeThreads, npc'[s] # "idle", ncall'[s].op = "stage"
      PROVE  asked'[s] # None /\ Leads(asked[s], ncall[s].vol)'
  <2>1. CASE s = t
    <3>1. ncall'[s] = c /\ c.op = "stage" /\ asked'[s] = context[c.vol]
      BY <1>1, <1>5, <1>6, <2>1
    <3> QED
      BY <1>3, <3>1
  <2>2. CASE s # t
    <3>1. npc[s] # "idle" /\ ncall'[s] = ncall[s] /\ asked'[s] = asked[s]
      BY <1>1, <1>5, <1>6, <2>2
    <3> QED
      BY <1>6, <3>1 DEF DeviceSide
  <2> QED
    BY <2>1, <2>2
<1>7. ASSUME NEW p \in Paths, mounts'[p] # <<>>
      PROVE  disk'[p] # None /\ Leads(disk[p], p[1])'
  BY <1>1, <1>7 DEF DeviceSide, N!Mounted
<1> QED
  BY <1>1, <1>4, <1>6, <1>7 DEF DeviceSide, N!Mounted, Paths

\* NodeStageVolume mounts the device it was asked for, NodePublishVolume that
\* of the staging path, where something is mounted as the volume is staged.
LEMMA NodeStepDevices ==
  ASSUME NodeSide, DeviceSide, \A u, v : Leads(u, v) => Leads(u, v)',
         NEW t \in NodeThreads, NodeStep(t)
  PROVE  DeviceSide'
<1> DEFINE c == ncall[t]
           p == <<c.vol, c.at>>
<1>1. NP!LockVolume(t) \/ (NP!Step(t) /\ ~NP!Return(t))
  BY SameNode DEF NodeStep
<1>2. NP!IInv
  BY SameNode DEF NodeSide
<1>3. /\ npc[t] # "idle"
      /\ \A s \in NodeThreads \ {t} : npc'[s] = npc[s] /\ ncall'[s] = ncall[s]
      /\ npc'[t] = "idle" \/ ncall'[t] = ncall[t]
  BY <1>1, <1>2, NP!HandlerKeepsCall, SystemConstants
<1>4. NP!MountsFollow(t)
  BY <1>1, <1>2, NP!HandlerMounts, SystemConstants
<1>5. /\ \A q \in Paths : q # p => (mounts'[q] = <<>> <=> mounts[q] = <<>>)
      /\ mounts'[p] # <<>> =>
            mounts[p] # <<>> \/ (npc[t] = "mount" /\ c.op \in {"stage", "publish"})
  BY <1>4 DEF NP!MountsFollow, NP!Paths, NP!Path, NP!Op, Paths, N!Paths
<1>6. c \in N!Calls
  BY <1>3, ServedCall DEF NodeSide
<1>7. c.vol \in Names /\ p \in Paths /\ <<c.vol, Stage>> \in Paths
      /\ p[1] = c.vol /\ <<c.vol, Stage>>[1] = c.vol
  BY <1>6, CallFacts, PathFacts
<1>8. npc[t] = "mount" => c.op \in {"stage", "publish"}
  BY DEF NodeSide, N!IInv, N!Knows, N!Op
<1>9. /\ asked' = asked
      /\ \/ disk' = disk /\ (npc[t] # "mount" \/ mounts' = mounts)
         \/ npc[t] = "mount" /\ disk' = [disk EXCEPT ![p] = Bound(t)]
  BY DEF NodeStep
<1>10. npc[t] = "mount" => Bound(t) \in Uuids /\ Leads(Bound(t), c.vol)
  <2>1. CASE npc[t] = "mount" /\ c.op = "stage"
    BY <1>3, <2>1 DEF DeviceSide, Bound
  <2>2. CASE npc[t] = "mount" /\ c.op = "publish"
    <3>1. c.vol \in ready
      BY <1>3, <2>2 DEF NodeSide, Serving
    <3>2. N!Mounted(<<c.vol, Stage>>)
      BY <3>1 DEF NodeSide, MountsKnown
    <3> QED
      BY <1>7, <2>2, <3>2 DEF DeviceSide, Bound
  <2> QED
    BY <1>8, <2>1, <2>2
<1>11. \A u \in Uuids : u # None
  BY SystemConstants DEF Uuids, C!Nsids
<1> HIDE DEF c, p
<1>12. disk' \in [Paths -> Uuids \cup {None}]
  BY <1>7, <1>9, <1>10 DEF DeviceSide
<1>13. ASSUME NEW s \in NodeThreads, npc'[s] # "idle", ncall'[s].op = "stage"
       PROVE  asked'[s] # None /\ Leads(asked[s], ncall[s].vol)'
  <2>1. npc[s] # "idle" /\ ncall'[s] = ncall[s]
    BY <1>3, <1>13
  <2> QED
    BY <1>9, <1>13, <2>1 DEF DeviceSide
<1>14. ASSUME NEW q \in Paths, mounts'[q] # <<>>
       PROVE  disk'[q] # None /\ Leads(disk[q], q[1])'
  <2>1. CASE q = p /\ npc[t] = "mount" /\ disk' = [disk EXCEPT ![p] = Bound(t)]
    <3>1. disk'[q] = Bound(t) /\ q[1] = c.vol
      BY <1>7, <2>1 DEF DeviceSide
    <3> QED
      BY <1>10, <1>11, <2>1, <3>1
  <2>2. CASE ~(q = p /\ npc[t] = "mount" /\ disk' = [disk EXCEPT ![p] = Bound(t)])
    <3>1. disk'[q] = disk[q]
      BY <1>9, <2>2 DEF DeviceSide
    <3>2. mounts[q] # <<>>
      BY <1>5, <1>9, <1>14, <2>2
    <3> QED
      BY <3>1, <3>2 DEF DeviceSide, N!Mounted
  <2> QED
    BY <2>1, <2>2
<1> QED
  BY <1>9, <1>12, <1>13, <1>14 DEF DeviceSide, N!Mounted, Paths

LEMMA NextDeviceSide ==
  ASSUME ~ReuseNsids, NodeSide, GatewaySide, DeviceSide, [Next]_vars
  PROVE  DeviceSide'
<1>1. \A u, v : Leads(u, v) => Leads(u, v)'
  BY LeadsOn
<1>2. CASE \E t \in NodeThreads, c \in NodeCalls : AskNode(t, c)
  BY <1>1, <1>2, AskNodeDevices
<1>3. CASE \E t \in NodeThreads : NodeStep(t)
  BY <1>1, <1>3, NodeStepDevices
<1>4. CASE \E t \in NodeThreads : NodeAnswer(t) \/ NodeAnswerUnheard(t)
  <2>1. PICK t \in NodeThreads : N!Return(t) /\ UNCHANGED devices
    BY <1>4 DEF NodeAnswer, NodeAnswerUnheard
  <2>2. /\ npc' = [npc EXCEPT ![t] = "idle"] /\ ncall' = [ncall EXCEPT ![t] = None]
        /\ mounts' = mounts
    BY <2>1 DEF N!Return, N!Goto, N!node
  <2>3. npc \in [NodeThreads -> N!PcValues]
    BY DEF NodeSide, N!IInv, N!TypeOK
  <2>4. \A s \in NodeThreads : npc'[s] # "idle" => npc[s] # "idle" /\ ncall'[s] = ncall[s]
    BY <2>2, <2>3
  <2> QED
    BY <1>1, <2>1, <2>2, <2>4, DeviceSideFrame
<1>5. CASE NodeEvent \/ NodeReboot
  <2>1. UNCHANGED devices
    BY <1>5 DEF NodeEvent, NodeReboot
  <2>2. \A s \in NodeThreads : npc'[s] # "idle" => npc[s] # "idle" /\ ncall'[s] = ncall[s]
    BY <1>5 DEF NodeEvent, NodeReboot, N!Crash, N!Reboot, N!NewNodeServer,
                N!ConnectionLoss, N!MakeStagingDir
  <2>3. \A p \in Paths : mounts'[p] # <<>> => mounts[p] # <<>>
    <3>1. CASE N!Reboot
      BY <3>1 DEF N!Reboot, Paths
    <3>2. CASE \E n \in Nqns : N!ConnectionLoss(n)
      BY <3>2, DeadKeeps DEF NodeSide, N!ConnectionLoss
    <3>3. CASE mounts' = mounts
      BY <3>3
    <3> QED
      BY <1>5, <3>1, <3>2, <3>3 DEF NodeEvent, NodeReboot, N!Crash, N!MakeStagingDir, N!node
  <2> QED
    BY <1>1, <2>1, <2>2, <2>3, DeviceSideFrame
<1>6. CASE GatewayStep
  <2>1. DevicesFollow /\ UNCHANGED <<npc, ncall>> /\ UNCHANGED devices
    BY <1>6 DEF GatewayStep
  <2>2. mounts \in [Paths -> Seq(N!Content)]
    BY DEF NodeSide, N!IInv, N!TypeOK, Paths
  <2> QED
    BY <1>1, <2>1, <2>2, DevicesFollowFacts, DeviceSideFrame
<1>7. CASE UNCHANGED <<node, devices>>
  <2>1. UNCHANGED <<npc, ncall, mounts>> /\ UNCHANGED devices
    BY <1>7 DEF node
  <2> QED
    BY <1>1, <2>1, DeviceSideFrame
<1> QED
  BY <1>2, <1>3, <1>4, <1>5, <1>6, <1>7
     DEF Next, vars, AskController, ControllerStep, ControllerAnswer, ControllerCrash

-----------------------------------------------------------------------------
(* The theorems.                                                           *)

\* Inside the driver, with the CO's order of requests and a node that comes
\* and goes, the controller service and its gateway are those of
\* ControllerServer: what is proved there holds here.
THEOREM ControllerInside == Spec => C!Spec
<1>1. Init => C!Init
  BY DEF Init
<1>2. [Next]_vars => [C!Next]_(C!vars)
  BY ControllerMoves
<1> QED
  BY <1>1, <1>2, PTL DEF Spec, C!Spec

\* The node service keeps its promises although the gateway may take its
\* devices away between any two steps, and whether or not the CO waits for
\* answers: a volume is staged once, an OK is true, an unpublished target is
\* gone, a mount point is there when it is used.
THEOREM NodeServiceInside ==
  Spec => [](N!StagedOnce /\ N!RepliesTrue /\ N!UnpublishedIsGone /\ N!MountPointReady)
<1>1. Init => N!IInv
  BY InitNodeSide DEF NodeSide
<1>2. N!IInv /\ [Next]_vars => N!IInv'
  BY NodeIInv
<1>3. N!IInv => N!StagedOnce /\ N!RepliesTrue /\ N!UnpublishedIsGone /\ N!MountPointReady
  BY DEF N!IInv, N!Knows, N!RepliesTrue, N!UnpublishedIsGone, N!MountPointReady
<1> QED
  BY <1>1, <1>2, <1>3, PTL DEF Spec

\* A publish context leads to a namespace of its own volume until the CO asks
\* to delete the volume, also if the CO gives up on answers of the node.
THEOREM ContextsAreKept ==
  ASSUME ~ReuseNsids
  PROVE  Spec => []GatewaySide
<1>1. Init => GatewaySide
  BY InitGatewaySide
<1>2. GatewaySide /\ [Next]_vars => GatewaySide'
  BY NextGatewaySide
<1> QED
  BY <1>1, <1>2, PTL DEF Spec

\* What is mounted on the node and what the CO believes agree, as long as the
\* CO waits for the node's answer: in front of any gateway, also one that
\* gives NSIDs out again.
THEOREM BeliefsAreTrue ==
  ASSUME ~GivesUp
  PROVE  Spec => []NodeSide
<1>1. Init => NodeSide
  BY InitNodeSide
<1>2. NodeSide /\ [Next]_vars => NodeSide'
  BY NextNodeSide
<1> QED
  BY <1>1, <1>2, PTL DEF Spec

\* The invariant of the whole driver.
THEOREM Invariance ==
  ASSUME ~ReuseNsids, ~GivesUp
  PROVE  Spec => []IInv
<1>1. Init => DeviceSide
  BY InitDeviceSide
<1>2. NodeSide /\ GatewaySide /\ DeviceSide /\ [Next]_vars => DeviceSide'
  BY NextDeviceSide
<1> QED
  BY <1>1, <1>2, ContextsAreKept, BeliefsAreTrue, PTL DEF IInv, Spec

\* The driver, its gateway and the CO keep their types.
THEOREM TypeCorrect ==
  ASSUME ~ReuseNsids, ~GivesUp
  PROVE  Spec => []TypeOK
<1>1. IInv => TypeOK
  <2> SUFFICES ASSUME IInv PROVE TypeOK
    OBVIOUS
  <2>1. C!TypeOK /\ N!TypeOK
    BY DEF IInv, NodeSide, GatewaySide, C!IInv, N!IInv
  <2>2. context \in [Names -> Uuids \cup {None}]
    BY DEF IInv, GatewaySide
  <2>3. onNode \subseteq Names /\ ready \subseteq onNode /\ inPods \subseteq Names \X Pods
    BY DEF IInv, NodeSide, LifeCycle
  <2>4. /\ asked \in [NodeThreads -> Uuids \cup {None}]
        /\ disk \in [Paths -> Uuids \cup {None}]
    BY DEF IInv, DeviceSide
  <2> QED
    BY <2>1, <2>2, <2>3, <2>4 DEF TypeOK
<1> QED
  BY <1>1, Invariance, PTL

\* What is mounted has its namespace: the CO knows the volume is on the node,
\* so its deletion has not been asked for.
LEMMA MountedIsExported ==
  ASSUME IInv, NEW p \in Paths, mounts[p] # <<>>
  PROVE  \E ns \in namespaces : ns.uuid = disk[p] /\ ns.image = p[1]
<1>1. p[1] \notin retired
  BY DEF IInv, NodeSide, LifeCycle, MountsKnown, N!Mounted
<1>2. Leads(disk[p], p[1])
  BY DEF IInv, DeviceSide, N!Mounted
<1> QED
  BY <1>1, <1>2 DEF Leads

\* A live mount of NodeStageVolume or NodePublishVolume shows the namespace of
\* the volume's own image, found by ControllerPublishVolume by image name
\* without a lock, across lost answers, late requests, repetitions and
\* restarts of both services.
THEOREM MountsShowOwnDevice ==
  ASSUME ~ReuseNsids, ~GivesUp
  PROVE  Spec => []OwnDevice
<1>1. IInv => OwnDevice
  <2> SUFFICES ASSUME IInv, NEW p \in Paths, Shows(p, "live")
               PROVE  \E ns \in namespaces : ns.uuid = disk[p] /\ ns.image = p[1]
    BY DEF OwnDevice
  <2>1. mounts[p] # <<>>
    BY DEF Shows
  <2> QED
    BY <2>1, MountedIsExported
<1> QED
  BY <1>1, Invariance, PTL

\* No delete, late or repeated, reaches the namespace of a staged volume.
THEOREM StagedVolumesAreExported ==
  ASSUME ~ReuseNsids, ~GivesUp
  PROVE  Spec => []ReadyIsExported
<1>1. IInv => ReadyIsExported
  <2> SUFFICES ASSUME IInv, NEW v \in ready
               PROVE  \E ns \in namespaces : ns.uuid = disk[<<v, Stage>>] /\ ns.image = v
    BY DEF ReadyIsExported
  <2>1. v \in Names /\ mounts[<<v, Stage>>] # <<>>
    BY DEF IInv, NodeSide, LifeCycle, MountsKnown, N!Mounted
  <2>2. <<v, Stage>> \in Paths /\ <<v, Stage>>[1] = v
    BY <2>1, PathFacts
  <2> QED
    BY <2>1, <2>2, MountedIsExported
<1> QED
  BY <1>1, Invariance, PTL

\* NodePublishVolume, which does not look whether the volume is staged, never
\* binds the empty mount point file into a pod, before or after a reboot.
THEOREM PodsSeeNoFile ==
  ASSUME ~GivesUp
  PROVE  Spec => []PodsGetDevices
<1>1. NodeSide => PodsGetDevices
  BY PathFacts DEF NodeSide, PodsGetDevices
<1> QED
  BY <1>1, BeliefsAreTrue, PTL

\* The CO asks to delete volumes only.
LEMMA RetiredAreVolumes ==
  ASSUME retired \subseteq Names, [Next]_vars
  PROVE  retired' \subseteq Names
<1>1. CASE \E t \in Threads, c \in ControllerCalls : AskController(t, c)
  <2>1. PICK t \in Threads, c \in ControllerCalls : C!Arrive(t, c)
    BY <1>1 DEF AskController
  <2>2. c.op = "delete" => C!Name(c) \in Names
    BY DEF ControllerCalls, C!Calls, C!VolumeIds, C!Name, C!decodeVolumeID
  <2> QED
    BY <2>1, <2>2 DEF C!Arrive
<1>2. CASE ~\E t \in Threads, c \in ControllerCalls : AskController(t, c)
  BY <1>2 DEF Next, vars, controller, ControllerStep, ControllerAnswer, ControllerCrash,
              GatewayStep, AskNode, NodeStep, NodeAnswer, NodeAnswerUnheard, NodeEvent,
              NodeReboot, C!Crash, C!DecodeId, C!LockAndCall, C!Receive, C!ReceiveAdd,
              C!ReceiveDelete, C!ReceiveList, C!Consumed, C!Timeout, C!Return,
              C!ReturnUnheard, C!Finish, C!Serve, C!ServeLate, C!ServeError, C!co
<1> QED
  BY <1>1, <1>2

\* Nothing of a volume is mounted on the node once its deletion is asked for,
\* although DeleteVolume knows nothing of the nodes.
THEOREM DeletedVolumesAreUnmounted ==
  ASSUME ~GivesUp
  PROVE  Spec => []DeletedIsUnmounted
<1>1. ASSUME NodeSide, retired \subseteq Names PROVE DeletedIsUnmounted
  <2> SUFFICES ASSUME NEW v \in retired, NEW a \in Pods \cup {Stage}
               PROVE  mounts[<<v, a>>] = <<>>
    BY DEF DeletedIsUnmounted
  <2>1. <<v, a>> \in Paths /\ <<v, a>>[1] = v
    BY <1>1, PathFacts
  <2> QED
    BY <1>1, <2>1 DEF NodeSide, MountsKnown, N!Mounted, LifeCycle
<1>2. Init => retired \subseteq Names
  BY DEF Init, C!Init
<1>3. retired \subseteq Names /\ [Next]_vars => (retired \subseteq Names)'
  BY RetiredAreVolumes
<1> QED
  BY <1>1, <1>2, <1>3, BeliefsAreTrue, PTL DEF Spec
=============================================================================
