--------------------------- MODULE NodeServerProofs ---------------------------
(***************************************************************************)
(* The node service for any set of volumes, pods, goroutines, subsystems   *)
(* and faults.  The invariant IInv says what a handler that holds a        *)
(* volume's lock knows of that volume's paths; the lock is what makes this *)
(* knowledge stable under the steps of all other handlers.                 *)
(***************************************************************************)
EXTENDS NodeServer, SequenceTheorems, TLAPS

-----------------------------------------------------------------------------
(* Requests, paths and mount stacks.                                       *)

LEMMA CallFacts ==
  ASSUME NEW c \in Calls
  PROVE  /\ c.vol \in Volumes
         /\ c.op \in {"stage", "unstage", "publish", "unpublish"}
         /\ <<c.vol, c.at>> \in Paths
         /\ c.op \in {"stage", "unstage"} => c.at = Stage
         /\ c.op \in {"publish", "unpublish"} => c.at \in Pods /\ c.at # Stage
BY NodeConstants DEF Calls, Paths

LEMMA PathFacts ==
  /\ \A p \in Paths : p[1] \in Volumes /\ Parent(p) \in Dirs /\ Parent(p)[1] = p[1]
  /\ \A v \in Volumes : StagePath(v) \in Paths /\ StagePath(v)[1] = v
BY DEF Paths, Parent, Dirs, StagePath

LEMMA PushFacts ==
  ASSUME NEW c \in Content, NEW s \in Seq(Content)
  PROVE  /\ <<c>> \o s \in Seq(Content)
         /\ Len(<<c>> \o s) = Len(s) + 1
         /\ <<c>> \o s # <<>>
         /\ s = <<>> => Len(<<c>> \o s) = 1
<1>1. <<c>> \in Seq(Content) /\ Len(<<c>>) = 1
  OBVIOUS
<1>2. /\ <<c>> \o s \in Seq(Content)
      /\ Len(<<c>> \o s) = Len(<<c>>) + Len(s)
  BY <1>1, ConcatProperties
<1>3. Len(s) \in Nat /\ (s = <<>> => Len(s) = 0)
  BY LenProperties, EmptySeq
<1>4. Len(<<c>> \o s) # 0
  BY <1>1, <1>2, <1>3
<1> QED
  BY <1>1, <1>2, <1>3, <1>4, EmptySeq

LEMMA PopFacts ==
  ASSUME NEW s \in Seq(Content), s # <<>>
  PROVE  /\ Tail(s) \in Seq(Content)
         /\ Len(Tail(s)) = Len(s) - 1
         /\ Len(s) <= 1 => Tail(s) = <<>>
<1>1. Tail(s) \in Seq(Content) /\ Len(Tail(s)) = Len(s) - 1 /\ Len(s) \in Nat \ {0}
  BY HeadTailProperties, EmptySeq
<1> QED
  BY <1>1, EmptySeq

\* Disconnecting a subsystem changes what mounts show, not how many there are.
LEMMA DeadFacts ==
  ASSUME NEW m \in [Paths -> Seq(Content)], NEW n
  PROVE  /\ Dead(m, n) \in [Paths -> Seq(Content)]
         /\ \A p \in Paths : /\ Len(Dead(m, n)[p]) = Len(m[p])
                             /\ Dead(m, n)[p] = <<>> <=> m[p] = <<>>
<1>1. ASSUME NEW p \in Paths
      PROVE  /\ Dead(m, n)[p] \in Seq(Content)
             /\ Len(Dead(m, n)[p]) = Len(m[p])
             /\ Dead(m, n)[p] = <<>> <=> m[p] = <<>>
  <2> DEFINE d == [i \in DOMAIN m[p] |->
                     IF NqnOf[p[1]] = n /\ m[p][i] = "live" THEN "dead" ELSE m[p][i]]
  <2>1. m[p] \in Seq(Content) /\ Dead(m, n)[p] = d
    BY DEF Dead
  <2>2. /\ Len(m[p]) \in Nat
        /\ m[p] \in [1..Len(m[p]) -> Content]
        /\ DOMAIN m[p] = 1..Len(m[p])
    BY <2>1, LenProperties
  <2>3. d \in [1..Len(m[p]) -> Content]
    BY <2>2 DEF Content
  <2>4. d \in Seq(Content)
    BY <2>2, <2>3, SeqDef
  <2>5. Len(d) = Len(m[p])
    BY <2>2, <2>3, <2>4, LenProperties
  <2> HIDE DEF d
  <2>6. d = <<>> <=> m[p] = <<>>
    BY <2>1, <2>4, <2>5, EmptySeq
  <2> QED
    BY <2>1, <2>4, <2>5, <2>6
<1> QED
  BY <1>1 DEF Dead

-----------------------------------------------------------------------------
LEMMA InitIInv == Init => IInv
BY NodeConstants, EmptySeq, PathFacts
   DEF Init, Locks!Init, IInv, TypeOK, PcValues, InLock, LockHeld, Knows, StagedOnce,
       DirsKept, MountPointsKept, Mounted

\* What goroutine s knows does not change when its own state and the paths
\* of its volume do not.
LEMMA Frame ==
  ASSUME NEW s \in Threads, Knows(s), pc[s] \in PcValues,
         pc'[s] = pc[s], call'[s] = call[s],
         pc[s] \in InLock =>
            /\ mounts'[Path(s)] = <<>> <=> mounts[Path(s)] = <<>>
            /\ Path(s) \in files' <=> Path(s) \in files
            /\ Parent(Path(s)) \in dirs => Parent(Path(s)) \in dirs'
  PROVE  Knows(s)'
BY DEF Knows, InLock, PcValues, Op, Path, Mounted, Parent

\* Handlers that hold a lock work on different volumes.
LEMMA OthersElsewhere ==
  ASSUME IInv, NEW s \in Threads, NEW t \in Threads, s # t,
         pc[s] \in InLock, pc[t] \in InLock
  PROVE  /\ call[s] \in Calls
         /\ Path(s) \in Paths
         /\ Path(s)[1] # Vol(t)
<1>1. call[s] \in Calls /\ lock[Vol(s)] = s /\ lock[Vol(t)] = t
  BY DEF IInv, LockHeld, Knows, InLock
<1> QED
  BY <1>1, CallFacts DEF Path, Vol

\* The state of volume v's own paths is as IInv wants it.
Tidy(v, m, f, d) ==
    /\ Len(m[StagePath(v)]) <= 1
    /\ \A p \in Paths : p[1] = v => /\ p \in f => Parent(p) \in d
                                    /\ m[p] # <<>> => p \in f

\* Nothing changes for volumes other than v but what their mounts show.
Elsewhere(v) ==
    \A p \in Paths : p[1] # v =>
        /\ Len(mounts'[p]) = Len(mounts[p])
        /\ mounts'[p] = <<>> <=> mounts[p] = <<>>
        /\ p \in files' <=> p \in files
        /\ Parent(p) \in dirs => Parent(p) \in dirs'

LEMMA TidyNow ==
  ASSUME IInv, NEW v \in Volumes
  PROVE  Tidy(v, mounts, files, dirs)
BY DEF IInv, StagedOnce, DirsKept, MountPointsKept, Mounted, Tidy

\* A step inside a critical section: it is enough to look at the handler
\* that makes it and at the paths of its volume.
LEMMA InsideStep ==
  ASSUME IInv, NEW t \in Threads, NEW l \in InLock, pc[t] \in InLock,
         Goto(t, l), UNCHANGED <<call, lock>>,
         mounts' \in [Paths -> Seq(Content)],
         files' \subseteq Paths, dirs' \subseteq Dirs, connected' \subseteq Nqns,
         Elsewhere(Vol(t)),
         Tidy(Vol(t), mounts', files', dirs'),
         Knows(t)'
  PROVE  IInv'
<1>1. TypeOK'
  BY DEF IInv, TypeOK, Goto, InLock
<1>2. LockHeld'
  BY DEF IInv, TypeOK, LockHeld, Goto, Vol
<1>3. ASSUME NEW s \in Threads PROVE Knows(s)'
  <2>1. CASE s = t
    BY <2>1
  <2>2. CASE s # t
    <3>1. pc'[s] = pc[s] /\ call'[s] = call[s] /\ pc[s] \in PcValues /\ Knows(s)
      BY <2>2 DEF IInv, TypeOK, Goto
    <3>2. pc[s] \in InLock =>
             /\ mounts'[Path(s)] = <<>> <=> mounts[Path(s)] = <<>>
             /\ Path(s) \in files' <=> Path(s) \in files
             /\ Parent(Path(s)) \in dirs => Parent(Path(s)) \in dirs'
      BY <2>2, OthersElsewhere DEF Elsewhere
    <3> QED
      BY <3>1, <3>2, Frame
  <2> QED
    BY <2>1, <2>2
<1>4. StagedOnce'
  BY PathFacts DEF IInv, StagedOnce, Elsewhere, Tidy
<1>5. DirsKept' /\ MountPointsKept'
  <2> SUFFICES ASSUME NEW p \in Paths
               PROVE  /\ p \in files' => Parent(p) \in dirs'
                      /\ mounts'[p] # <<>> => p \in files'
    BY DEF DirsKept, MountPointsKept, Mounted
  <2>1. CASE p[1] = Vol(t)
    BY <2>1 DEF Tidy
  <2>2. CASE p[1] # Vol(t)
    BY <2>2 DEF IInv, DirsKept, MountPointsKept, Mounted, Elsewhere
  <2> QED
    BY <2>1, <2>2
<1> QED
  BY <1>1, <1>2, <1>3, <1>4, <1>5 DEF IInv

\* A step that leaves the node alone and stays inside the critical section.
LEMMA ReadStep ==
  ASSUME IInv, NEW t \in Threads, NEW l \in InLock, pc[t] \in InLock,
         Goto(t, l), UNCHANGED <<call, lock, mounts, files, dirs>>,
         connected' \subseteq Nqns, Knows(t)'
  PROVE  IInv'
<1>1. Vol(t) \in Volumes
  BY CallFacts DEF IInv, Knows, InLock, Vol
<1>2. Tidy(Vol(t), mounts', files', dirs')
  BY <1>1, TidyNow
<1>3. Elsewhere(Vol(t))
  BY DEF Elsewhere
<1> QED
  BY <1>2, <1>3, InsideStep DEF IInv, TypeOK

-----------------------------------------------------------------------------
(* One lemma per action.                                                   *)

LEMMA ArriveIInv ==
  ASSUME IInv, NEW t \in Threads, NEW c \in Calls, Arrive(t, c)
  PROVE  IInv'
<1>1. TypeOK' /\ LockHeld'
  <2>1. /\ pc[t] = "idle"
        /\ \E l \in {"lock", "validate"} : pc' = [pc EXCEPT ![t] = l]
        /\ call' = [call EXCEPT ![t] = c]
        /\ UNCHANGED <<lock, mounts, files, dirs, connected>>
    BY DEF Arrive, Goto, node
  <2>2. TypeOK'
    BY <2>1 DEF IInv, TypeOK, PcValues
  <2>3. LockHeld'
    BY <2>1, NodeConstants DEF IInv, TypeOK, LockHeld, InLock, Vol
  <2> QED
    BY <2>2, <2>3
<1>2. ASSUME NEW s \in Threads PROVE Knows(s)'
  <2>1. CASE s = t
    BY <2>1 DEF IInv, TypeOK, Knows, Arrive, Goto
  <2>2. CASE s # t
    BY <2>2, Frame DEF IInv, TypeOK, Arrive, Goto, node
  <2> QED
    BY <2>1, <2>2
<1>3. StagedOnce' /\ DirsKept' /\ MountPointsKept'
  BY DEF IInv, StagedOnce, DirsKept, MountPointsKept, Mounted, Arrive, node
<1> QED
  BY <1>1, <1>2, <1>3 DEF IInv

LEMMA ValidateIInv ==
  ASSUME IInv, NEW t \in Threads, Validate(t)
  PROVE  IInv'
<1>1. TypeOK' /\ LockHeld'
  <2>1. /\ pc[t] = "validate"
        /\ \E l \in {"lock", "idle"} : pc' = [pc EXCEPT ![t] = l]
        /\ call' = call \/ call' = [call EXCEPT ![t] = NoCall]
        /\ UNCHANGED <<lock, mounts, files, dirs, connected>>
    BY DEF Validate, Goto, node
  <2>2. TypeOK'
    BY <2>1 DEF IInv, TypeOK, PcValues
  <2>3. LockHeld'
    BY <2>1, NodeConstants DEF IInv, TypeOK, LockHeld, InLock, Vol
  <2> QED
    BY <2>2, <2>3
<1>2. ASSUME NEW s \in Threads PROVE Knows(s)'
  <2>1. CASE s = t
    BY <2>1 DEF IInv, TypeOK, Knows, Validate, Goto
  <2>2. CASE s # t
    BY <2>2, Frame DEF IInv, TypeOK, Validate, Goto, node
  <2> QED
    BY <2>1, <2>2
<1>3. StagedOnce' /\ DirsKept' /\ MountPointsKept'
  BY DEF IInv, StagedOnce, DirsKept, MountPointsKept, Mounted, Validate, node
<1> QED
  BY <1>1, <1>2, <1>3 DEF IInv

LEMMA LockVolumeIInv ==
  ASSUME IInv, NEW t \in Threads, LockVolume(t)
  PROVE  IInv'
<1>1. /\ call[t] \in Calls /\ Vol(t) \in Volumes
      /\ Op(t) \in {"stage", "unstage", "publish", "unpublish"}
      /\ lock[Vol(t)] = Free /\ lock' = [lock EXCEPT ![Vol(t)] = t]
      /\ pc[t] = "lock" /\ pc' = [pc EXCEPT ![t] = Begin(call[t])]
      /\ UNCHANGED <<call, mounts, files, dirs, connected>>
  BY CallFacts DEF IInv, Knows, LockVolume, Locks!Acquire, Goto, node, Vol, Op
<1>2. /\ Begin(call[t]) \in {"check", "delete", "create", "err"}
      /\ Begin(call[t]) = "check" => Op(t) \in {"stage", "unstage"}
      /\ Begin(call[t]) = "delete" => Op(t) = "unpublish"
      /\ Begin(call[t]) = "create" => Op(t) = "publish"
  BY <1>1 DEF Begin, Op
<1>3. TypeOK'
  BY <1>1, <1>2 DEF IInv, TypeOK, PcValues
<1>4. LockHeld'
  BY <1>1, <1>2, NodeConstants DEF IInv, TypeOK, LockHeld, InLock, PcValues, Vol
<1>5. ASSUME NEW s \in Threads PROVE Knows(s)'
  <2>1. CASE s = t
    BY <1>1, <1>2, <2>1 DEF IInv, TypeOK, Knows, Op
  <2>2. CASE s # t
    BY <1>1, <2>2, Frame DEF IInv, TypeOK
  <2> QED
    BY <2>1, <2>2
<1>6. StagedOnce' /\ DirsKept' /\ MountPointsKept'
  BY <1>1 DEF IInv, StagedOnce, DirsKept, MountPointsKept, Mounted
<1> QED
  BY <1>3, <1>4, <1>5, <1>6 DEF IInv

LEMMA ReturnIInv ==
  ASSUME IInv, NEW t \in Threads, Return(t)
  PROVE  IInv'
<1>1. /\ pc[t] \in InLock /\ lock[Vol(t)] = t /\ Vol(t) \in Volumes
      /\ lock' = [lock EXCEPT ![Vol(t)] = Free]
      /\ pc' = [pc EXCEPT ![t] = "idle"]
      /\ call' = [call EXCEPT ![t] = NoCall]
      /\ UNCHANGED <<mounts, files, dirs, connected>>
  BY CallFacts
     DEF IInv, Knows, InLock, PcValues, Return, Locks!Release, Goto, node, Vol
<1>2. TypeOK'
  BY <1>1 DEF IInv, TypeOK, PcValues
<1>3. LockHeld'
  BY <1>1, NodeConstants DEF IInv, TypeOK, LockHeld, InLock, Vol
<1>4. ASSUME NEW s \in Threads PROVE Knows(s)'
  <2>1. CASE s = t
    BY <1>1, <2>1 DEF IInv, TypeOK, Knows
  <2>2. CASE s # t
    BY <1>1, <2>2, Frame DEF IInv, TypeOK
  <2> QED
    BY <2>1, <2>2
<1>5. StagedOnce' /\ DirsKept' /\ MountPointsKept'
  BY <1>1 DEF IInv, StagedOnce, DirsKept, MountPointsKept, Mounted
<1> QED
  BY <1>2, <1>3, <1>4, <1>5 DEF IInv

LEMMA IsStagedIInv ==
  ASSUME IInv, NEW t \in Threads, IsStaged(t)
  PROVE  IInv'
<1>1. /\ pc[t] = "check" /\ call[t] \in Calls /\ pc[t] \in InLock
      /\ UNCHANGED <<call, lock, mounts, files, dirs, connected>>
  BY DEF IInv, Knows, IsStaged, InLock, PcValues, node
<1>2. PICK l \in {"ok", "err", "connect", "delete"} :
         /\ Goto(t, l)
         /\ l = "ok" => (Mounted(Path(t)) <=> Op(t) = "stage")
                         /\ Op(t) \in {"stage", "unstage"}
         /\ l = "connect" => Op(t) = "stage" /\ ~Mounted(Path(t))
         /\ l = "delete" => Op(t) = "unstage"
  BY DEF IsStaged, Goto
<1>3. Knows(t)'
  BY <1>1, <1>2 DEF IInv, TypeOK, Knows, Goto, Op, Path, Mounted
<1> QED
  BY <1>1, <1>2, <1>3, ReadStep DEF IInv, TypeOK, InLock, PcValues

LEMMA ConnectIInv ==
  ASSUME IInv, NEW t \in Threads, Connect(t)
  PROVE  IInv'
<1>1. /\ pc[t] = "connect" /\ call[t] \in Calls /\ pc[t] \in InLock
      /\ Goto(t, "waitReady") /\ "waitReady" \in InLock
      /\ UNCHANGED <<call, lock, mounts, files, dirs>>
  BY DEF IInv, Knows, Connect, InLock, PcValues
<1>2. connected' \subseteq Nqns
  BY DEF Connect
<1>3. Knows(t)'
  BY <1>1 DEF IInv, TypeOK, Knows, Goto, Op, Path, Mounted
<1> QED
  BY <1>1, <1>2, <1>3, ReadStep

LEMMA WaitForDeviceReadyIInv ==
  ASSUME IInv, NEW t \in Threads, WaitForDeviceReady(t)
  PROVE  IInv'
<1>1. /\ pc[t] = "waitReady" /\ pc[t] \in InLock
      /\ UNCHANGED <<call, lock, mounts, files, dirs, connected>>
  BY DEF WaitForDeviceReady, InLock, PcValues, node
<1>2. PICK l \in {"create", "err"} : Goto(t, l)
  BY DEF WaitForDeviceReady
<1>3. Knows(t)'
  BY <1>1, <1>2 DEF IInv, TypeOK, Knows, Goto, Op, Path, Mounted
<1> QED
  BY <1>1, <1>2, <1>3, ReadStep DEF IInv, TypeOK, InLock, PcValues

LEMMA DisconnectIInv ==
  ASSUME IInv, NEW t \in Threads, Disconnect(t)
  PROVE  IInv'
<1>1. /\ pc[t] = "disconnect" /\ pc[t] \in InLock /\ "err" \in InLock
      /\ Goto(t, "err")
      /\ UNCHANGED <<call, lock, files, dirs>>
      /\ mounts \in [Paths -> Seq(Content)]
      /\ call[t] \in Calls /\ Vol(t) \in Volumes
  BY CallFacts DEF IInv, TypeOK, Knows, Disconnect, InLock, PcValues, Vol
<1>2. /\ connected' \subseteq Nqns
      /\ mounts' = mounts \/ mounts' = Dead(mounts, Nqn(t))
  BY DEF IInv, TypeOK, Disconnect
<1>3. /\ mounts' \in [Paths -> Seq(Content)]
      /\ \A p \in Paths : /\ Len(mounts'[p]) = Len(mounts[p])
                          /\ mounts'[p] = <<>> <=> mounts[p] = <<>>
  BY <1>1, <1>2, DeadFacts
<1>4. Elsewhere(Vol(t))
  BY <1>1, <1>3 DEF Elsewhere
<1>5. Tidy(Vol(t), mounts', files', dirs')
  BY <1>1, <1>3, TidyNow, PathFacts DEF Tidy
<1>6. Knows(t)'
  BY <1>1 DEF IInv, TypeOK, Knows, Goto
<1> QED
  BY <1>1, <1>2, <1>3, <1>4, <1>5, <1>6, InsideStep DEF IInv, TypeOK

\* A handler inside its critical section, and the paths of its volume.
LEMMA AtOwnPath ==
  ASSUME IInv, NEW t \in Threads, pc[t] \in InLock
  PROVE  /\ call[t] \in Calls /\ Vol(t) \in Volumes
         /\ Path(t) \in Paths /\ Path(t)[1] = Vol(t) /\ Parent(Path(t)) \in Dirs
         /\ Tidy(Vol(t), mounts, files, dirs)
<1>1. call[t] \in Calls
  BY DEF IInv, Knows, InLock
<1>2. Vol(t) \in Volumes /\ Path(t) \in Paths /\ Path(t)[1] = Vol(t)
  BY <1>1, CallFacts DEF Vol, Path
<1> QED
  BY <1>1, <1>2, PathFacts, TidyNow

LEMMA CreateMountPointIInv ==
  ASSUME IInv, NEW t \in Threads, CreateMountPoint(t)
  PROVE  IInv'
<1> DEFINE p == Path(t)
<1>1. /\ pc[t] = "create" /\ pc[t] \in InLock
      /\ UNCHANGED <<call, lock, mounts, files, connected>>
      /\ call[t] \in Calls /\ p[1] = Vol(t) /\ Parent(p) \in Dirs
      /\ Tidy(Vol(t), mounts, files, dirs)
      /\ Op(t) \in {"stage", "publish"}
      /\ Op(t) = "stage" => mounts[p] = <<>>
  BY AtOwnPath DEF IInv, Knows, CreateMountPoint, InLock, PcValues, Mounted
<1>2. PICK l \in {"ok", "mount", "open", "disconnect", "err"} :
         /\ Goto(t, l)
         /\ l = "ok" => Op(t) = "stage" /\ Mounted(p)
         /\ l = "mount" => p \in files
         /\ l = "open" => Parent(p) \in dirs'
         /\ l = "disconnect" => Op(t) = "stage"
  BY DEF CreateMountPoint, Goto, Fail
<1>3. dirs' = dirs \/ dirs' = dirs \cup {Parent(p)}
  BY DEF CreateMountPoint
<1> HIDE DEF p
<1>4. /\ mounts' \in [Paths -> Seq(Content)]
      /\ files' \subseteq Paths /\ dirs' \subseteq Dirs /\ connected' \subseteq Nqns
  BY <1>1, <1>3 DEF IInv, TypeOK
<1>5. Elsewhere(Vol(t))
  BY <1>1, <1>3 DEF Elsewhere
<1>6. Tidy(Vol(t), mounts', files', dirs')
  BY <1>1, <1>3 DEF Tidy
<1>7. Knows(t)'
  BY <1>1, <1>2 DEF IInv, TypeOK, Knows, Goto, Op, Path, Mounted, p
<1> QED
  BY <1>1, <1>2, <1>4, <1>5, <1>6, <1>7, InsideStep DEF InLock, PcValues

LEMMA OpenMountPointIInv ==
  ASSUME IInv, NEW t \in Threads, OpenMountPoint(t)
  PROVE  IInv'
<1> DEFINE p == Path(t)
<1>1. /\ pc[t] = "open" /\ pc[t] \in InLock
      /\ UNCHANGED <<call, lock, mounts, dirs, connected>>
      /\ call[t] \in Calls /\ p \in Paths /\ p[1] = Vol(t)
      /\ Tidy(Vol(t), mounts, files, dirs)
      /\ Op(t) \in {"stage", "publish"}
      /\ Op(t) = "stage" => mounts[p] = <<>>
  BY AtOwnPath DEF IInv, Knows, OpenMountPoint, InLock, PcValues, Mounted
<1>2. PICK l \in {"mount", "disconnect", "err"} :
         /\ Goto(t, l)
         /\ l = "mount" => p \in files'
         /\ l = "disconnect" => Op(t) = "stage"
  BY DEF OpenMountPoint, Goto, Fail
<1>3. files' = files \/ (files' = files \cup {p} /\ Parent(p) \in dirs)
  BY DEF OpenMountPoint
<1> HIDE DEF p
<1>4. /\ mounts' \in [Paths -> Seq(Content)]
      /\ files' \subseteq Paths /\ dirs' \subseteq Dirs /\ connected' \subseteq Nqns
  BY <1>1, <1>3 DEF IInv, TypeOK
<1>5. Elsewhere(Vol(t))
  BY <1>1, <1>3 DEF Elsewhere
<1>6. Tidy(Vol(t), mounts', files', dirs')
  BY <1>1, <1>3 DEF Tidy
<1>7. Knows(t)'
  BY <1>1, <1>2 DEF IInv, TypeOK, Knows, Goto, Op, Path, Mounted, p
<1> QED
  BY <1>1, <1>2, <1>4, <1>5, <1>6, <1>7, InsideStep DEF InLock, PcValues

LEMMA BindMountIInv ==
  ASSUME IInv, NEW t \in Threads, BindMount(t)
  PROVE  IInv'
<1> DEFINE p == Path(t)
<1>1. /\ pc[t] = "mount" /\ pc[t] \in InLock
      /\ UNCHANGED <<call, lock, files, dirs, connected>>
      /\ call[t] \in Calls /\ Vol(t) \in Volumes
      /\ p \in Paths /\ p[1] = Vol(t) /\ p \in files
      /\ Op(t) \in {"stage", "publish"}
      /\ Op(t) = "stage" => mounts[p] = <<>>
      /\ Op(t) = "publish" => p # StagePath(Vol(t))
      /\ mounts \in [Paths -> Seq(Content)]
  BY CallFacts
     DEF IInv, TypeOK, Knows, BindMount, InLock, PcValues, Vol, Op, Path, Mounted,
         StagePath
<1>2. Source(t) \subseteq Content
  <2>1. StagePath(Vol(t)) \in Paths /\ mounts[StagePath(Vol(t))] \in Seq(Content)
    BY <1>1, PathFacts
  <2>2. mounts[StagePath(Vol(t))] # <<>> => Head(mounts[StagePath(Vol(t))]) \in Content
    BY <2>1, HeadTailProperties
  <2> QED
    BY <2>2 DEF Source, Mounted, StagePath, Content
<1>3. PICK l \in {"ok", "disconnect", "err"} :
         /\ Goto(t, l)
         /\ \/ mounts' = mounts /\ l # "ok"
            \/ \E c \in Content : mounts' = [mounts EXCEPT ![p] = <<c>> \o mounts[p]]
         /\ l = "disconnect" => Op(t) = "stage"
  BY <1>2 DEF BindMount, Goto, Fail, Push
<1> HIDE DEF p
<1>4. /\ mounts' \in [Paths -> Seq(Content)]
      /\ \A q \in Paths : q # p => mounts'[q] = mounts[q]
      /\ \/ mounts'[p] = mounts[p] /\ l # "ok"
         \/ mounts'[p] # <<>> /\ (mounts[p] = <<>> => Len(mounts'[p]) = 1)
  <2>1. CASE mounts' = mounts /\ l # "ok"
    BY <1>1, <2>1
  <2>2. CASE \E c \in Content : mounts' = [mounts EXCEPT ![p] = <<c>> \o mounts[p]]
    <3>1. PICK c \in Content : mounts' = [mounts EXCEPT ![p] = <<c>> \o mounts[p]]
      BY <2>2
    <3>2. mounts[p] \in Seq(Content)
      BY <1>1
    <3> DEFINE s == <<c>> \o mounts[p]
    <3>3. s \in Seq(Content) /\ s # <<>> /\ (mounts[p] = <<>> => Len(s) = 1)
      BY <3>2, PushFacts
    <3>4. mounts' = [mounts EXCEPT ![p] = s]
      BY <3>1
    <3> HIDE DEF s
    <3> QED
      BY <1>1, <3>3, <3>4
  <2> QED
    BY <1>3, <2>1, <2>2
<1>5. files' \subseteq Paths /\ dirs' \subseteq Dirs /\ connected' \subseteq Nqns
  BY <1>1 DEF IInv, TypeOK
<1>6. Elsewhere(Vol(t))
  BY <1>1, <1>4 DEF Elsewhere
<1>7. Tidy(Vol(t), mounts', files', dirs')
  <2>1. Tidy(Vol(t), mounts, files, dirs) /\ StagePath(Vol(t)) \in Paths
    BY <1>1, TidyNow, PathFacts
  <2>2. Len(mounts'[StagePath(Vol(t))]) <= 1
    <3>1. CASE StagePath(Vol(t)) # p
      BY <1>4, <2>1, <3>1 DEF Tidy
    <3>2. CASE StagePath(Vol(t)) = p
      <4>1. mounts[p] = <<>> /\ Len(mounts[p]) <= 1
        BY <1>1, <2>1, <3>2 DEF Tidy
      <4>2. CASE mounts'[p] = mounts[p]
        BY <3>2, <4>1, <4>2
      <4>3. CASE Len(mounts'[p]) = 1
        BY <3>2, <4>3
      <4> QED
        BY <1>4, <4>1, <4>2, <4>3
    <3> QED
      BY <3>1, <3>2
  <2> QED
    BY <1>1, <1>4, <2>1, <2>2 DEF Tidy
<1>8. Knows(t)'
  BY <1>1, <1>3, <1>4 DEF IInv, TypeOK, Knows, Goto, Op, Path, Mounted, p
<1> QED
  BY <1>1, <1>3, <1>4, <1>5, <1>6, <1>7, <1>8, InsideStep DEF InLock, PcValues

LEMMA DeleteMountPointIInv ==
  ASSUME IInv, NEW t \in Threads, DeleteMountPoint(t)
  PROVE  IInv'
<1>1. /\ pc[t] = "delete" /\ pc[t] \in InLock
      /\ UNCHANGED <<call, lock, mounts, files, dirs, connected>>
      /\ call[t] \in Calls /\ Path(t) \in Paths
      /\ Op(t) \in {"unstage", "unpublish"}
  BY CallFacts
     DEF IInv, Knows, DeleteMountPoint, InLock, PcValues, node, Op, Path
<1>2. PICK l \in {"ok", "unmount", "remove", "err"} :
         /\ Goto(t, l)
         /\ l = "ok" => Path(t) \notin files
         /\ l = "unmount" => Mounted(Path(t))
         /\ l = "remove" => ~Mounted(Path(t))
  BY DEF DeleteMountPoint, Goto
<1>3. Path(t) \notin files => ~Mounted(Path(t))
  BY <1>1 DEF IInv, MountPointsKept
<1>4. Knows(t)'
  BY <1>1, <1>2, <1>3 DEF IInv, TypeOK, Knows, Goto, Op, Path, Mounted
<1> QED
  BY <1>1, <1>2, <1>4, ReadStep DEF IInv, TypeOK, InLock, PcValues

LEMMA UnmountIInv ==
  ASSUME IInv, NEW t \in Threads, Unmount(t)
  PROVE  IInv'
<1> DEFINE p == Path(t)
<1>1. /\ pc[t] = "unmount" /\ pc[t] \in InLock
      /\ UNCHANGED <<call, lock, files, dirs, connected>>
      /\ call[t] \in Calls /\ Vol(t) \in Volumes
      /\ p \in Paths /\ p[1] = Vol(t)
      /\ Op(t) \in {"unstage", "unpublish"}
      /\ Op(t) = "unstage" => p = StagePath(Vol(t))
      /\ mounts[p] # <<>> /\ mounts \in [Paths -> Seq(Content)]
  BY CallFacts
     DEF IInv, TypeOK, Knows, Unmount, InLock, PcValues, Vol, Op, Path, Mounted, StagePath
<1>2. PICK l \in {"remove", "err"} :
         /\ Goto(t, l)
         /\ \/ mounts' = [mounts EXCEPT ![p] = Tail(mounts[p])]
            \/ mounts' = mounts /\ l = "err"
  BY DEF Unmount, Goto
<1> HIDE DEF p
<1>3. /\ Tail(mounts[p]) \in Seq(Content)
      /\ Len(Tail(mounts[p])) = Len(mounts[p]) - 1
      /\ Len(mounts[p]) <= 1 => Tail(mounts[p]) = <<>>
      /\ Len(mounts[p]) \in Nat
  BY <1>1, PopFacts, LenProperties
<1>4. /\ mounts' \in [Paths -> Seq(Content)]
      /\ \A q \in Paths : q # p => mounts'[q] = mounts[q]
      /\ \/ mounts'[p] = mounts[p] /\ l = "err"
         \/ mounts'[p] = Tail(mounts[p])
  BY <1>1, <1>2, <1>3
<1>5. files' \subseteq Paths /\ dirs' \subseteq Dirs /\ connected' \subseteq Nqns
  BY <1>1 DEF IInv, TypeOK
<1>6. Elsewhere(Vol(t))
  BY <1>1, <1>4 DEF Elsewhere
<1>7. Tidy(Vol(t), mounts, files, dirs) /\ StagePath(Vol(t)) \in Paths
  BY <1>1, TidyNow, PathFacts
<1>8. Tidy(Vol(t), mounts', files', dirs')
  <2>1. Len(mounts'[StagePath(Vol(t))]) <= 1
    <3>1. Len(mounts[StagePath(Vol(t))]) <= 1
      BY <1>7 DEF Tidy
    <3>2. CASE StagePath(Vol(t)) # p
      BY <1>4, <1>7, <3>1, <3>2
    <3>3. CASE StagePath(Vol(t)) = p
      <4>1. Len(mounts[p]) <= 1 /\ Len(Tail(mounts[p])) <= 1
        BY <1>3, <3>1, <3>3
      <4>2. Len(mounts'[p]) <= 1
        BY <1>4, <4>1
      <4> QED
        BY <3>3, <4>2
    <3> QED
      BY <3>2, <3>3
  <2> QED
    BY <1>1, <1>4, <1>7, <2>1 DEF Tidy
<1>9. l = "remove" /\ Op(t) = "unstage" => mounts'[p] = <<>>
  BY <1>1, <1>3, <1>4, <1>7 DEF Tidy
<1>10. Knows(t)'
  BY <1>1, <1>2, <1>9 DEF IInv, TypeOK, Knows, Goto, Op, Path, Mounted, p
<1> QED
  BY <1>1, <1>2, <1>4, <1>5, <1>6, <1>8, <1>10, InsideStep DEF InLock, PcValues

LEMMA RemoveMountPointIInv ==
  ASSUME IInv, NEW t \in Threads, RemoveMountPoint(t)
  PROVE  IInv'
<1> DEFINE p == Path(t)
<1>1. /\ pc[t] = "remove" /\ pc[t] \in InLock
      /\ UNCHANGED <<call, lock, mounts, dirs, connected>>
      /\ call[t] \in Calls /\ p \in Paths /\ p[1] = Vol(t)
      /\ Tidy(Vol(t), mounts, files, dirs)
      /\ Op(t) \in {"unstage", "unpublish"}
  BY AtOwnPath DEF IInv, Knows, RemoveMountPoint, InLock, PcValues
<1>2. PICK l \in {"rmdir", "err"} :
         /\ Goto(t, l)
         /\ \/ l = "rmdir" /\ mounts[p] = <<>> /\ files' = files \ {p}
            \/ l = "err" /\ files' = files
  BY DEF RemoveMountPoint, Goto, Mounted
<1> HIDE DEF p
<1>3. /\ mounts' \in [Paths -> Seq(Content)]
      /\ files' \subseteq Paths /\ dirs' \subseteq Dirs /\ connected' \subseteq Nqns
  BY <1>1, <1>2 DEF IInv, TypeOK
<1>4. Elsewhere(Vol(t))
  BY <1>1, <1>2 DEF Elsewhere
<1>5. Tidy(Vol(t), mounts', files', dirs')
  BY <1>1, <1>2 DEF Tidy
<1>6. Knows(t)'
  BY <1>1, <1>2 DEF IInv, TypeOK, Knows, Goto, Op, Path, Mounted, p
<1> QED
  BY <1>1, <1>2, <1>3, <1>4, <1>5, <1>6, InsideStep DEF InLock, PcValues

\* Only an empty directory goes, and it is one of the handler's own volume,
\* whose other handlers wait for the lock.
LEMMA RemoveParentDirIInv ==
  ASSUME IInv, NEW t \in Threads, RemoveParentDir(t)
  PROVE  IInv'
<1> DEFINE p == Path(t)
<1>1. /\ pc[t] = "rmdir" /\ pc[t] \in InLock /\ "ok" \in InLock
      /\ Goto(t, "ok")
      /\ UNCHANGED <<call, lock, mounts, files, connected>>
      /\ call[t] \in Calls /\ p \in Paths /\ p[1] = Vol(t)
      /\ Tidy(Vol(t), mounts, files, dirs)
      /\ Op(t) \in {"unstage", "unpublish"}
      /\ mounts[p] = <<>> /\ p \notin files
  BY AtOwnPath DEF IInv, Knows, RemoveParentDir, InLock, PcValues, Mounted
<1>2. \/ dirs' = dirs
      \/ (\A q \in files : Parent(q) # Parent(p)) /\ dirs' = dirs \ {Parent(p)}
  BY DEF RemoveParentDir
<1> HIDE DEF p
<1>3. /\ mounts' \in [Paths -> Seq(Content)]
      /\ files' \subseteq Paths /\ dirs' \subseteq Dirs /\ connected' \subseteq Nqns
  BY <1>1, <1>2 DEF IInv, TypeOK
<1>4. Elsewhere(Vol(t))
  BY <1>1, <1>2, PathFacts DEF Elsewhere
<1>5. Tidy(Vol(t), mounts', files', dirs')
  BY <1>1, <1>2 DEF Tidy
<1>6. Knows(t)'
  BY <1>1 DEF IInv, TypeOK, Knows, Goto, Op, Path, Mounted, p
<1> QED
  BY <1>1, <1>3, <1>4, <1>5, <1>6, InsideStep

\* Kubelet, restarts and lost connections.
LEMMA MakeStagingDirIInv ==
  ASSUME IInv, NEW v \in Volumes, MakeStagingDir(v)
  PROVE  IInv'
<1>1. TypeOK' /\ LockHeld'
  BY DEF IInv, TypeOK, Dirs, LockHeld, MakeStagingDir, Vol
<1>2. ASSUME NEW s \in Threads PROVE Knows(s)'
  BY Frame DEF IInv, TypeOK, MakeStagingDir
<1>3. StagedOnce' /\ DirsKept' /\ MountPointsKept'
  BY DEF IInv, StagedOnce, DirsKept, MountPointsKept, Mounted, MakeStagingDir
<1> QED
  BY <1>1, <1>2, <1>3 DEF IInv

LEMMA RestartIInv ==
  ASSUME IInv, Crash \/ Reboot
  PROVE  IInv'
<1>1. /\ pc' = [t \in Threads |-> "idle"] /\ call' = [t \in Threads |-> NoCall]
      /\ lock' = [v \in Volumes |-> Free]
      /\ mounts' = mounts \/ mounts' = [p \in Paths |-> <<>>]
      /\ files' = files /\ dirs' = dirs
      /\ connected' = connected \/ connected' = {}
  BY DEF Crash, Reboot, NewNodeServer, Locks!Reset, node
<1>2. TypeOK'
  BY <1>1, EmptySeq DEF IInv, TypeOK, PcValues
<1>3. LockHeld' /\ \A t \in Threads : Knows(t)'
  BY <1>1 DEF LockHeld, InLock, Knows
<1>4. StagedOnce' /\ DirsKept' /\ MountPointsKept'
  BY <1>1, EmptySeq, PathFacts
     DEF IInv, StagedOnce, DirsKept, MountPointsKept, Mounted
<1> QED
  BY <1>2, <1>3, <1>4 DEF IInv

\* Devices go away under the mounts that show them: no handler's knowledge
\* is about what a mount shows.
LEMMA DevicesChangeIInv ==
  ASSUME IInv, UNCHANGED <<pc, call, lock, files, dirs>>, connected' \subseteq connected,
         mounts' \in [Paths -> Seq(Content)],
         \A p \in Paths : /\ Len(mounts'[p]) = Len(mounts[p])
                          /\ mounts'[p] = <<>> <=> mounts[p] = <<>>
  PROVE  IInv'
<1>1. TypeOK' /\ LockHeld'
  BY DEF IInv, TypeOK, LockHeld, Vol
<1>2. ASSUME NEW s \in Threads PROVE Knows(s)'
  <2>1. pc[s] \in InLock => Path(s) \in Paths
    BY CallFacts DEF IInv, Knows, InLock, Path
  <2> QED
    BY <2>1, Frame DEF IInv, TypeOK
<1>3. StagedOnce' /\ DirsKept' /\ MountPointsKept'
  BY PathFacts DEF IInv, StagedOnce, DirsKept, MountPointsKept, Mounted
<1> QED
  BY <1>1, <1>2, <1>3 DEF IInv

LEMMA ConnectionLossIInv ==
  ASSUME IInv, NEW n \in Nqns, ConnectionLoss(n)
  PROVE  IInv'
<1>1. /\ UNCHANGED <<pc, call, lock, files, dirs>>
      /\ connected' \subseteq connected /\ mounts' = Dead(mounts, n)
      /\ mounts \in [Paths -> Seq(Content)]
  BY DEF IInv, TypeOK, ConnectionLoss
<1>2. /\ mounts' \in [Paths -> Seq(Content)]
      /\ \A p \in Paths : /\ Len(mounts'[p]) = Len(mounts[p])
                          /\ mounts'[p] = <<>> <=> mounts[p] = <<>>
  BY <1>1, DeadFacts
<1> QED
  BY <1>1, <1>2, DevicesChangeIInv

LEMMA StutterIInv == IInv /\ UNCHANGED vars => IInv'
BY DEF vars, IInv, TypeOK, LockHeld, Knows, StagedOnce, DirsKept, MountPointsKept,
       Mounted, Vol, Op, Path

LEMMA NextIInv == IInv /\ [Next]_vars => IInv'
BY ArriveIInv, ValidateIInv, LockVolumeIInv, ReturnIInv, IsStagedIInv, ConnectIInv,
   WaitForDeviceReadyIInv, DisconnectIInv, CreateMountPointIInv, OpenMountPointIInv,
   BindMountIInv, DeleteMountPointIInv, UnmountIInv, RemoveMountPointIInv,
   RemoveParentDirIInv, MakeStagingDirIInv, RestartIInv, ConnectionLossIInv, StutterIInv
   DEF Next, Step

-----------------------------------------------------------------------------
(* The theorems.                                                           *)

\* The inductive invariant, TypeOK among its parts, holds in every reachable
\* state of the node service.
THEOREM Invariance == Spec => []IInv
BY InitIInv, NextIInv, PTL DEF Spec

\* The node service keeps its types.
THEOREM TypeCorrect == Spec => []TypeOK
<1>1. IInv => TypeOK
  BY DEF IInv
<1> QED
  BY <1>1, Invariance, PTL

\* A volume is mounted on its staging path at most once, under any number of
\* overlapping and repeated requests, failures, crashes and reboots.
THEOREM StagedAtMostOnce == Spec => []StagedOnce
<1>1. IInv => StagedOnce
  BY DEF IInv
<1> QED
  BY <1>1, Invariance, PTL

\* NodeStageVolume, NodeUnstageVolume, NodePublishVolume and
\* NodeUnpublishVolume answer OK only when the mount table says so.
THEOREM AnswersAreTrue == Spec => []RepliesTrue
<1>1. IInv => RepliesTrue
  BY DEF IInv, Knows, RepliesTrue
<1> QED
  BY <1>1, Invariance, PTL

\* An OK of NodeUnpublishVolume means that the target is gone, however many
\* mounts repeated publish requests had stacked on it.
THEOREM UnpublishLeavesNothing == Spec => []UnpublishedIsGone
<1>1. IInv => UnpublishedIsGone
  BY DEF IInv, Knows, UnpublishedIsGone
<1> QED
  BY <1>1, Invariance, PTL

\* The directory a handler has made is there when it opens the mount point
\* file, and the file when it mounts, however many other handlers remove the
\* directories and files of their targets meanwhile.
THEOREM MountPointsAreReady == Spec => []MountPointReady
<1>1. IInv => MountPointReady
  BY DEF IInv, Knows, MountPointReady
<1> QED
  BY <1>1, Invariance, PTL

-----------------------------------------------------------------------------
(* Staged volumes have their device, with a subsystem for each volume and  *)
(* as long as the kernel keeps its connections and no mount half succeeds. *)

\* A handler that is about to disconnect has left nothing mounted, so that
\* whatever is mounted on a staging path shows a device that is there.
Lively ==
    /\ \A v \in Volumes : mounts[StagePath(v)] # <<>> => mounts[StagePath(v)][1] = "live"
    /\ \A t \in Threads : pc[t] = "disconnect" => ~Mounted(Path(t))

\* Steps that mount and unmount nothing.
LEMMA LivelyRead ==
  ASSUME IInv, Lively, NEW t \in Threads, mounts' = mounts,
         \A s \in Threads \ {t} : pc'[s] = pc[s] /\ call'[s] = call[s],
         pc'[t] = "disconnect" => ~Mounted(Path(t)) /\ call'[t] = call[t]
  PROVE  Lively'
<1>1. ASSUME NEW s \in Threads, pc'[s] = "disconnect"
      PROVE  ~Mounted(Path(s)) /\ call'[s] = call[s]
  BY <1>1 DEF Lively
<1>2. \A s \in Threads : pc'[s] = "disconnect" => ~Mounted(Path(s))'
  BY <1>1 DEF Mounted, Path
<1> QED
  BY <1>2 DEF Lively, StagePath

LEMMA LivelyHandler ==
  ASSUME IInv, Lively, NEW t \in Threads,
         \/ \E c \in Calls : Arrive(t, c)
         \/ LockVolume(t) \/ Validate(t) \/ IsStaged(t) \/ Connect(t)
         \/ WaitForDeviceReady(t) \/ CreateMountPoint(t) \/ OpenMountPoint(t)
         \/ DeleteMountPoint(t) \/ RemoveMountPoint(t) \/ RemoveParentDir(t) \/ Return(t)
  PROVE  Lively'
<1>1. pc \in [Threads -> PcValues] /\ call \in [Threads -> Calls \cup {NoCall}]
  BY DEF IInv, TypeOK
<1>2. CASE \E c \in Calls : Arrive(t, c)
  BY <1>1, <1>2, LivelyRead DEF Arrive, Goto, node
<1>3. CASE LockVolume(t)
  <2>1. Op(t) \in {"stage", "unstage", "publish", "unpublish"}
    BY <1>3, CallFacts DEF LockVolume, IInv, Knows, Op
  <2>2. Begin(call[t]) # "disconnect"
    BY <2>1 DEF Begin, Op
  <2> QED
    BY <1>1, <1>3, <2>2, LivelyRead DEF LockVolume, Goto, node
<1>4. CASE Validate(t) \/ Return(t)
  BY <1>1, <1>4, LivelyRead DEF Validate, Return, Goto, node
<1>5. CASE IsStaged(t) \/ Connect(t) \/ WaitForDeviceReady(t)
  BY <1>1, <1>5, LivelyRead DEF IsStaged, Connect, WaitForDeviceReady, Goto, node
<1>6. CASE CreateMountPoint(t) \/ OpenMountPoint(t)
  <2>1. Op(t) = "stage" => ~Mounted(Path(t))
    BY <1>6 DEF CreateMountPoint, OpenMountPoint, IInv, Knows
  <2>2. /\ \E l \in PcValues : Goto(t, l) /\ (l = "disconnect" => Op(t) = "stage")
        /\ mounts' = mounts /\ call' = call
    BY <1>6 DEF CreateMountPoint, OpenMountPoint, Fail, PcValues
  <2> QED
    BY <1>1, <2>1, <2>2, LivelyRead DEF Goto
<1>7. CASE DeleteMountPoint(t) \/ RemoveMountPoint(t) \/ RemoveParentDir(t)
  BY <1>1, <1>7, LivelyRead
     DEF DeleteMountPoint, RemoveMountPoint, RemoveParentDir, Goto, node
<1> QED
  BY <1>2, <1>3, <1>4, <1>5, <1>6, <1>7

\* A step of t that changes the mounts of its own path only.
LEMMA LivelyWrite ==
  ASSUME IInv, Lively, NEW t \in Threads, pc[t] \in InLock,
         \A q \in Paths : q # Path(t) => mounts'[q] = mounts[q],
         Path(t) = StagePath(Vol(t)) =>
            (mounts'[Path(t)] # <<>> => mounts'[Path(t)][1] = "live"),
         call' = call,
         \A s \in Threads \ {t} : pc'[s] = pc[s],
         pc'[t] = "disconnect" => mounts'[Path(t)] = <<>>
  PROVE  Lively'
<1>1. ASSUME NEW v \in Volumes, mounts'[StagePath(v)] # <<>>
      PROVE  mounts'[StagePath(v)][1] = "live"
  <2>1. StagePath(v) \in Paths
    BY PathFacts
  <2>2. CASE StagePath(v) # Path(t)
    BY <1>1, <2>1, <2>2 DEF Lively
  <2>3. CASE StagePath(v) = Path(t)
    <3>1. Vol(t) = v
      BY <2>3 DEF StagePath, Path, Vol
    <3> QED
      BY <1>1, <2>3, <3>1
  <2> QED
    BY <2>2, <2>3
<1>2. ASSUME NEW s \in Threads, pc'[s] = "disconnect"
      PROVE  mounts'[Path(s)] = <<>>
  <2>1. CASE s = t
    BY <1>2, <2>1
  <2>2. CASE s # t
    <3>1. pc[s] = "disconnect" /\ pc[s] \in InLock
      BY <1>2, <2>2 DEF InLock, PcValues
    <3>2. Path(s) \in Paths /\ Path(s) # Path(t)
      BY <2>2, <3>1, OthersElsewhere DEF Path, Vol
    <3> QED
      BY <3>1, <3>2 DEF Lively, Mounted
  <2> QED
    BY <2>1, <2>2
<1> QED
  BY <1>1, <1>2 DEF Lively, StagePath, Mounted, Path

LEMMA LivelyBindMount ==
  ASSUME IInv, Lively, "halfMount" \notin Faults, NEW t \in Threads, BindMount(t)
  PROVE  Lively'
<1>1. /\ pc[t] = "mount" /\ pc[t] \in InLock /\ call' = call
      /\ call[t] \in Calls /\ Path(t) \in Paths
      /\ mounts \in [Paths -> Seq(Content)] /\ pc \in [Threads -> PcValues]
      /\ Op(t) = "stage" => mounts[Path(t)] = <<>>
      /\ Op(t) \in {"stage", "publish"}
      /\ Path(t) = StagePath(Vol(t)) => Op(t) = "stage"
  BY CallFacts
     DEF IInv, TypeOK, Knows, BindMount, InLock, PcValues, Op, Path, Vol, Mounted, StagePath
<1>2. CASE \E c \in Source(t) : Push(Path(t), c) /\ Goto(t, "ok")
  <2>1. PICK c \in Source(t) : Push(Path(t), c) /\ Goto(t, "ok")
    BY <1>2
  <2>2. mounts' = [mounts EXCEPT ![Path(t)] = <<c>> \o mounts[Path(t)]]
    BY <2>1 DEF Push
  <2>3. ASSUME Op(t) = "stage" PROVE mounts'[Path(t)][1] = "live"
    <3>1. c = "live" /\ <<c>> \in Seq(Content)
      BY <2>3 DEF Source, Content
    <3>2. <<c>> \o <<>> = <<c>>
      BY <3>1, ConcatEmptySeq
    <3> QED
      BY <1>1, <2>2, <2>3, <3>1, <3>2
  <2> QED
    BY <1>1, <2>1, <2>2, <2>3, LivelyWrite DEF Goto
<1>3. CASE Fail(t) /\ UNCHANGED mounts
  BY <1>1, <1>3, LivelyRead DEF Fail, Goto, Mounted
<1> QED
  BY <1>2, <1>3 DEF BindMount

LEMMA LivelyUnmount ==
  ASSUME IInv, Lively, NEW t \in Threads, Unmount(t)
  PROVE  Lively'
<1>1. /\ pc[t] = "unmount" /\ pc[t] \in InLock /\ call' = call
      /\ call[t] \in Calls /\ Path(t) \in Paths
      /\ mounts \in [Paths -> Seq(Content)] /\ pc \in [Threads -> PcValues]
      /\ mounts[Path(t)] # <<>>
  BY CallFacts
     DEF IInv, TypeOK, Knows, Unmount, InLock, PcValues, Path, Mounted
<1>2. CASE Goto(t, "remove") /\ mounts' = [mounts EXCEPT ![Path(t)] = Tail(@)]
  <2>1. ASSUME Path(t) = StagePath(Vol(t)) PROVE mounts'[Path(t)] = <<>>
    <3>1. Vol(t) \in Volumes
      BY <1>1, CallFacts DEF Vol
    <3>2. mounts[Path(t)] \in Seq(Content) /\ Len(mounts[Path(t)]) <= 1
      BY <1>1, <2>1, <3>1 DEF IInv, StagedOnce
    <3>3. Tail(mounts[Path(t)]) = <<>>
      BY <1>1, <3>2, PopFacts
    <3> QED
      BY <1>1, <1>2, <3>3
  <2> QED
    BY <1>1, <1>2, <2>1, LivelyWrite DEF Goto
<1>3. CASE Goto(t, "err") /\ UNCHANGED mounts
  BY <1>1, <1>3, LivelyRead DEF Goto
<1> QED
  BY <1>2, <1>3 DEF Unmount

LEMMA LivelyDisconnect ==
  ASSUME IInv, Lively, \A v, w \in Volumes : NqnOf[v] = NqnOf[w] => v = w,
         NEW t \in Threads, Disconnect(t)
  PROVE  Lively'
<1>1. /\ pc[t] = "disconnect" /\ call' = call /\ Goto(t, "err")
      /\ call[t] \in Calls /\ Op(t) = "stage"
      /\ Vol(t) \in Volumes /\ Path(t) = StagePath(Vol(t)) /\ Nqn(t) = NqnOf[Vol(t)]
      /\ mounts \in [Paths -> Seq(Content)] /\ pc \in [Threads -> PcValues]
      /\ mounts[Path(t)] = <<>>
  BY CallFacts
     DEF IInv, TypeOK, Knows, Lively, Disconnect, Path, Vol, Op, Nqn, Mounted, StagePath
<1>2. CASE mounts' = mounts
  BY <1>1, <1>2, LivelyRead DEF Goto
<1>3. CASE mounts' = Dead(mounts, Nqn(t))
  <2>1. ASSUME NEW v \in Volumes, mounts'[StagePath(v)] # <<>>
        PROVE  mounts'[StagePath(v)][1] = "live"
    <3>1. StagePath(v) \in Paths /\ StagePath(v)[1] = v
      BY PathFacts
    <3>2. mounts[StagePath(v)] # <<>> /\ mounts[StagePath(v)] \in Seq(Content)
      BY <1>1, <1>3, <2>1, <3>1, DeadFacts
    <3>3. NqnOf[v] # Nqn(t)
      BY <1>1, <3>2
    <3>4. 1 \in DOMAIN mounts[StagePath(v)] /\ mounts[StagePath(v)][1] = "live"
      BY <3>2, LenProperties, EmptySeq DEF Lively
    <3> QED
      BY <1>3, <3>1, <3>3, <3>4 DEF Dead
  <2>2. ASSUME NEW s \in Threads, pc'[s] = "disconnect"
        PROVE  mounts'[Path(s)] = <<>>
    <3>1. pc[s] = "disconnect" /\ mounts[Path(s)] = <<>>
      BY <1>1, <2>2 DEF Goto, Lively, Mounted
    <3>2. Path(s) \in Paths
      BY <3>1, CallFacts DEF IInv, Knows, Path
    <3> QED
      BY <1>1, <1>3, <3>1, <3>2, DeadFacts
  <2> QED
    BY <1>1, <2>1, <2>2 DEF Lively, StagePath, Mounted, Path
<1> QED
  BY <1>2, <1>3 DEF Disconnect

LEMMA LivelyNext ==
  ASSUME \A v, w \in Volumes : NqnOf[v] = NqnOf[w] => v = w,
         Faults \cap {"loss", "halfMount"} = {},
         IInv, Lively, [Next]_vars
  PROVE  Lively'
<1>1. CASE Crash \/ Reboot
  BY <1>1, PathFacts DEF Crash, Reboot, NewNodeServer, node, Lively, StagePath
<1>2. CASE (\E v \in Volumes : MakeStagingDir(v)) \/ UNCHANGED vars
  BY <1>2 DEF MakeStagingDir, vars, Lively, StagePath, Mounted, Path
<1>3. \A n \in Nqns : ~ConnectionLoss(n)
  BY DEF ConnectionLoss
<1>4. ASSUME NEW t \in Threads, (\E c \in Calls : Arrive(t, c)) \/ LockVolume(t) \/ Step(t)
      PROVE  Lively'
  BY <1>4, LivelyHandler, LivelyBindMount, LivelyUnmount, LivelyDisconnect DEF Step
<1> QED
  BY <1>1, <1>2, <1>3, <1>4 DEF Next

\* With a subsystem for each volume an OK of NodeStageVolume, "already staged"
\* included, means that the device mounted at the staging path is there, across
\* crashes and reboots and after any failure of the calls it makes, as long as
\* the kernel gives no connection up and no failing mount leaves a mount.
THEOREM StagedVolumesHaveTheirDevice ==
  ASSUME \A v, w \in Volumes : NqnOf[v] = NqnOf[w] => v = w,
         Faults \cap {"loss", "halfMount"} = {}
  PROVE  Spec => []StagedIsLive
<1>1. Init => Lively
  BY PathFacts DEF Init, Lively
<1>2. IInv /\ Lively /\ [Next]_vars => Lively'
  BY LivelyNext
<1>3. ASSUME IInv, Lively, NEW t \in Threads, pc[t] = "ok", Op(t) = "stage"
      PROVE  DeviceLive(Vol(t))
  <2>1. /\ Path(t) = StagePath(Vol(t)) /\ Vol(t) \in Volumes /\ Path(t) \in Paths
        /\ mounts[Path(t)] # <<>> /\ mounts[Path(t)] \in Seq(Content)
    BY <1>3, CallFacts DEF IInv, TypeOK, Knows, Path, Vol, Op, StagePath, Mounted
  <2>2. 1 \in DOMAIN mounts[Path(t)] /\ mounts[Path(t)][1] = "live"
    BY <1>3, <2>1, LenProperties, EmptySeq DEF Lively
  <2> QED
    BY <2>1, <2>2 DEF DeviceLive
<1>4. IInv /\ Lively => StagedIsLive
  BY <1>3 DEF StagedIsLive
<1> QED
  BY <1>1, <1>2, <1>4, Invariance, PTL DEF Spec

-----------------------------------------------------------------------------
(* What a step of a handler does to the mount table, for the composition   *)
(* with a CO and a gateway.                                                *)

ShowsFile(p) == \E i \in DOMAIN mounts[p] : mounts[p][i] = "file"

\* Where goroutine t, or no goroutine, mounts and unmounts, and how a file can
\* come to be mounted.
MountsFollow(t) ==
    /\ \A p \in Paths : p # Path(t) => (mounts'[p] = <<>> <=> mounts[p] = <<>>)
    /\ mounts'[Path(t)] # <<>> =>
          mounts[Path(t)] # <<>> \/ (pc[t] = "mount" /\ Op(t) \in {"stage", "publish"})
    /\ mounts'[Path(t)] = <<>> =>
          mounts[Path(t)] = <<>> \/ Op(t) \in {"unstage", "unpublish"}
    /\ \A p \in Paths : ShowsFile(p)' =>
          \/ ShowsFile(p)
          \/ /\ Op(t) = "publish"
             /\ ~Mounted(StagePath(Vol(t))) \/ ShowsFile(StagePath(Vol(t)))

\* A goroutine that neither starts nor ends its request keeps it, and nobody
\* else's request changes.
LEMMA HandlerKeepsCall ==
  ASSUME IInv, NEW t \in Threads, LockVolume(t) \/ (Step(t) /\ ~Return(t))
  PROVE  /\ pc[t] \notin {"idle", "ok", "err"}
         /\ \A s \in Threads \ {t} : pc'[s] = pc[s] /\ call'[s] = call[s]
         /\ pc'[t] = "idle" \/ call'[t] = call[t]
<1>1. pc \in [Threads -> PcValues] /\ call \in [Threads -> Calls \cup {NoCall}]
  BY DEF IInv, TypeOK
<1>2. CASE LockVolume(t)
  BY <1>1, <1>2 DEF LockVolume, Goto
<1>3. CASE Validate(t) \/ IsStaged(t) \/ Connect(t) \/ WaitForDeviceReady(t)
  BY <1>1, <1>3 DEF Validate, IsStaged, Connect, WaitForDeviceReady, Goto
<1>4. CASE Disconnect(t) \/ CreateMountPoint(t) \/ OpenMountPoint(t) \/ BindMount(t)
  BY <1>1, <1>4 DEF Disconnect, CreateMountPoint, OpenMountPoint, BindMount, Fail, Goto
<1>5. CASE DeleteMountPoint(t) \/ Unmount(t) \/ RemoveMountPoint(t) \/ RemoveParentDir(t)
  BY <1>1, <1>5 DEF DeleteMountPoint, Unmount, RemoveMountPoint, RemoveParentDir, Goto
<1> QED
  BY <1>2, <1>3, <1>4, <1>5 DEF Step

\* Losing the devices of a subsystem turns nothing into a file.
LEMMA DeadShowsNoFile ==
  ASSUME mounts \in [Paths -> Seq(Content)], NEW n, mounts' = Dead(mounts, n)
  PROVE  \A p \in Paths : /\ mounts'[p] = <<>> <=> mounts[p] = <<>>
                          /\ ShowsFile(p)' => ShowsFile(p)
<1>1. ASSUME NEW p \in Paths, ShowsFile(p)' PROVE ShowsFile(p)
  <2>1. /\ DOMAIN mounts'[p] = DOMAIN mounts[p]
        /\ \A i \in DOMAIN mounts[p] : mounts'[p][i] \in {"dead", mounts[p][i]}
    BY DEF Dead
  <2> QED
    BY <1>1, <2>1 DEF ShowsFile
<1> QED
  BY <1>1, DeadFacts

LEMMA BindMountFollows ==
  ASSUME IInv, NEW t \in Threads, BindMount(t)
  PROVE  MountsFollow(t)
<1> DEFINE p == Path(t)
           s == StagePath(Vol(t))
<1>1. /\ pc[t] = "mount" /\ call[t] \in Calls /\ Vol(t) \in Volumes
      /\ p \in Paths /\ s \in Paths
      /\ Op(t) \in {"stage", "publish"}
      /\ mounts \in [Paths -> Seq(Content)]
  BY CallFacts, PathFacts DEF IInv, TypeOK, Knows, BindMount, Vol, Op, Path
<1>2. mounts' = mounts \/ \E c \in Source(t) : Push(p, c)
  BY DEF BindMount
<1>3. CASE mounts' = mounts
  BY <1>1, <1>3 DEF MountsFollow, ShowsFile
<1>4. CASE \E c \in Source(t) : Push(p, c)
  <2>1. PICK c \in Source(t) : mounts' = [mounts EXCEPT ![p] = <<c>> \o mounts[p]]
    BY <1>4 DEF Push
  <2>2. mounts[s] # <<>> =>
           1 \in DOMAIN mounts[s] /\ Head(mounts[s]) = mounts[s][1]
                                  /\ Head(mounts[s]) \in Content
    <3>1. mounts[s] \in Seq(Content)
      BY <1>1
    <3> QED
      BY <3>1, HeadTailProperties, LenProperties, EmptySeq
  <2>3. /\ c \in Content
        /\ c = "file" => /\ Op(t) = "publish"
                         /\ mounts[s] = <<>> \/ ShowsFile(s)
    BY <1>1, <2>2 DEF Source, Mounted, StagePath, Content, ShowsFile
  <2> DEFINE w == <<c>> \o mounts[p]
  <2>4. mounts[p] \in Seq(Content)
    BY <1>1
  <2>5. w \in Seq(Content) /\ w # <<>>
    BY <2>3, <2>4, PushFacts
  <2>6. \A i \in DOMAIN w : w[i] = c \/ \E j \in DOMAIN mounts[p] : w[i] = mounts[p][j]
    <3>1. /\ <<c>> \in Seq(Content) /\ Len(<<c>>) = 1 /\ <<c>>[1] = c
          /\ Len(mounts[p]) \in Nat /\ DOMAIN mounts[p] = 1 .. Len(mounts[p])
      BY <2>3, <2>4, LenProperties
    <3>2. /\ Len(w) = 1 + Len(mounts[p]) /\ DOMAIN w = 1 .. Len(w)
          /\ \A i \in 1 .. Len(w) : w[i] = IF i <= 1 THEN <<c>>[i]
                                          ELSE mounts[p][i - 1]
      BY <2>4, <2>5, <3>1, ConcatProperties, LenProperties
    <3> HIDE DEF w
    <3>3. ASSUME NEW i \in DOMAIN w, i # 1
          PROVE  w[i] = mounts[p][i - 1] /\ i - 1 \in DOMAIN mounts[p]
      BY <3>1, <3>2, <3>3
    <3>4. 1 \in DOMAIN w => w[1] = c
      BY <3>1, <3>2
    <3> QED
      BY <3>3, <3>4
  <2>7. mounts' = [mounts EXCEPT ![p] = w]
    BY <2>1
  <2> HIDE DEF w, p, s
  <2>8. mounts'[p] = w /\ \A q \in Paths : q # p => mounts'[q] = mounts[q]
    BY <1>1, <2>7
  <2>9. ASSUME NEW q \in Paths, ShowsFile(q)'
        PROVE  \/ ShowsFile(q)
               \/ Op(t) = "publish" /\ (mounts[s] = <<>> \/ ShowsFile(s))
    <3>1. PICK i \in DOMAIN mounts'[q] : mounts'[q][i] = "file"
      BY <2>9 DEF ShowsFile
    <3>2. CASE q # p
      BY <2>8, <3>1, <3>2 DEF ShowsFile
    <3>3. CASE q = p
      BY <2>3, <2>6, <2>8, <3>1, <3>3 DEF ShowsFile
    <3> QED
      BY <3>2, <3>3
  <2> QED
    BY <1>1, <2>5, <2>8, <2>9 DEF MountsFollow, Mounted, p, s
<1> QED
  BY <1>2, <1>3, <1>4

LEMMA UnmountFollows ==
  ASSUME IInv, NEW t \in Threads, Unmount(t)
  PROVE  MountsFollow(t)
<1> DEFINE p == Path(t)
<1>1. /\ p \in Paths /\ Op(t) \in {"unstage", "unpublish"}
      /\ mounts \in [Paths -> Seq(Content)] /\ mounts[p] # <<>>
  BY CallFacts DEF IInv, TypeOK, Knows, Unmount, Op, Path, Mounted
<1>2. mounts' = mounts \/ mounts' = [mounts EXCEPT ![p] = Tail(mounts[p])]
  BY DEF Unmount
<1> HIDE DEF p
<1>3. \A i \in DOMAIN Tail(mounts[p]) :
         i + 1 \in DOMAIN mounts[p] /\ Tail(mounts[p])[i] = mounts[p][i + 1]
  <2>1. mounts[p] \in Seq(Content)
    BY <1>1
  <2>2. /\ Tail(mounts[p]) \in Seq(Content)
        /\ Len(Tail(mounts[p])) = Len(mounts[p]) - 1
        /\ \A i \in 1 .. Len(Tail(mounts[p])) : Tail(mounts[p])[i] = mounts[p][i + 1]
    BY <1>1, <2>1, HeadTailProperties
  <2>3. /\ DOMAIN Tail(mounts[p]) = 1 .. Len(Tail(mounts[p]))
        /\ DOMAIN mounts[p] = 1 .. Len(mounts[p]) /\ Len(mounts[p]) \in Nat
    BY <2>1, <2>2, LenProperties
  <2> QED
    BY <2>2, <2>3
<1>4. ASSUME NEW q \in Paths, ShowsFile(q)' PROVE ShowsFile(q)
  <2>1. q # p => mounts'[q] = mounts[q]
    BY <1>1, <1>2
  <2>2. mounts'[p] = mounts[p] \/ mounts'[p] = Tail(mounts[p])
    BY <1>1, <1>2
  <2> QED
    BY <1>3, <1>4, <2>1, <2>2 DEF ShowsFile
<1>5. \A q \in Paths : q # p => mounts'[q] = mounts[q]
  BY <1>1, <1>2
<1> QED
  BY <1>1, <1>4, <1>5 DEF MountsFollow, p

LEMMA HandlerMounts ==
  ASSUME IInv, NEW t \in Threads, LockVolume(t) \/ (Step(t) /\ ~Return(t))
  PROVE  MountsFollow(t)
<1>1. CASE mounts' = mounts
  BY <1>1 DEF MountsFollow, ShowsFile
<1>2. CASE Disconnect(t)
  <2>1. mounts \in [Paths -> Seq(Content)] /\ Path(t) \in Paths
    BY <1>2, CallFacts DEF IInv, TypeOK, Knows, Disconnect, Path
  <2>2. CASE mounts' = Dead(mounts, Nqn(t))
    BY <2>1, <2>2, DeadShowsNoFile DEF MountsFollow
  <2> QED
    BY <1>1, <1>2, <2>2 DEF Disconnect
<1>3. CASE BindMount(t) \/ Unmount(t)
  BY <1>3, BindMountFollows, UnmountFollows
<1>4. LockVolume(t) \/ Validate(t) \/ IsStaged(t) \/ Connect(t) \/ WaitForDeviceReady(t)
      \/ CreateMountPoint(t) \/ OpenMountPoint(t) \/ DeleteMountPoint(t)
      \/ RemoveMountPoint(t) \/ RemoveParentDir(t)
      => mounts' = mounts
  BY DEF LockVolume, Validate, IsStaged, Connect, WaitForDeviceReady, CreateMountPoint,
         OpenMountPoint, DeleteMountPoint, RemoveMountPoint, RemoveParentDir, node
<1> QED
  BY <1>1, <1>2, <1>3, <1>4 DEF Step
=============================================================================
