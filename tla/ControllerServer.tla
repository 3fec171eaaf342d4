--------------------------- MODULE ControllerServer ---------------------------
(***************************************************************************)
(* The CSI controller service (pkg/driver/controllerserver.go) in front of *)
(* the NVMe-oF gateway it drives over gRPC.                                *)
(*                                                                         *)
(* CreateVolume asks the gateway for a namespace and answers with a volume *)
(* id that encodes (NSID, NQN, volume name); DeleteVolume decodes the id   *)
(* and deletes namespace (NSID, NQN); ControllerPublishVolume looks the    *)
(* namespace's uuid up by image name.  The first two hold a lock on the    *)
(* volume name and give the gateway 5 seconds; when those are over the     *)
(* request may still be on its way, or executed with the answer lost.      *)
(*                                                                         *)
(* The gateway is external: modelled from how the controller uses it.      *)
(***************************************************************************)
EXTENDS Naturals, FiniteSets

CONSTANTS
    Names,      \* volume names chosen by the CO, also the RBD image names
    Nqns,       \* NVMe subsystems
    NqnOf,      \* parameter SubsystemNqn of the volume's StorageClass
    Threads,    \* goroutines serving requests
    Free,       \* holder of a lock nobody holds
    None,       \* no request, no response, no result
    Malformed,  \* a volume id that does not decode
    ReuseNsids, \* does the gateway give a freed NSID out again?
    AcceptDuplicates, \* may an image have a second namespace?
    MaxAdds,    \* bound: namespaces the gateway ever makes
    MaxFaults   \* bound: timeouts, crashes, lost answers, gateway errors

ASSUME ControllerConstants ==
    /\ NqnOf \in [Names -> Nqns]
    /\ Free \notin Threads
    /\ Malformed \notin (1 .. MaxAdds) \X Nqns \X Names
    /\ ReuseNsids \in BOOLEAN /\ AcceptDuplicates \in BOOLEAN
    /\ MaxAdds \in Nat /\ MaxFaults \in Nat

Nsids == 1 .. MaxAdds

VolumeIdentifier == [nsid : Nsids, nqn : Nqns, name : Names]

\* JSON in base64, abstracted to what matters: a string that is no record,
\* from which the three fields can be read back.
encodeVolumeID(i) == <<i.nsid, i.nqn, i.name>>
VolumeIds == Nsids \X Nqns \X Names
decodeVolumeID(s) == [nsid |-> s[1], nqn |-> s[2], name |-> s[3]]

\* VolumeContext carries the nqn and image the volume was created with; the
\* id it travels with has the same two (createVolume).
Calls ==
    [op : {"create"}, name : Names]
    \cup [op : {"delete"}, id : VolumeIds \cup {Malformed}]
    \cup [op : {"publish"}, id : VolumeIds]

Namespace == [nsid : Nsids, nqn : Nqns, image : Names, uuid : Nsids]

\* Gateway requests.  `name' of a delete is the volume it was sent for; the
\* message has only nsid and nqn.
Requests ==
    [kind : {"add"}, nqn : Nqns, image : Names]
    \cup [kind : {"del"}, nqn : Nqns, nsid : Nsids, name : Names]
    \cup [kind : {"list"}, nqn : Nqns]

Responses ==
    [status : {0, 1}, nsid : Nsids \cup {0}, list : SUBSET Namespace]

ASSUME NoneIsNothing == None \notin VolumeIds /\ None \notin Responses

VARIABLES
    pc,         \* where the handler of goroutine t is
    call,       \* the request goroutine t serves
    lock,       \* volumeLocks, by volume name
    req,        \* the gateway request t waits on
    resp,       \* the gateway's answer to it
    volume,     \* the volume id CreateVolume returns
    found,      \* the namespace ControllerPublishVolume takes the uuid of
    late,       \* gateway requests nobody waits on any more
    namespaces, \* the gateway's namespaces
    made,       \* how many namespaces the gateway has made
    known,      \* volume ids the CO has and must get rid of
    retired,    \* volume names the CO has asked to delete
    faults,     \* how many faults there have been
    lost        \* has a handler or its answer ever been lost?

server == <<pc, call, lock, req, resp, volume, found>>
gateway == <<late, namespaces, made>>
co == <<known, retired>>
vars == <<server, gateway, co, faults, lost>>

Locks == INSTANCE IdLock WITH Ids <- Names, holder <- lock

TypeOK ==
    /\ pc \in [Threads -> {"idle", "decode", "lock", "await", "ok", "err"}]
    /\ call \in [Threads -> Calls \cup {None}]
    /\ lock \in [Names -> Threads \cup {Free}]
    /\ req \in [Threads -> Requests \cup {None}]
    /\ resp \in [Threads -> Responses \cup {None}]
    /\ volume \in [Threads -> VolumeIds \cup {None}]
    /\ found \in [Threads -> Namespace \cup {None}]
    /\ late \subseteq (1 .. MaxFaults) \X Requests
    /\ namespaces \subseteq Namespace
    /\ made \in 0 .. MaxAdds
    /\ known \subseteq VolumeIds
    /\ retired \subseteq Names
    /\ faults \in 0 .. MaxFaults
    /\ lost \in BOOLEAN

Op(t) == call[t].op

\* The name a handler locks: the request's, or the one in the volume id.
Name(c) == IF c.op = "create" THEN c.name ELSE decodeVolumeID(c.id).name

\* newControllerServer: fresh goroutines and locks, an open connection.
Started ==
    /\ pc' = [t \in Threads |-> "idle"]
    /\ call' = [t \in Threads |-> None]
    /\ Locks!Reset
    /\ req' = [t \in Threads |-> None]
    /\ resp' = [t \in Threads |-> None]
    /\ volume' = [t \in Threads |-> None]
    /\ found' = [t \in Threads |-> None]

Init ==
    /\ pc = [t \in Threads |-> "idle"]
    /\ call = [t \in Threads |-> None]
    /\ Locks!Init
    /\ req = [t \in Threads |-> None]
    /\ resp = [t \in Threads |-> None]
    /\ volume = [t \in Threads |-> None]
    /\ found = [t \in Threads |-> None]
    /\ late = {} /\ namespaces = {} /\ made = 0
    /\ known = {} /\ retired = {}
    /\ faults = 0 /\ lost = FALSE

Goto(t, l) == pc' = [pc EXCEPT ![t] = l]

Fault ==
    /\ faults < MaxFaults
    /\ faults' = faults + 1

-----------------------------------------------------------------------------
(* The CO.  It repeats a request until it is answered with success, also   *)
(* while an earlier one is still being served, and never uses the name of  *)
(* a volume it has deleted again (names are derived from the PVC's uid).   *)

COAllows(c) ==
    CASE c.op = "create" ->
            c.name \notin retired /\ \A i \in known : decodeVolumeID(i).name # c.name
      [] c.op = "delete" -> c.id \in known \cup {Malformed}
      [] c.op = "publish" -> c.id \in known /\ Name(c) \notin retired

\* The gateway request a handler sends.
NamespaceAddReq(n) == [kind |-> "add", nqn |-> NqnOf[n], image |-> n]
\* Bug: the NSID of the volume id is not passed on.
DeleteFirstReq(i) == [kind |-> "del", nqn |-> i.nqn, nsid |-> 1, name |-> i.name]
NamespaceDeleteReq(i) ==
    [kind |-> "del", nqn |-> i.nqn, nsid |-> i.nsid, name |-> i.name]
ListNamespacesReq(i) == [kind |-> "list", nqn |-> i.nqn]

\* ControllerPublishVolume takes no lock and calls the gateway at once.
Arrive(t, c) ==
    /\ pc[t] = "idle"
    /\ COAllows(c)
    /\ call' = [call EXCEPT ![t] = c]
    /\ \/ c.op = "create" /\ Goto(t, "lock") /\ UNCHANGED <<req, retired>>
       \/ /\ c.op = "delete"
          /\ Goto(t, "decode")
          /\ retired' = IF c.id = Malformed THEN retired ELSE retired \cup {Name(c)}
          /\ UNCHANGED req
       \/ /\ c.op = "publish"
          /\ Goto(t, "await")
          /\ req' = [req EXCEPT ![t] = ListNamespacesReq(decodeVolumeID(c.id))]
          /\ UNCHANGED retired
    /\ UNCHANGED <<lock, resp, volume, found, gateway, known, faults, lost>>

\* DeleteVolume up to the lock: an id that does not decode is refused.
DecodeId(t) ==
    /\ pc[t] = "decode"
    /\ IF call[t].id = Malformed
       THEN Goto(t, "idle") /\ call' = [call EXCEPT ![t] = None]
       ELSE Goto(t, "lock") /\ UNCHANGED call
    /\ UNCHANGED <<lock, req, resp, volume, found, gateway, co, faults, lost>>

\* The volume name is locked and the gateway is called.
LockAndCall(t) ==
    /\ pc[t] = "lock"
    /\ Locks!Acquire(t, Name(call[t]))
    /\ req' = [req EXCEPT ![t] =
                  IF Op(t) = "create" THEN NamespaceAddReq(call[t].name)
                  ELSE NamespaceDeleteReq(decodeVolumeID(call[t].id))]
    /\ Goto(t, "await")
    /\ UNCHANGED <<call, resp, volume, found, gateway, co, faults, lost>>

Answered(t, op) == pc[t] = "await" /\ resp[t] # None /\ Op(t) = op

Consumed(t) ==
    /\ req' = [req EXCEPT ![t] = None]
    /\ resp' = [resp EXCEPT ![t] = None]
    /\ UNCHANGED <<call, lock, gateway, co, faults, lost>>

\* createVolume: the identifier of the namespace the gateway has made.
NewIdentifier(n, nsid) == [nsid |-> nsid, nqn |-> NqnOf[n], name |-> n]

\* Bug: the status in the gateway's answer is not looked at.
ReceiveAddUnchecked(t) ==
    /\ Answered(t, "create")
    /\ Goto(t, "ok")
    /\ volume' = [volume EXCEPT ![t] =
                      encodeVolumeID(NewIdentifier(call[t].name, resp[t].nsid))]
    /\ Consumed(t)
    /\ UNCHANGED found

\* createVolume after NamespaceAdd.
ReceiveAdd(t) ==
    /\ Answered(t, "create")
    /\ IF resp[t].status = 0
       THEN /\ Goto(t, "ok")
            /\ volume' = [volume EXCEPT ![t] =
                   encodeVolumeID(NewIdentifier(call[t].name, resp[t].nsid))]
       ELSE Goto(t, "err") /\ UNCHANGED volume
    /\ Consumed(t)
    /\ UNCHANGED found

\* Bug: the status in the gateway's answer is not looked at.
ReceiveDeleteUnchecked(t) ==
    /\ Answered(t, "delete")
    /\ Goto(t, "ok")
    /\ Consumed(t)
    /\ UNCHANGED <<volume, found>>

\* DeleteVolume after NamespaceDelete.
ReceiveDelete(t) ==
    /\ Answered(t, "delete")
    /\ Goto(t, IF resp[t].status = 0 THEN "ok" ELSE "err")
    /\ Consumed(t)
    /\ UNCHANGED <<volume, found>>

\* Bug: any namespace of the subsystem is taken for the volume's.
MatchesSubsystem(ns, i) == ns.nqn = i.nqn

\* ControllerPublishVolume's test: the namespace has the volume's image.
Matches(ns, i) == ns.image = i.name

\* ControllerPublishVolume after ListNamespaces, whose status is not looked
\* at: the uuid of the first namespace in the list that matches.
ReceiveList(t) ==
    /\ Answered(t, "publish")
    /\ LET hits == {ns \in resp[t].list : Matches(ns, decodeVolumeID(call[t].id))} IN
       \/ /\ \E ns \in hits : found' = [found EXCEPT ![t] = ns]
          /\ Goto(t, "ok")
       \/ hits = {} /\ Goto(t, "err") /\ UNCHANGED found
    /\ Consumed(t)
    /\ UNCHANGED volume

\* The context of the call ends first, after 5 s for an add or a delete, at
\* the CO's deadline for the list of ControllerPublishVolume, which passes its
\* own context on: the request is executed later or never, or it has been
\* and the answer is dropped.
Timeout(t) ==
    /\ pc[t] = "await"
    /\ Fault
    /\ late' = IF resp[t] = None THEN late \cup {<<faults', req[t]>>} ELSE late
    /\ req' = [req EXCEPT ![t] = None]
    /\ resp' = [resp EXCEPT ![t] = None]
    /\ Goto(t, "err")
    /\ lost' = TRUE
    /\ UNCHANGED <<call, lock, volume, found, namespaces, made, co>>

\* Bug: the name is unlocked on the success path only, not by a defer.
FinishLocked(t) ==
    /\ IF Op(t) = "publish" \/ pc[t] = "err" THEN UNCHANGED lock
                                            ELSE Locks!Release(t, Name(call[t]))
    /\ Goto(t, "idle")
    /\ call' = [call EXCEPT ![t] = None]
    /\ volume' = [volume EXCEPT ![t] = None]
    /\ found' = [found EXCEPT ![t] = None]
    /\ UNCHANGED <<req, resp, gateway, retired>>

\* The deferred unlock runs.
Finish(t) ==
    /\ IF Op(t) = "publish" THEN UNCHANGED lock
                            ELSE Locks!Release(t, Name(call[t]))
    /\ Goto(t, "idle")
    /\ call' = [call EXCEPT ![t] = None]
    /\ volume' = [volume EXCEPT ![t] = None]
    /\ found' = [found EXCEPT ![t] = None]
    /\ UNCHANGED <<req, resp, gateway, retired>>

\* The handler returns and the CO gets its answer.
Return(t) ==
    /\ pc[t] \in {"ok", "err"}
    /\ Finish(t)
    /\ known' = CASE pc[t] = "ok" /\ Op(t) = "create" -> known \cup {volume[t]}
                  [] pc[t] = "ok" /\ Op(t) = "delete" -> known \ {call[t].id}
                  [] OTHER -> known
    /\ UNCHANGED <<faults, lost>>

\* The handler returns after the CO has given up waiting.
ReturnUnheard(t) ==
    /\ pc[t] \in {"ok", "err"}
    /\ Fault
    /\ Finish(t)
    /\ lost' = TRUE
    /\ UNCHANGED known

\* The controller is killed and started again.  Requests it has sent stay.
Crash ==
    /\ Fault
    /\ Started
    /\ late' = late \cup {<<faults', req[t]>> :
                            t \in {u \in Threads : req[u] # None /\ resp[u] = None}}
    /\ lost' = TRUE
    /\ UNCHANGED <<namespaces, made, co>>

-----------------------------------------------------------------------------
(* The gateway (external).                                                 *)

\* The NSID for a new namespace: no request names one.
NewNsid(nqn) ==
    IF ReuseNsids
    THEN LET used == {ns.nsid : ns \in {x \in namespaces : x.nqn = nqn}}
         IN  CHOOSE n \in Nsids : n \notin used /\ \A m \in Nsids : m < n => m \in used
    ELSE made + 1

\* The answer to a request that cannot be served.
Refused == [status |-> 1, nsid |-> 0, list |-> {}]

\* namespace_add is refused at the gateway's limit of namespaces and, as the
\* controller never sets `force', for an image that is in use already.
CanAdd(r) ==
    /\ made < MaxAdds
    /\ AcceptDuplicates \/ \A ns \in namespaces : ns.image # r.image

\* namespace_delete removes what has this NSID now, whatever image that is.
Hit(r) == {ns \in namespaces : ns.nsid = r.nsid /\ ns.nqn = r.nqn}

Answer(r) ==
    CASE r.kind = "add" /\ CanAdd(r) ->
            [status |-> 0, nsid |-> NewNsid(r.nqn), list |-> {}]
      [] r.kind = "del" /\ Hit(r) # {} -> [status |-> 0, nsid |-> 0, list |-> {}]
      [] r.kind = "list" ->
            [status |-> 0, nsid |-> 0, list |-> {ns \in namespaces : ns.nqn = r.nqn}]
      [] OTHER -> Refused

Apply(r) ==
    \/ /\ r.kind = "add" /\ CanAdd(r)
       /\ made' = made + 1
       /\ namespaces' = namespaces \cup
             {[nsid |-> NewNsid(r.nqn), nqn |-> r.nqn, image |-> r.image,
               uuid |-> made + 1]}
    \/ r.kind = "del" /\ namespaces' = namespaces \ Hit(r) /\ UNCHANGED made
    \/ /\ r.kind = "list" \/ (r.kind = "add" /\ ~CanAdd(r))
       /\ UNCHANGED <<namespaces, made>>

Waiting(t) == pc[t] = "await" /\ resp[t] = None

\* The gateway serves the request of a waiting handler.
Serve(t) ==
    /\ Waiting(t)
    /\ Apply(req[t])
    /\ resp' = [resp EXCEPT ![t] = Answer(req[t])]
    /\ UNCHANGED <<pc, call, lock, req, volume, found, late, co, faults, lost>>

\* The gateway fails to serve it and says so.
ServeError(t) ==
    /\ Waiting(t)
    /\ Fault
    /\ resp' = [resp EXCEPT ![t] = Refused]
    /\ UNCHANGED <<pc, call, lock, req, volume, found, gateway, co, lost>>

\* The gateway serves a request after its sender has given up.
ServeLate(l) ==
    /\ l \in late
    /\ Apply(l[2])
    /\ late' = late \ {l}
    /\ UNCHANGED <<server, co, faults, lost>>

Receive(t) == ReceiveAdd(t) \/ ReceiveDelete(t) \/ ReceiveList(t)

Next ==
    \/ \E t \in Threads :
          \/ \E c \in Calls : Arrive(t, c)
          \/ DecodeId(t) \/ LockAndCall(t) \/ Receive(t) \/ Timeout(t)
          \/ Return(t) \/ ReturnUnheard(t) \/ Serve(t) \/ ServeError(t)
    \/ Crash
    \/ \E l \in late : ServeLate(l)

Spec == Init /\ [][Next]_vars

\* A handler does its next step; the gateway answers or the context of the
\* call ends (for ControllerPublishVolume: the deadline of the CO's request).
HandlerStep(t) ==
    DecodeId(t) \/ Serve(t) \/ Receive(t) \/ Timeout(t) \/ Return(t) \/ ReturnUnheard(t)

HandlerFairness ==
    \A t \in Threads : WF_vars(HandlerStep(t)) /\ SF_vars(LockAndCall(t))

\* The CO repeats a deletion until it is answered with success, whatever
\* else it asks for.
CORetries ==
    \A t \in Threads, i \in VolumeIds :
        SF_vars(decodeVolumeID(i).name \in retired
                /\ Arrive(t, [op |-> "delete", id |-> i]))

\* The CO repeats a creation until it is answered with success.
CreatesRetried ==
    \A n \in Names : SF_vars(\E t \in Threads : Arrive(t, [op |-> "create", name |-> n]))

FairSpec == Spec /\ HandlerFairness
CreateSpec == FairSpec /\ CreatesRetried
RetrySpec == FairSpec /\ CORetries

-----------------------------------------------------------------------------
(* Correctness.                                                            *)

Identifies(i, ns) ==
    ns.nsid = decodeVolumeID(i).nsid /\ ns.nqn = decodeVolumeID(i).nqn

\* A volume the CO has been given and has not asked to delete keeps its
\* namespace, with its image: no late, repeated or concurrent request for
\* another volume takes it away.
VolumesKept ==
    \A i \in known : decodeVolumeID(i).name \notin retired =>
        \E ns \in namespaces : Identifies(i, ns) /\ ns.image = decodeVolumeID(i).name

\* The gateway is never made to delete a namespace, one that the CO has no id
\* for included, before the CO has asked to delete the volume of its image.
NamespacesKept ==
    [][\A ns \in namespaces : ns \in namespaces' \/ ns.image \in retired']_vars

\* A namespace nobody will ever delete can only come from a lost answer, a
\* timeout or a crash: otherwise each belongs to a volume id the CO has or
\* is about to be given.
NoOrphans ==
    lost \/ \A ns \in namespaces :
        \/ \E i \in known : Identifies(i, ns)
        \/ \E t \in Threads :
              /\ pc[t] \in {"await", "ok"} /\ Op(t) = "create"
              /\ \/ resp[t] # None /\ resp[t].nsid = ns.nsid
                 \/ volume[t] # None /\ Identifies(volume[t], ns)

\* The uuid ControllerPublishVolume finds by image name is that of the
\* namespace the volume id names, although it takes no lock (unless the CO
\* has asked to delete the volume meanwhile).
PublishMatchesId ==
    \A t \in Threads : pc[t] = "ok" /\ Op(t) = "publish" =>
        Name(call[t]) \in retired \/ Identifies(call[t].id, found[t])

\* Every request is answered, unless the controller is killed meanwhile.
RequestsReturn == \A t \in Threads : pc[t] # "idle" ~> pc[t] = "idle"

\* The gateway's namespaces are used up, and volume n has none of them.
NoRoom(n) == made = MaxAdds /\ \A ns \in namespaces : ns.image # n

\* A volume the CO keeps asking for is handed out in the end, whatever other
\* requests do, however often the gateway answers with an error, and also when
\* it takes the last namespace.  Only a lost answer (a timeout, a crash) can
\* keep a volume that has its namespace from the CO for ever: the gateway
\* refuses to add the image again.
CreatesSucceed ==
    \A n \in Names :
        <>(\/ lost \/ n \in retired \/ NoRoom(n)
          \/ \E i \in known : decodeVolumeID(i).name = n)

\* A volume the CO wants deleted is reported deleted in the end.
DeletesSucceed ==
    \A i \in VolumeIds :
        (i \in known /\ decodeVolumeID(i).name \in retired) ~> (i \notin known)

-----------------------------------------------------------------------------
(* The inductive invariant, for a gateway that does not reuse NSIDs.       *)

\* NSID n of subsystem q has been given to volume v and to no other.
Owns(n, q, v) ==
    /\ n \in 1 .. made
    /\ \A ns \in namespaces : ns.nsid = n => ns.nqn = q /\ ns.image = v

\* The namespace is there as long as the CO has not asked to delete v.
Alive(n, q, v) ==
    v \in retired \/ \E ns \in namespaces : ns.nsid = n /\ ns.nqn = q /\ ns.image = v

Issued(i) == Owns(i[1], i[2], i[3]) /\ Alive(i[1], i[2], i[3])

NsidsUsed == \A ns \in namespaces : ns.nsid \in 1 .. made

OneNamespacePerImage ==
    AcceptDuplicates \/ \A x, y \in namespaces : x.image = y.image => x = y

\* A delete on its way is for a volume the CO wants gone, and names an NSID
\* that no other volume has.
DeleteOwn(r) ==
    r.kind = "del" => Owns(r.nsid, r.nqn, r.name) /\ r.name \in retired

\* The request a handler waits on.
RequestOf(t) ==
    CASE Op(t) = "create" -> NamespaceAddReq(call[t].name)
      [] Op(t) = "delete" -> NamespaceDeleteReq(decodeVolumeID(call[t].id))
      [] Op(t) = "publish" -> ListNamespacesReq(decodeVolumeID(call[t].id))

Knows(t) ==
    /\ pc[t] # "idle" => call[t] \in Calls
    /\ pc[t] \notin {"idle", "decode"} => Name(call[t]) \in Names
    /\ pc[t] = "decode" => Op(t) = "delete"
    /\ pc[t] # "idle" /\ Op(t) = "delete" /\ call[t].id # Malformed =>
          /\ Owns(call[t].id[1], call[t].id[2], call[t].id[3])
          /\ call[t].id[3] \in retired
    /\ pc[t] # "idle" /\ Op(t) = "delete" /\ pc[t] # "decode" => call[t].id # Malformed
    /\ pc[t] # "idle" /\ Op(t) = "publish" => Issued(call[t].id)
    /\ pc[t] = "lock" => Op(t) # "publish"
    /\ pc[t] = "await" => req[t] = RequestOf(t)
    /\ pc[t] # "await" => req[t] = None /\ resp[t] = None
    /\ pc[t] = "await" /\ Op(t) = "create" /\ resp[t] # None /\ resp[t].status = 0 =>
          /\ Owns(resp[t].nsid, NqnOf[call[t].name], call[t].name)
          /\ Alive(resp[t].nsid, NqnOf[call[t].name], call[t].name)
    /\ pc[t] = "await" /\ Op(t) = "publish" /\ resp[t] # None =>
          \A ns \in resp[t].list :
             ns.image = call[t].id[3] =>
                AcceptDuplicates \/ call[t].id[3] \in retired \/ Identifies(call[t].id, ns)
    /\ pc[t] = "ok" /\ Op(t) = "create" => volume[t] \in VolumeIds /\ Issued(volume[t])
    /\ pc[t] = "ok" /\ Op(t) = "publish" =>
          \/ AcceptDuplicates \/ call[t].id[3] \in retired
          \/ Identifies(call[t].id, found[t])

IInv ==
    /\ TypeOK
    /\ NsidsUsed
    /\ OneNamespacePerImage
    /\ \A i \in known : Issued(i)
    /\ \A l \in late : DeleteOwn(l[2])
    /\ \A t \in Threads : Knows(t)

\* Namespace ns is there until the CO has asked to delete its volume.
Kept(ns) == ns \in namespaces \/ ns.image \in retired

\* What ControllerPublishVolume has been told stays true until it answers: a
\* second invariant, kept by steps from states in IInv.
Looked(t) ==
    pc[t] # "idle" /\ Op(t) = "publish" =>
        /\ pc[t] = "await" /\ resp[t] # None => \A ns \in resp[t].list : Kept(ns)
        /\ pc[t] = "ok" => /\ found[t] \in Namespace
                           /\ Kept(found[t]) /\ found[t].image = Name(call[t])
=============================================================================
