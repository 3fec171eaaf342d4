------------------------ MODULE ControllerServerProofs ------------------------
(***************************************************************************)
(* The controller service for any set of volume names, goroutines and      *)
(* subsystems and any bounds, in front of a gateway that does not give an  *)
(* NSID out twice.  The invariant IInv follows every volume id and every   *)
(* delete request, waited for or not, to the one volume its NSID was made  *)
(* for.                                                                    *)
(***************************************************************************)
EXTENDS ControllerServer, TLAPS

\* What is known of an NSID or a volume id stays known.
Forward ==
    /\ retired \subseteq retired'
    /\ \A n, q, v :
          /\ n \in 1 .. made => n \in 1 .. made'
          /\ Owns(n, q, v) =>
                \A ns \in namespaces' : ns.nsid = n => ns.nqn = q /\ ns.image = v
          /\ Owns(n, q, v) /\ Alive(n, q, v) =>
                \/ v \in retired'
                \/ \E ns \in namespaces' : ns.nsid = n /\ ns.nqn = q /\ ns.image = v

LEMMA IdFacts ==
  /\ \A i \in VolumeIds : i[1] \in Nsids /\ i[2] \in Nqns /\ i[3] \in Names
  /\ \A i \in VolumeIds : /\ decodeVolumeID(i).nsid = i[1]
                          /\ decodeVolumeID(i).nqn = i[2]
                          /\ decodeVolumeID(i).name = i[3]
  /\ \A n \in Nsids, q \in Nqns, v \in Names : <<n, q, v>> \in VolumeIds
BY DEF VolumeIds, decodeVolumeID

LEMMA CallFacts ==
  ASSUME NEW c \in Calls
  PROVE  /\ c.op \in {"create", "delete", "publish"}
         /\ c.op = "create" => c.name \in Names /\ Name(c) = c.name
         /\ c.op = "delete" => c.id \in VolumeIds \cup {Malformed}
         /\ c.op = "publish" => c.id \in VolumeIds
         /\ c.op # "create" => Name(c) = c.id[3]
BY DEF Calls, Name, decodeVolumeID

\* The gateway serves a request: a delete only hits the volume it is for.
LEMMA ApplyForward ==
  ASSUME ~ReuseNsids, TypeOK, NsidsUsed, OneNamespacePerImage,
         NEW r \in Requests, DeleteOwn(r), Apply(r), retired' = retired
  PROVE  /\ Forward
         /\ namespaces' \subseteq Namespace /\ made' \in 0 .. MaxAdds
         /\ NsidsUsed' /\ OneNamespacePerImage'
<1> USE ControllerConstants
<1>1. CASE r.kind = "add" /\ CanAdd(r)
  <2> DEFINE new == [nsid |-> made + 1, nqn |-> r.nqn, image |-> r.image, uuid |-> made + 1]
  <2>1. made' = made + 1 /\ namespaces' = namespaces \cup {new} /\ made + 1 \in Nsids
    BY <1>1 DEF Apply, NewNsid, CanAdd, TypeOK, Nsids
  <2>2. new \in Namespace
    BY <1>1, <2>1 DEF Namespace, Requests
  <2>3. new.nsid = made + 1 /\ new.image = r.image
    OBVIOUS
  <2> HIDE DEF new
  <2>4. Forward
    BY <2>1, <2>3 DEF Forward, Owns, Alive, TypeOK
  <2>5. NsidsUsed' /\ OneNamespacePerImage'
    BY <1>1, <2>1, <2>3 DEF NsidsUsed, OneNamespacePerImage, CanAdd, TypeOK
  <2> QED
    BY <2>1, <2>2, <2>4, <2>5 DEF TypeOK, Nsids
<1>2. CASE r.kind = "del"
  <2>1. made' = made /\ namespaces' = namespaces \ Hit(r)
    BY <1>2 DEF Apply
  <2>2. \A ns \in Hit(r) : ns.image = r.name
    BY <1>2 DEF Hit, DeleteOwn, Owns
  <2>3. r.name \in retired
    BY <1>2 DEF DeleteOwn
  <2>4. Forward
    BY <2>1, <2>2, <2>3 DEF Forward, Owns, Alive
  <2>5. NsidsUsed' /\ OneNamespacePerImage'
    BY <2>1 DEF NsidsUsed, OneNamespacePerImage
  <2> QED
    BY <2>1, <2>4, <2>5 DEF TypeOK
<1>3. CASE UNCHANGED <<namespaces, made>>
  BY <1>3 DEF Forward, Owns, Alive, TypeOK, NsidsUsed, OneNamespacePerImage
<1> QED
  BY <1>1, <1>2, <1>3 DEF Apply

\* A step that leaves the gateway alone.
LEMMA IdleForward ==
  ASSUME UNCHANGED <<namespaces, made>>, retired \subseteq retired'
  PROVE  Forward
BY DEF Forward, Owns, Alive

\* What goroutine s knows survives the steps of others.
LEMMA KnowsFrame ==
  ASSUME TypeOK, NEW s \in Threads, Knows(s), Forward,
         pc'[s] = pc[s], call'[s] = call[s], req'[s] = req[s], resp'[s] = resp[s],
         volume'[s] = volume[s], found'[s] = found[s]
  PROVE  Knows(s)'
<1>1. ASSUME NEW n, NEW q, NEW v, Owns(n, q, v)
      PROVE  /\ n \in 1 .. made'
             /\ \A ns \in namespaces' : ns.nsid = n => ns.nqn = q /\ ns.image = v
  BY <1>1 DEF Forward, Owns
<1>2. ASSUME NEW n, NEW q, NEW v, Owns(n, q, v), Alive(n, q, v)
      PROVE  \/ v \in retired'
             \/ \E ns \in namespaces' : ns.nsid = n /\ ns.nqn = q /\ ns.image = v
  BY <1>2 DEF Forward
<1>3. retired \subseteq retired'
  BY DEF Forward
<1>4. /\ pc'[s] # "idle" => call'[s] \in Calls
      /\ pc'[s] \notin {"idle", "decode"} => Name(call'[s]) \in Names
      /\ pc'[s] = "decode" => Op(s)' = "delete"
      /\ pc'[s] # "idle" /\ Op(s)' = "delete" /\ pc'[s] # "decode" =>
            call'[s].id # Malformed
      /\ pc'[s] = "lock" => Op(s)' # "publish"
      /\ pc'[s] = "await" => req'[s] = RequestOf(s)'
      /\ pc'[s] # "await" => req'[s] = None /\ resp'[s] = None
  BY DEF Knows, Op, RequestOf
<1>5. pc'[s] # "idle" /\ Op(s)' = "delete" /\ call'[s].id # Malformed =>
          /\ Owns(call[s].id[1], call[s].id[2], call[s].id[3])'
          /\ call'[s].id[3] \in retired'
  BY <1>1, <1>3 DEF Knows, Op, Owns
<1>6. pc'[s] # "idle" /\ Op(s)' = "publish" => Issued(call[s].id)'
  <2> SUFFICES ASSUME pc[s] # "idle", Op(s) = "publish"
               PROVE  Issued(call[s].id)'
    BY DEF Op
  <2> DEFINE n == call[s].id[1]
             q == call[s].id[2]
             v == call[s].id[3]
  <2>1. Owns(n, q, v) /\ Alive(n, q, v)
    BY DEF Knows, Issued
  <2>2. /\ n \in 1 .. made'
        /\ \A ns \in namespaces' : ns.nsid = n => ns.nqn = q /\ ns.image = v
        /\ \/ v \in retired'
           \/ \E ns \in namespaces' : ns.nsid = n /\ ns.nqn = q /\ ns.image = v
    BY <1>1, <1>2, <2>1
  <2> QED
    BY <2>1, <2>2 DEF Owns, Alive, Issued
<1>7. pc'[s] = "await" /\ Op(s)' = "create" /\ resp'[s] # None /\ resp'[s].status = 0 =>
          /\ Owns(resp[s].nsid, NqnOf[call[s].name], call[s].name)'
          /\ Alive(resp[s].nsid, NqnOf[call[s].name], call[s].name)'
  <2> SUFFICES ASSUME pc[s] = "await", Op(s) = "create", resp[s] # None, resp[s].status = 0
               PROVE  /\ Owns(resp[s].nsid, NqnOf[call[s].name], call[s].name)'
                      /\ Alive(resp[s].nsid, NqnOf[call[s].name], call[s].name)'
    BY DEF Op
  <2> DEFINE n == resp[s].nsid
             q == NqnOf[call[s].name]
             v == call[s].name
  <2>1. Owns(n, q, v) /\ Alive(n, q, v)
    BY DEF Knows
  <2>2. /\ n \in 1 .. made'
        /\ \A ns \in namespaces' : ns.nsid = n => ns.nqn = q /\ ns.image = v
        /\ \/ v \in retired'
           \/ \E ns \in namespaces' : ns.nsid = n /\ ns.nqn = q /\ ns.image = v
    BY <1>1, <1>2, <2>1
  <2> QED
    BY <2>1, <2>2 DEF Owns, Alive
<1>8. pc'[s] = "await" /\ Op(s)' = "publish" /\ resp'[s] # None =>
          \A ns \in resp'[s].list :
             ns.image = call'[s].id[3] =>
                AcceptDuplicates \/ call'[s].id[3] \in retired' \/ Identifies(call[s].id, ns)'
  BY <1>3 DEF Knows, Op, Identifies
<1>9. pc'[s] = "ok" /\ Op(s)' = "create" => volume'[s] \in VolumeIds /\ Issued(volume[s])'
  <2> SUFFICES ASSUME pc[s] = "ok", Op(s) = "create"
               PROVE  volume[s] \in VolumeIds /\ Issued(volume[s])'
    BY DEF Op
  <2> DEFINE n == volume[s][1]
             q == volume[s][2]
             v == volume[s][3]
  <2>1. volume[s] \in VolumeIds /\ Owns(n, q, v) /\ Alive(n, q, v)
    BY DEF Knows, Issued
  <2>2. /\ n \in 1 .. made'
        /\ \A ns \in namespaces' : ns.nsid = n => ns.nqn = q /\ ns.image = v
        /\ \/ v \in retired'
           \/ \E ns \in namespaces' : ns.nsid = n /\ ns.nqn = q /\ ns.image = v
    BY <1>1, <1>2, <2>1
  <2> QED
    BY <2>1, <2>2 DEF Owns, Alive, Issued
<1>10. pc'[s] = "ok" /\ Op(s)' = "publish" =>
          \/ AcceptDuplicates \/ call'[s].id[3] \in retired'
          \/ Identifies(call[s].id, found[s])'
  BY <1>3 DEF Knows, Op, Identifies
<1> QED
  BY <1>4, <1>5, <1>6, <1>7, <1>8, <1>9, <1>10 DEF Knows

\* What is known of volume ids and late requests survives.
LEMMA RestFrame ==
  ASSUME IInv, Forward
  PROVE  /\ \A i \in known : Owns(i[1], i[2], i[3])' /\ Alive(i[1], i[2], i[3])'
         /\ \A l \in late : DeleteOwn(l[2])'
<1>1. ASSUME NEW i \in known PROVE Owns(i[1], i[2], i[3])' /\ Alive(i[1], i[2], i[3])'
  BY DEF IInv, Issued, Forward, Owns, Alive
<1>2. ASSUME NEW l \in late PROVE DeleteOwn(l[2])'
  BY DEF IInv, DeleteOwn, Forward, Owns
<1> QED
  BY <1>1, <1>2

\* Only goroutine t makes a step.
Others(t) ==
    \A s \in Threads \ {t} :
        /\ pc'[s] = pc[s] /\ call'[s] = call[s] /\ req'[s] = req[s]
        /\ resp'[s] = resp[s] /\ volume'[s] = volume[s] /\ found'[s] = found[s]

\* A step of the handler of goroutine t, or of the gateway on its behalf.
LEMMA HandlerIInv ==
  ASSUME IInv, NEW t \in Threads, Others(t), Forward,
         TypeOK', NsidsUsed', OneNamespacePerImage',
         Knows(t)',
         \A i \in known' : i \in known \/ Issued(i)',
         \A l \in late' : l \in late \/ DeleteOwn(l[2])'
  PROVE  IInv'
<1>1. ASSUME NEW s \in Threads PROVE Knows(s)'
  BY KnowsFrame DEF IInv, Others
<1>2. \A i \in known' : Issued(i)'
  BY RestFrame DEF Issued
<1>3. \A l \in late' : DeleteOwn(l[2])'
  BY RestFrame
<1> QED
  BY <1>1, <1>2, <1>3 DEF IInv

\* Such a step when it does not touch the gateway, the CO or the faults.
LEMMA LocalIInv ==
  ASSUME IInv, NEW t \in Threads, Others(t), TypeOK', Knows(t)',
         UNCHANGED <<gateway, known>>, retired \subseteq retired'
  PROVE  IInv'
<1>1. UNCHANGED <<late, namespaces, made, known>>
  BY DEF gateway
<1>2. Forward
  BY <1>1, IdleForward
<1>3. NsidsUsed' /\ OneNamespacePerImage'
  BY <1>1 DEF IInv, NsidsUsed, OneNamespacePerImage
<1> QED
  BY <1>1, <1>2, <1>3, HandlerIInv

LEMMA InitIInv == Init => IInv
<1> SUFFICES ASSUME Init PROVE IInv
  OBVIOUS
<1>1. TypeOK
  <2>1. lost \in BOOLEAN
    BY Zenon DEF Init
  <2> QED
    BY <2>1, ControllerConstants DEF Init, Locks!Init, TypeOK
<1>2. NsidsUsed /\ OneNamespacePerImage
  BY DEF Init, NsidsUsed, OneNamespacePerImage
<1>3. \A t \in Threads : Knows(t)
  BY DEF Init, Knows
<1> QED
  BY <1>1, <1>2, <1>3 DEF IInv, Init

LEMMA ArriveIInv ==
  ASSUME IInv, NEW t \in Threads, NEW c \in Calls, Arrive(t, c)
  PROVE  IInv'
<1> USE ControllerConstants
<1>1. /\ pc[t] = "idle" /\ COAllows(c)
      /\ call' = [call EXCEPT ![t] = c]
      /\ UNCHANGED <<lock, resp, volume, found, gateway, known, faults, lost>>
  BY DEF Arrive
<1>2. CASE c.op = "create"
  <2>1. /\ pc' = [pc EXCEPT ![t] = "lock"] /\ UNCHANGED <<req, retired>>
        /\ c.name \in Names /\ Name(c) = c.name
    BY <1>2, CallFacts DEF Arrive, Goto
  <2>2. TypeOK'
    BY <1>1, <2>1 DEF IInv, TypeOK, gateway
  <2>3. Others(t)
    BY <1>1, <2>1 DEF IInv, TypeOK, Others
  <2>4. Knows(t)'
    BY <1>1, <1>2, <2>1 DEF IInv, TypeOK, Knows, Op
  <2> QED
    BY <1>1, <2>1, <2>2, <2>3, <2>4, LocalIInv
<1>3. CASE c.op = "delete"
  <2>1. /\ pc' = [pc EXCEPT ![t] = "decode"] /\ UNCHANGED req
        /\ c.id \in VolumeIds \cup {Malformed}
        /\ c.id # Malformed => c.id \in known /\ c.id[3] \in Names /\ Name(c) = c.id[3]
        /\ retired' = IF c.id = Malformed THEN retired ELSE retired \cup {Name(c)}
    BY <1>1, <1>3, CallFacts, IdFacts DEF Arrive, Goto, COAllows
  <2>2. TypeOK'
    BY <1>1, <2>1 DEF IInv, TypeOK, gateway
  <2>3. Others(t)
    BY <1>1, <2>1 DEF IInv, TypeOK, Others
  <2>4. c.id # Malformed => Owns(c.id[1], c.id[2], c.id[3])
    BY <2>1 DEF IInv, Issued
  <2>5. c.id # Malformed => Owns(c.id[1], c.id[2], c.id[3])'
    BY <1>1, <2>4 DEF Owns, gateway
  <2>6. Knows(t)'
    BY <1>1, <1>3, <2>1, <2>5 DEF IInv, TypeOK, Knows, Op
  <2> QED
    BY <1>1, <2>1, <2>2, <2>3, <2>6, LocalIInv
<1>4. CASE c.op = "publish"
  <2>1. /\ pc' = [pc EXCEPT ![t] = "await"] /\ UNCHANGED retired
        /\ req' = [req EXCEPT ![t] = ListNamespacesReq(decodeVolumeID(c.id))]
        /\ c.id \in VolumeIds /\ c.id \in known
        /\ c.id[3] \in Names /\ c.id[2] \in Nqns /\ Name(c) = c.id[3]
        /\ decodeVolumeID(c.id).nqn = c.id[2]
    BY <1>1, <1>4, CallFacts, IdFacts DEF Arrive, Goto, COAllows
  <2>2. ListNamespacesReq(decodeVolumeID(c.id)) \in Requests
    BY <2>1 DEF ListNamespacesReq, Requests
  <2>3. TypeOK'
    BY <1>1, <2>1, <2>2 DEF IInv, TypeOK, gateway
  <2>4. Others(t)
    BY <1>1, <2>1 DEF IInv, TypeOK, Others
  <2>5. Issued(c.id)
    BY <2>1 DEF IInv
  <2>6. Issued(c.id)'
    BY <1>1, <2>1, <2>5 DEF Issued, Owns, Alive, gateway
  <2>7. resp[t] = None
    BY <1>1 DEF IInv, Knows
  <2>8. req'[t] = RequestOf(t)'
    BY <1>1, <1>4, <2>1 DEF IInv, TypeOK, RequestOf, Op
  <2>9. Knows(t)'
    BY <1>1, <1>4, <2>1, <2>6, <2>7, <2>8 DEF IInv, TypeOK, Knows, Op
  <2> QED
    BY <1>1, <2>1, <2>3, <2>4, <2>9, LocalIInv
<1> QED
  BY <1>2, <1>3, <1>4, CallFacts

LEMMA DecodeIdIInv ==
  ASSUME IInv, NEW t \in Threads, DecodeId(t)
  PROVE  IInv'
<1> USE ControllerConstants
<1>1. /\ pc[t] = "decode" /\ Op(t) = "delete" /\ call[t] \in Calls
      /\ req[t] = None /\ resp[t] = None
      /\ UNCHANGED <<lock, req, resp, volume, found, gateway, co, faults, lost>>
      /\ UNCHANGED <<known, retired, late, namespaces, made>>
  BY DEF IInv, Knows, DecodeId, co, gateway
<1>2. CASE call[t].id = Malformed
  <2>1. pc' = [pc EXCEPT ![t] = "idle"] /\ call' = [call EXCEPT ![t] = None]
    BY <1>2 DEF DecodeId, Goto
  <2>2. TypeOK' /\ Others(t)
    BY <1>1, <2>1 DEF IInv, TypeOK, Others
  <2>3. Knows(t)'
    BY <1>1, <2>1 DEF IInv, TypeOK, Knows
  <2> QED
    BY <1>1, <2>2, <2>3, LocalIInv
<1>3. CASE call[t].id # Malformed
  <2>1. pc' = [pc EXCEPT ![t] = "lock"] /\ call' = call
    BY <1>3 DEF DecodeId, Goto
  <2>2. TypeOK' /\ Others(t)
    BY <1>1, <2>1 DEF IInv, TypeOK, Others
  <2>3. /\ Owns(call[t].id[1], call[t].id[2], call[t].id[3])
        /\ call[t].id[3] \in retired
        /\ Name(call[t]) \in Names
    BY <1>1, <1>3, CallFacts, IdFacts DEF IInv, Knows, Op
  <2>4. Owns(call[t].id[1], call[t].id[2], call[t].id[3])'
    BY <1>1, <2>1, <2>3 DEF Owns
  <2>5. Knows(t)'
    BY <1>1, <1>3, <2>1, <2>3, <2>4 DEF IInv, TypeOK, Knows, Op
  <2> QED
    BY <1>1, <2>2, <2>5, LocalIInv
<1> QED
  BY <1>2, <1>3

LEMMA LockAndCallIInv ==
  ASSUME IInv, NEW t \in Threads, LockAndCall(t)
  PROVE  IInv'
<1> USE ControllerConstants
<1>1. /\ pc[t] = "lock" /\ call[t] \in Calls /\ resp[t] = None
      /\ Op(t) \in {"create", "delete"}
      /\ Op(t) = "delete" => call[t].id # Malformed
      /\ Name(call[t]) \in Names
      /\ lock' = [lock EXCEPT ![Name(call[t])] = t]
      /\ pc' = [pc EXCEPT ![t] = "await"]
      /\ UNCHANGED <<call, resp, volume, found, gateway, co, faults, lost>>
      /\ UNCHANGED <<known, retired, late, namespaces, made>>
  BY CallFacts DEF IInv, Knows, LockAndCall, Locks!Acquire, Goto, Op, co, gateway
<1>2. req' = [req EXCEPT ![t] = RequestOf(t)]
  BY <1>1 DEF LockAndCall, RequestOf
<1>3. RequestOf(t) \in Requests
  <2>1. CASE Op(t) = "create"
    BY <1>1, <2>1, CallFacts DEF RequestOf, NamespaceAddReq, Requests, Op
  <2>2. CASE Op(t) = "delete"
    <3>1. call[t].id \in VolumeIds
      BY <1>1, <2>2, CallFacts DEF Op
    <3>2. NamespaceDeleteReq(decodeVolumeID(call[t].id)) \in Requests
      BY <3>1, IdFacts DEF NamespaceDeleteReq, Requests
    <3> QED
      BY <2>2, <3>2 DEF RequestOf
  <2> QED
    BY <1>1, <2>1, <2>2
<1>4. TypeOK'
  BY <1>1, <1>2, <1>3 DEF IInv, TypeOK
<1>5. Others(t)
  BY <1>1, <1>2 DEF IInv, TypeOK, Others
<1>6. req'[t] = RequestOf(t)'
  BY <1>1, <1>2 DEF IInv, TypeOK, RequestOf, Op
<1>7. Op(t) = "delete" =>
         /\ Owns(call[t].id[1], call[t].id[2], call[t].id[3])
         /\ call[t].id[3] \in retired
  BY <1>1 DEF IInv, Knows
<1>8. Op(t) = "delete" =>
         /\ Owns(call[t].id[1], call[t].id[2], call[t].id[3])'
         /\ call'[t].id[3] \in retired'
  BY <1>1, <1>7 DEF Owns
<1>9. Knows(t)'
  BY <1>1, <1>6, <1>8 DEF IInv, TypeOK, Knows, Op
<1> QED
  BY <1>1, <1>4, <1>5, <1>9, LocalIInv

-----------------------------------------------------------------------------
(* The handlers look at the gateway's answer.                              *)

\* What all three have in common.
LEMMA AnsweredFacts ==
  ASSUME IInv, NEW t \in Threads, NEW op, Answered(t, op), Consumed(t)
  PROVE  /\ pc[t] = "await" /\ Op(t) = op /\ call[t] \in Calls
         /\ resp[t] # None /\ resp[t] \in Responses
         /\ req' = [req EXCEPT ![t] = None] /\ resp' = [resp EXCEPT ![t] = None]
         /\ UNCHANGED <<call, lock, gateway, co, faults, lost>>
         /\ UNCHANGED <<known, retired, late, namespaces, made>>
         /\ Name(call[t]) \in Names
BY DEF IInv, TypeOK, Knows, Answered, Consumed, gateway, co

LEMMA ReceiveAddIInv ==
  ASSUME IInv, NEW t \in Threads, ReceiveAdd(t)
  PROVE  IInv'
<1> USE ControllerConstants
<1> DEFINE n == call[t].name
           d == resp[t].nsid
<1>1. /\ pc[t] = "await" /\ Op(t) = "create" /\ call[t] \in Calls
      /\ resp[t] # None /\ resp[t] \in Responses
      /\ req' = [req EXCEPT ![t] = None] /\ resp' = [resp EXCEPT ![t] = None]
      /\ UNCHANGED <<call, lock, gateway, co, faults, lost>>
      /\ UNCHANGED <<known, retired, late, namespaces, made>>
      /\ Name(call[t]) \in Names
      /\ n \in Names /\ NqnOf[n] \in Nqns /\ UNCHANGED found
  BY AnsweredFacts, CallFacts DEF ReceiveAdd, Op
<1>2. CASE resp[t].status = 0
  <2>1. /\ pc' = [pc EXCEPT ![t] = "ok"]
        /\ volume' = [volume EXCEPT ![t] = <<d, NqnOf[n], n>>]
    BY <1>2 DEF ReceiveAdd, Goto, encodeVolumeID, NewIdentifier
  <2>2. Owns(d, NqnOf[n], n) /\ Alive(d, NqnOf[n], n)
    BY <1>1, <1>2 DEF IInv, Knows
  <2>3. d \in Nsids
    BY <2>2 DEF Owns, IInv, TypeOK, Nsids
  <2>4. <<d, NqnOf[n], n>> \in VolumeIds
    BY <1>1, <2>3, IdFacts
  <2>5. TypeOK'
    BY <1>1, <2>1, <2>4 DEF IInv, TypeOK
  <2>6. Others(t)
    BY <1>1, <2>1 DEF IInv, TypeOK, Others
  <2>7. volume'[t] = <<d, NqnOf[n], n>>
    BY <2>1 DEF IInv, TypeOK
  <2>8. Issued(volume[t])'
    BY <1>1, <2>2, <2>7 DEF Issued, Owns, Alive
  <2>9. Knows(t)'
    BY <1>1, <2>1, <2>4, <2>7, <2>8 DEF IInv, TypeOK, Knows, Op
  <2> QED
    BY <1>1, <2>5, <2>6, <2>9, LocalIInv
<1>3. CASE resp[t].status # 0
  <2>1. pc' = [pc EXCEPT ![t] = "err"] /\ UNCHANGED volume
    BY <1>3 DEF ReceiveAdd, Goto
  <2>2. TypeOK'
    BY <1>1, <2>1 DEF IInv, TypeOK
  <2>3. Others(t)
    BY <1>1, <2>1 DEF IInv, TypeOK, Others
  <2>4. Knows(t)'
    BY <1>1, <2>1 DEF IInv, TypeOK, Knows, Op
  <2> QED
    BY <1>1, <2>2, <2>3, <2>4, LocalIInv
<1> QED
  BY <1>2, <1>3

LEMMA ReceiveDeleteIInv ==
  ASSUME IInv, NEW t \in Threads, ReceiveDelete(t)
  PROVE  IInv'
<1>1. /\ pc[t] = "await" /\ Op(t) = "delete" /\ call[t] \in Calls
      /\ req' = [req EXCEPT ![t] = None] /\ resp' = [resp EXCEPT ![t] = None]
      /\ UNCHANGED <<call, lock, gateway, co, faults, lost>>
      /\ UNCHANGED <<known, retired, late, namespaces, made>>
      /\ Name(call[t]) \in Names /\ UNCHANGED <<volume, found>>
  BY AnsweredFacts DEF ReceiveDelete
<1>2. PICK l \in {"ok", "err"} : pc' = [pc EXCEPT ![t] = l]
  BY DEF ReceiveDelete, Goto
<1>3. TypeOK'
  BY <1>1, <1>2 DEF IInv, TypeOK
<1>4. Others(t)
  BY <1>1, <1>2 DEF IInv, TypeOK, Others
<1>5. /\ call[t].id # Malformed
      /\ Owns(call[t].id[1], call[t].id[2], call[t].id[3])
      /\ call[t].id[3] \in retired
  BY <1>1 DEF IInv, Knows
<1>6. Owns(call[t].id[1], call[t].id[2], call[t].id[3])'
  BY <1>1, <1>5 DEF Owns
<1>7. Knows(t)'
  BY <1>1, <1>2, <1>5, <1>6 DEF IInv, TypeOK, Knows, Op
<1> QED
  BY <1>1, <1>3, <1>4, <1>7, LocalIInv

LEMMA ReceiveListIInv ==
  ASSUME IInv, NEW t \in Threads, ReceiveList(t)
  PROVE  IInv'
<1>1. /\ pc[t] = "await" /\ Op(t) = "publish" /\ call[t] \in Calls
      /\ resp[t] # None /\ resp[t] \in Responses
      /\ req' = [req EXCEPT ![t] = None] /\ resp' = [resp EXCEPT ![t] = None]
      /\ UNCHANGED <<call, lock, gateway, co, faults, lost>>
      /\ UNCHANGED <<known, retired, late, namespaces, made>>
      /\ Name(call[t]) \in Names /\ UNCHANGED volume
  BY AnsweredFacts DEF ReceiveList
<1>2. decodeVolumeID(call[t].id).name = call[t].id[3]
  BY DEF decodeVolumeID
<1>3. Issued(call[t].id)
  BY <1>1 DEF IInv, Knows
<1>4. Issued(call[t].id)'
  BY <1>1, <1>3 DEF Issued, Owns, Alive
<1>5. CASE \E ns \in resp[t].list :
             /\ Matches(ns, decodeVolumeID(call[t].id))
             /\ found' = [found EXCEPT ![t] = ns] /\ Goto(t, "ok")
  <2>1. PICK ns \in resp[t].list :
           /\ ns.image = call[t].id[3]
           /\ found' = [found EXCEPT ![t] = ns] /\ pc' = [pc EXCEPT ![t] = "ok"]
    BY <1>2, <1>5 DEF Matches, Goto
  <2>2. ns \in Namespace
    BY <1>1 DEF Responses
  <2>3. TypeOK'
    BY <1>1, <2>1, <2>2 DEF IInv, TypeOK
  <2>4. Others(t)
    BY <1>1, <2>1 DEF IInv, TypeOK, Others
  <2>5. AcceptDuplicates \/ call[t].id[3] \in retired \/ Identifies(call[t].id, ns)
    BY <1>1, <2>1 DEF IInv, Knows
  <2>6. found'[t] = ns
    BY <2>1 DEF IInv, TypeOK
  <2>7. \/ AcceptDuplicates \/ call'[t].id[3] \in retired'
        \/ Identifies(call[t].id, found[t])'
    BY <1>1, <2>5, <2>6 DEF Identifies
  <2>8. Knows(t)'
    BY <1>1, <1>4, <2>1, <2>7 DEF IInv, TypeOK, Knows, Op
  <2> QED
    BY <1>1, <2>3, <2>4, <2>8, LocalIInv
<1>6. CASE Goto(t, "err") /\ UNCHANGED found
  <2>1. TypeOK'
    BY <1>1, <1>6 DEF IInv, TypeOK, Goto
  <2>2. Others(t)
    BY <1>1, <1>6 DEF IInv, TypeOK, Others, Goto
  <2>3. Knows(t)'
    BY <1>1, <1>4, <1>6 DEF IInv, TypeOK, Knows, Op, Goto
  <2> QED
    BY <1>1, <2>1, <2>2, <2>3, LocalIInv
<1> QED
  BY <1>5, <1>6 DEF ReceiveList

-----------------------------------------------------------------------------
(* Timeouts, answers and crashes.                                          *)

\* A request a handler waits on only deletes what is its own.
LEMMA WaitedDeleteOwn ==
  ASSUME IInv, NEW t \in Threads, pc[t] = "await"
  PROVE  req[t] \in Requests /\ DeleteOwn(req[t])
<1>1. /\ req[t] = RequestOf(t) /\ call[t] \in Calls
      /\ Op(t) \in {"create", "delete", "publish"}
      /\ Name(call[t]) \in Names
  BY CallFacts DEF IInv, Knows, Op
<1> USE ControllerConstants
<1>2. CASE Op(t) = "create"
  BY <1>1, <1>2, CallFacts DEF RequestOf, NamespaceAddReq, Requests, DeleteOwn, Op
<1>3. CASE Op(t) = "publish"
  BY <1>1, <1>3, CallFacts, IdFacts DEF RequestOf, ListNamespacesReq, Requests, DeleteOwn, Op
<1>4. CASE Op(t) = "delete"
  <2>1. /\ call[t].id \in VolumeIds
        /\ Owns(call[t].id[1], call[t].id[2], call[t].id[3])
        /\ call[t].id[3] \in retired
    BY <1>1, <1>4, CallFacts DEF IInv, Knows, Op
  <2>2. req[t] = [kind |-> "del", nqn |-> call[t].id[2], nsid |-> call[t].id[1],
                  name |-> call[t].id[3]]
    BY <1>1, <1>4, <2>1, IdFacts DEF RequestOf, NamespaceDeleteReq
  <2>3. req[t] \in Requests
    BY <2>1, <2>2, IdFacts DEF Requests
  <2> QED
    BY <2>1, <2>2, <2>3 DEF DeleteOwn
<1> QED
  BY <1>1, <1>2, <1>3, <1>4

LEMMA TimeoutIInv ==
  ASSUME IInv, NEW t \in Threads, Timeout(t)
  PROVE  IInv'
<1> USE ControllerConstants
<1>1. /\ pc[t] = "await" /\ call[t] \in Calls /\ Name(call[t]) \in Names
      /\ req' = [req EXCEPT ![t] = None] /\ resp' = [resp EXCEPT ![t] = None]
      /\ pc' = [pc EXCEPT ![t] = "err"] /\ lost' = TRUE
      /\ UNCHANGED <<call, lock, volume, found, namespaces, made, known, retired>>
      /\ faults' \in 1 .. MaxFaults
      /\ late' = IF resp[t] = None THEN late \cup {<<faults', req[t]>>} ELSE late
  BY DEF IInv, TypeOK, Knows, Timeout, Fault, Goto, co
<1>2. req[t] \in Requests /\ DeleteOwn(req[t])
  BY <1>1, WaitedDeleteOwn
<1>3. late' \subseteq (1 .. MaxFaults) \X Requests
  BY <1>1, <1>2 DEF IInv, TypeOK
<1>4. TypeOK'
  BY <1>1, <1>3 DEF IInv, TypeOK
<1>5. Others(t)
  BY <1>1 DEF IInv, TypeOK, Others
<1>6. Forward
  BY <1>1, IdleForward
<1>7. NsidsUsed' /\ OneNamespacePerImage'
  BY <1>1 DEF IInv, NsidsUsed, OneNamespacePerImage
<1>8. \A l \in late' : l \in late \/ DeleteOwn(l[2])'
  BY <1>1, <1>2 DEF DeleteOwn, Owns
<1>9. Op(t) = "delete" =>
         /\ Owns(call[t].id[1], call[t].id[2], call[t].id[3])
         /\ call[t].id[3] \in retired
  BY <1>1 DEF IInv, Knows
<1>10. Op(t) = "delete" => Owns(call[t].id[1], call[t].id[2], call[t].id[3])'
  BY <1>1, <1>9 DEF Owns
<1>11. Op(t) = "publish" => Issued(call[t].id)
  BY <1>1 DEF IInv, Knows
<1>12. Op(t) = "publish" => Issued(call[t].id)'
  BY <1>1, <1>11 DEF Issued, Owns, Alive
<1>13. Knows(t)'
  BY <1>1, <1>9, <1>10, <1>12 DEF IInv, TypeOK, Knows, Op
<1> QED
  BY <1>1, <1>4, <1>5, <1>6, <1>7, <1>8, <1>13, HandlerIInv

LEMMA ReturnIInv ==
  ASSUME IInv, NEW t \in Threads, Return(t) \/ ReturnUnheard(t)
  PROVE  IInv'
<1> USE ControllerConstants
<1>1. /\ pc[t] \in {"ok", "err"} /\ call[t] \in Calls /\ Name(call[t]) \in Names
      /\ req[t] = None /\ resp[t] = None
      /\ pc' = [pc EXCEPT ![t] = "idle"] /\ call' = [call EXCEPT ![t] = None]
      /\ volume' = [volume EXCEPT ![t] = None] /\ found' = [found EXCEPT ![t] = None]
      /\ UNCHANGED <<req, resp, late, namespaces, made, retired>>
      /\ lock' = lock \/ lock' = [lock EXCEPT ![Name(call[t])] = Free]
  BY DEF IInv, Knows, Return, ReturnUnheard, Finish, Locks!Release, Goto, gateway
<1>2. faults' \in 0 .. MaxFaults /\ lost' \in BOOLEAN
  <2>1. faults' \in 0 .. MaxFaults
    BY DEF IInv, TypeOK, Return, ReturnUnheard, Fault
  <2>2. lost' \in BOOLEAN
    BY Zenon DEF IInv, TypeOK, Return, ReturnUnheard
  <2> QED
    BY <2>1, <2>2
<1>3. \A i \in known' : i \in known \/ (pc[t] = "ok" /\ Op(t) = "create" /\ i = volume[t])
  BY DEF Return, ReturnUnheard
<1>4. pc[t] = "ok" /\ Op(t) = "create" => volume[t] \in VolumeIds /\ Issued(volume[t])
  BY DEF IInv, Knows
<1>5. \A i \in known' : i \in VolumeIds /\ Issued(i)
  BY <1>3, <1>4 DEF IInv, TypeOK
<1>6. \A i \in known' : Issued(i)'
  BY <1>1, <1>5 DEF Issued, Owns, Alive
<1>7. TypeOK'
  BY <1>1, <1>2, <1>5 DEF IInv, TypeOK
<1>8. Others(t)
  BY <1>1 DEF IInv, TypeOK, Others
<1>9. Forward
  BY <1>1, IdleForward
<1>10. NsidsUsed' /\ OneNamespacePerImage'
  BY <1>1 DEF IInv, NsidsUsed, OneNamespacePerImage
<1>11. Knows(t)'
  BY <1>1 DEF IInv, TypeOK, Knows
<1> QED
  BY <1>1, <1>6, <1>7, <1>8, <1>9, <1>10, <1>11, HandlerIInv

LEMMA CrashIInv ==
  ASSUME IInv, Crash
  PROVE  IInv'
<1> USE ControllerConstants
<1> DEFINE W == {u \in Threads : req[u] # None /\ resp[u] = None}
<1>1. /\ pc' = [t \in Threads |-> "idle"] /\ call' = [t \in Threads |-> None]
      /\ lock' = [n \in Names |-> Free]
      /\ req' = [t \in Threads |-> None] /\ resp' = [t \in Threads |-> None]
      /\ volume' = [t \in Threads |-> None] /\ found' = [t \in Threads |-> None]
      /\ UNCHANGED <<namespaces, made, known, retired>> /\ lost' = TRUE
      /\ faults' \in 1 .. MaxFaults
      /\ late' = late \cup {<<faults', req[t]>> : t \in W}
  BY DEF Crash, Started, Locks!Reset, Fault, IInv, TypeOK, co
<1>2. \A t \in W : req[t] \in Requests /\ DeleteOwn(req[t])
  BY WaitedDeleteOwn DEF IInv, Knows
<1>3. late' \subseteq (1 .. MaxFaults) \X Requests
  BY <1>1, <1>2 DEF IInv, TypeOK
<1>4. TypeOK'
  BY <1>1, <1>3 DEF IInv, TypeOK
<1>5. Forward
  BY <1>1, IdleForward
<1>6. NsidsUsed' /\ OneNamespacePerImage'
  BY <1>1 DEF IInv, NsidsUsed, OneNamespacePerImage
<1>7. \A t \in Threads : Knows(t)'
  BY <1>1 DEF Knows
<1>8. \A i \in known' : Issued(i)'
  BY <1>1, <1>5, RestFrame DEF Issued
<1>9. ASSUME NEW l \in late' PROVE DeleteOwn(l[2])'
  <2>1. CASE l \in late
    BY <1>5, <2>1, RestFrame
  <2>2. CASE l \notin late
    <3>1. PICK t \in W : l[2] = req[t]
      BY <1>1, <2>2
    <3> QED
      BY <1>1, <1>2, <3>1 DEF DeleteOwn, Owns
  <2> QED
    BY <2>1, <2>2
<1> QED
  BY <1>4, <1>6, <1>7, <1>8, <1>9 DEF IInv

-----------------------------------------------------------------------------
(* The gateway.                                                            *)

\* The answer to a request is about the state after it.
LEMMA AnswerFacts ==
  ASSUME ~ReuseNsids, IInv, NEW t \in Threads, pc[t] = "await", Apply(req[t])
  PROVE  /\ Answer(req[t]) \in Responses
         /\ Op(t) = "create" /\ Answer(req[t]).status = 0 =>
               /\ Answer(req[t]).nsid \in 1 .. made'
               /\ \A ns \in namespaces' : ns.nsid = Answer(req[t]).nsid =>
                     ns.nqn = NqnOf[call[t].name] /\ ns.image = call[t].name
               /\ \E ns \in namespaces' :
                     /\ ns.nsid = Answer(req[t]).nsid
                     /\ ns.nqn = NqnOf[call[t].name] /\ ns.image = call[t].name
         /\ Op(t) = "publish" => Answer(req[t]).list \subseteq namespaces
<1> USE ControllerConstants
<1> DEFINE r == req[t]
<1>1. /\ r \in Requests /\ r = RequestOf(t) /\ call[t] \in Calls
      /\ Op(t) \in {"create", "delete", "publish"}
  BY WaitedDeleteOwn, CallFacts DEF IInv, Knows, Op
<1>2. /\ namespaces \subseteq Namespace /\ made \in 0 .. MaxAdds
      /\ \A ns \in namespaces : ns.nsid \in 1 .. made
  BY DEF IInv, TypeOK, NsidsUsed
<1>3. CASE Op(t) = "create"
  <2>1. /\ r.kind = "add" /\ r.image = call[t].name /\ r.nqn = NqnOf[call[t].name]
        /\ r.image \in Names /\ r.nqn \in Nqns
    BY <1>1, <1>3, CallFacts DEF RequestOf, NamespaceAddReq, Op
  <2>2. CASE CanAdd(r)
    <3> DEFINE new == [nsid |-> made + 1, nqn |-> r.nqn, image |-> r.image, uuid |-> made + 1]
    <3>1. Answer(r) = [status |-> 0, nsid |-> made + 1, list |-> {}]
      BY <2>1, <2>2 DEF Answer, NewNsid
    <3>2. made' = made + 1 /\ namespaces' = namespaces \cup {new} /\ made + 1 \in Nsids
      BY <1>2, <2>1, <2>2 DEF Apply, NewNsid, CanAdd, Nsids
    <3>3. Answer(r) \in Responses
      BY <3>1, <3>2 DEF Responses
    <3>4. new.nsid = made + 1 /\ new.image = call[t].name /\ new.nqn = NqnOf[call[t].name]
      BY <2>1
    <3> HIDE DEF new
    <3>5. \A ns \in namespaces' : ns.nsid = made + 1 => ns = new
      BY <1>2, <3>2
    <3>6. made + 1 \in 1 .. made'
      BY <1>2, <3>2
    <3>7. Answer(r).nsid = made + 1
      BY <3>1
    <3>8. \A ns \in namespaces' : ns.nsid = Answer(r).nsid =>
             ns.nqn = NqnOf[call[t].name] /\ ns.image = call[t].name
      BY <3>4, <3>5, <3>7
    <3> QED
      BY <1>3, <3>2, <3>3, <3>4, <3>6, <3>7, <3>8
  <2>3. CASE ~CanAdd(r)
    <3>1. Answer(r) = Refused
      BY <2>1, <2>3 DEF Answer
    <3> QED
      BY <1>3, <3>1 DEF Refused, Responses
  <2> QED
    BY <2>2, <2>3
<1>4. CASE Op(t) = "delete"
  <2>1. r.kind = "del"
    BY <1>1, <1>4 DEF RequestOf, NamespaceDeleteReq
  <2>2. Answer(r) \in Responses
    BY <2>1 DEF Answer, Refused, Responses
  <2> QED
    BY <1>4, <2>2
<1>5. CASE Op(t) = "publish"
  <2>1. r.kind = "list"
    BY <1>1, <1>5 DEF RequestOf, ListNamespacesReq
  <2>2. Answer(r) = [status |-> 0, nsid |-> 0, list |-> {ns \in namespaces : ns.nqn = r.nqn}]
    BY <2>1 DEF Answer
  <2>3. Answer(r) \in Responses
    BY <1>2, <2>2 DEF Responses
  <2> QED
    BY <1>5, <2>2, <2>3
<1> QED
  BY <1>1, <1>3, <1>4, <1>5

\* What goroutine t knows when an answer a to its request arrives.
LEMMA AnsweredKnows ==
  ASSUME IInv, NEW t \in Threads, Waiting(t), Forward, NEW a,
         UNCHANGED <<pc, call, req, volume, found, retired>>,
         resp' = [resp EXCEPT ![t] = a],
         Op(t) = "create" /\ a.status = 0 =>
            /\ a.nsid \in 1 .. made'
            /\ \A ns \in namespaces' : ns.nsid = a.nsid =>
                  ns.nqn = NqnOf[call[t].name] /\ ns.image = call[t].name
            /\ \E ns \in namespaces' :
                  /\ ns.nsid = a.nsid
                  /\ ns.nqn = NqnOf[call[t].name] /\ ns.image = call[t].name,
         Op(t) = "publish" =>
            \A ns \in a.list : ns.image = call[t].id[3] =>
               AcceptDuplicates \/ call[t].id[3] \in retired \/ Identifies(call[t].id, ns)
  PROVE  Knows(t)'
<1>1. /\ pc'[t] = "await" /\ resp'[t] = a /\ call'[t] \in Calls
      /\ Name(call'[t]) \in Names /\ req'[t] = RequestOf(t)'
  BY DEF Waiting, IInv, TypeOK, Knows, RequestOf, Op
<1>2. Op(t) = "delete" =>
         /\ call[t].id # Malformed
         /\ Owns(call[t].id[1], call[t].id[2], call[t].id[3])
         /\ call[t].id[3] \in retired
  BY DEF Waiting, IInv, Knows
<1>3. Op(t) = "delete" => Owns(call[t].id[1], call[t].id[2], call[t].id[3])'
  BY <1>2 DEF Forward, Owns
<1>4. Op(t) = "publish" => Issued(call[t].id)
  BY DEF Waiting, IInv, Knows
<1>5. Op(t) = "publish" => Issued(call[t].id)'
  BY <1>4 DEF Forward, Issued, Owns, Alive
<1>6. Op(t) = "create" /\ resp'[t].status = 0 =>
         /\ Owns(resp[t].nsid, NqnOf[call[t].name], call[t].name)'
         /\ Alive(resp[t].nsid, NqnOf[call[t].name], call[t].name)'
  BY <1>1 DEF Owns, Alive
<1>7. Op(t) = "publish" =>
         \A ns \in resp'[t].list : ns.image = call'[t].id[3] =>
            AcceptDuplicates \/ call'[t].id[3] \in retired' \/ Identifies(call[t].id, ns)'
  BY <1>1 DEF Identifies
<1> QED
  BY <1>1, <1>2, <1>3, <1>5, <1>6, <1>7 DEF Knows, Op

LEMMA ServeIInv ==
  ASSUME ~ReuseNsids, IInv, NEW t \in Threads, Serve(t)
  PROVE  IInv'
<1> USE ControllerConstants
<1> PICK a : a = Answer(req[t])
  OBVIOUS
<1>1. /\ Waiting(t) /\ pc[t] = "await" /\ Apply(req[t])
      /\ resp' = [resp EXCEPT ![t] = a]
      /\ UNCHANGED <<pc, call, lock, req, volume, found, late, known, retired, faults, lost>>
  BY DEF Serve, Waiting, co
<1>2. req[t] \in Requests /\ DeleteOwn(req[t])
  BY <1>1, WaitedDeleteOwn
<1>3. /\ Forward /\ namespaces' \subseteq Namespace /\ made' \in 0 .. MaxAdds
      /\ NsidsUsed' /\ OneNamespacePerImage'
  BY <1>1, <1>2, ApplyForward DEF IInv
<1>4. /\ a \in Responses
      /\ Op(t) = "create" /\ a.status = 0 =>
            /\ a.nsid \in 1 .. made'
            /\ \A ns \in namespaces' : ns.nsid = a.nsid =>
                  ns.nqn = NqnOf[call[t].name] /\ ns.image = call[t].name
            /\ \E ns \in namespaces' :
                  /\ ns.nsid = a.nsid
                  /\ ns.nqn = NqnOf[call[t].name] /\ ns.image = call[t].name
      /\ Op(t) = "publish" => a.list \subseteq namespaces
  BY <1>1, AnswerFacts
<1>5. TypeOK'
  BY <1>1, <1>3, <1>4 DEF IInv, TypeOK
<1>6. Others(t)
  BY <1>1 DEF IInv, TypeOK, Others
<1>7. ASSUME Op(t) = "publish", NEW ns \in a.list, ns.image = call[t].id[3]
      PROVE  AcceptDuplicates \/ call[t].id[3] \in retired \/ Identifies(call[t].id, ns)
  <2>1. Issued(call[t].id)
    BY <1>1, <1>7 DEF IInv, Knows
  <2>2. ns \in namespaces
    BY <1>4, <1>7
  <2> QED
    BY <1>7, <2>1, <2>2 DEF Issued, Alive, IInv, OneNamespacePerImage, Identifies, decodeVolumeID
<1>8. Knows(t)'
  BY <1>1, <1>3, <1>4, <1>7, AnsweredKnows
<1> QED
  BY <1>1, <1>3, <1>5, <1>6, <1>8, HandlerIInv

LEMMA ServeErrorIInv ==
  ASSUME IInv, NEW t \in Threads, ServeError(t)
  PROVE  IInv'
<1> USE ControllerConstants
<1> PICK a : a = Refused
  OBVIOUS
<1>1. /\ Waiting(t) /\ resp' = [resp EXCEPT ![t] = a]
      /\ UNCHANGED <<pc, call, lock, req, volume, found, late, namespaces, made>>
      /\ UNCHANGED <<known, retired, lost>> /\ faults' \in 0 .. MaxFaults
  BY DEF ServeError, Fault, co, gateway, IInv, TypeOK
<1>2. a \in Responses /\ a.status = 1 /\ a.list = {}
  BY DEF Refused, Responses
<1>3. TypeOK'
  BY <1>1, <1>2 DEF IInv, TypeOK
<1>4. Others(t)
  BY <1>1 DEF IInv, TypeOK, Others
<1>5. Forward
  BY <1>1, IdleForward
<1>6. Knows(t)'
  <2>1. UNCHANGED <<pc, call, req, volume, found, retired>>
    BY <1>1
  <2>2. a.status # 0 /\ \A ns \in a.list : FALSE
    BY <1>2
  <2> QED
    BY <1>1, <1>5, <2>1, <2>2, AnsweredKnows
<1>7. UNCHANGED <<gateway, known>>
  BY <1>1 DEF gateway
<1> QED
  BY <1>1, <1>3, <1>4, <1>6, <1>7, LocalIInv

LEMMA ServeLateIInv ==
  ASSUME ~ReuseNsids, IInv, NEW l \in late, ServeLate(l)
  PROVE  IInv'
<1>1. /\ Apply(l[2]) /\ late' = late \ {l}
      /\ UNCHANGED <<pc, call, lock, req, resp, volume, found, known, retired, faults, lost>>
  BY DEF ServeLate, server, co
<1>2. l[2] \in Requests /\ DeleteOwn(l[2])
  BY DEF IInv, TypeOK
<1>3. /\ Forward /\ namespaces' \subseteq Namespace /\ made' \in 0 .. MaxAdds
      /\ NsidsUsed' /\ OneNamespacePerImage'
  BY <1>1, <1>2, ApplyForward DEF IInv
<1>4. TypeOK'
  BY <1>1, <1>3 DEF IInv, TypeOK
<1>5. ASSUME NEW s \in Threads PROVE Knows(s)'
  BY <1>1, <1>3, KnowsFrame DEF IInv
<1>6. \A i \in known' : Issued(i)'
  BY <1>1, <1>3, RestFrame DEF Issued
<1>7. \A m \in late' : DeleteOwn(m[2])'
  BY <1>1, <1>3, RestFrame
<1> QED
  BY <1>3, <1>4, <1>5, <1>6, <1>7 DEF IInv

LEMMA StutterIInv ==
  ASSUME IInv, UNCHANGED vars
  PROVE  IInv'
<1>1. /\ UNCHANGED <<pc, call, lock, req, resp, volume, found, late, namespaces, made>>
      /\ UNCHANGED <<known, retired, faults, lost>>
  BY DEF vars, server, gateway, co
<1>2. Forward
  BY <1>1, IdleForward
<1>3. TypeOK' /\ NsidsUsed' /\ OneNamespacePerImage'
  BY <1>1 DEF IInv, TypeOK, NsidsUsed, OneNamespacePerImage
<1>4. ASSUME NEW s \in Threads PROVE Knows(s)'
  BY <1>1, <1>2, KnowsFrame DEF IInv
<1>5. (\A i \in known' : Issued(i)') /\ (\A l \in late' : DeleteOwn(l[2])')
  BY <1>1, <1>2, RestFrame DEF Issued
<1> QED
  BY <1>3, <1>4, <1>5 DEF IInv

LEMMA NextIInv ==
  ASSUME ~ReuseNsids, IInv, [Next]_vars
  PROVE  IInv'
<1>1. ASSUME NEW t \in Threads, NEW c \in Calls, Arrive(t, c) PROVE IInv'
  BY <1>1, ArriveIInv
<1>2. ASSUME NEW t \in Threads, DecodeId(t) PROVE IInv'
  BY <1>2, DecodeIdIInv
<1>3. ASSUME NEW t \in Threads, LockAndCall(t) PROVE IInv'
  BY <1>3, LockAndCallIInv
<1>4. ASSUME NEW t \in Threads, Receive(t) PROVE IInv'
  BY <1>4, ReceiveAddIInv, ReceiveDeleteIInv, ReceiveListIInv DEF Receive
<1>5. ASSUME NEW t \in Threads, Timeout(t) PROVE IInv'
  BY <1>5, TimeoutIInv
<1>6. ASSUME NEW t \in Threads, Return(t) \/ ReturnUnheard(t) PROVE IInv'
  BY <1>6, ReturnIInv
<1>7. ASSUME NEW t \in Threads, Serve(t) PROVE IInv'
  BY <1>7, ServeIInv
<1>8. ASSUME NEW t \in Threads, ServeError(t) PROVE IInv'
  BY <1>8, ServeErrorIInv
<1>9. CASE Crash
  BY <1>9, CrashIInv
<1>10. ASSUME NEW l \in late, ServeLate(l) PROVE IInv'
  BY <1>10, ServeLateIInv
<1>11. CASE UNCHANGED vars
  BY <1>11, StutterIInv
<1> QED
  BY <1>1, <1>2, <1>3, <1>4, <1>5, <1>6, <1>7, <1>8, <1>9, <1>10, <1>11 DEF Next

-----------------------------------------------------------------------------

\* In front of a gateway that never gives an NSID out twice, the controller's
\* status checks and volume ids keep IInv: each id and each delete on its way
\* names an NSID made for its volume, whatever times out, is repeated or
\* arrives late.  The lock on the volume name is not needed for this.
THEOREM Invariance ==
  ASSUME ~ReuseNsids
  PROVE  Spec => []IInv
<1>1. Init => IInv
  BY InitIInv
<1>2. IInv /\ [Next]_vars => IInv'
  BY NextIInv
<1> QED
  BY <1>1, <1>2, PTL DEF Spec

\* Type correctness of the controller's and the gateway's state.
THEOREM TypeCorrect ==
  ASSUME ~ReuseNsids
  PROVE  Spec => []TypeOK
<1>1. IInv => TypeOK
  BY DEF IInv
<1> QED
  BY <1>1, Invariance, PTL

\* A volume handed to the CO keeps its namespace and image until the CO asks
\* to delete it, for every interleaving of handlers, timeouts and restarts.
THEOREM VolumesAreKept ==
  ASSUME ~ReuseNsids
  PROVE  Spec => []VolumesKept
<1>1. IInv => VolumesKept
  BY IdFacts DEF IInv, TypeOK, Issued, Alive, VolumesKept, Identifies
<1> QED
  BY <1>1, Invariance, PTL

\* The lockless lookup by image name in ControllerPublishVolume finds the
\* volume's own namespace, when the gateway also refuses a second namespace
\* for an image.
THEOREM PublishFindsTheVolume ==
  ASSUME ~ReuseNsids, ~AcceptDuplicates
  PROVE  Spec => []PublishMatchesId
<1>1. IInv => PublishMatchesId
  <2> SUFFICES ASSUME IInv, NEW t \in Threads, pc[t] = "ok", Op(t) = "publish"
               PROVE  Name(call[t]) \in retired \/ Identifies(call[t].id, found[t])
    BY DEF PublishMatchesId
  <2>1. Name(call[t]) = call[t].id[3]
    BY CallFacts DEF IInv, Knows, Op
  <2> QED
    BY <2>1 DEF IInv, Knows
<1> QED
  BY <1>1, Invariance, PTL

-----------------------------------------------------------------------------
(* No namespace is forgotten as long as no answer is lost.                 *)

\* The handler of goroutine t has heard of namespace ns and will name it.
OwnerAt(t, ns) ==
    /\ pc[t] \in {"await", "ok"} /\ Op(t) = "create"
    /\ \/ resp[t] # None /\ resp[t].nsid = ns.nsid
       \/ volume[t] # None /\ Identifies(volume[t], ns)

Owned(ns) == (\E i \in known : Identifies(i, ns)) \/ (\E t \in Threads : OwnerAt(t, ns))

\* A handler has a volume id only once the gateway has answered, an answer with
\* an error status names no namespace, and a handler that has been told of its
\* deletion, or tells the CO so, is right.
Honest(t) ==
    /\ pc[t] # "ok" => volume[t] = None
    /\ resp[t] # None /\ resp[t].status # 0 => resp[t].nsid = 0
    /\ Op(t) = "delete" /\ \/ pc[t] = "ok"
                           \/ pc[t] = "await" /\ resp[t] # None /\ resp[t].status = 0
          => \A ns \in namespaces : ~Identifies(call[t].id, ns)

OInv ==
    /\ late = {} \/ lost
    /\ \A t \in Threads : Honest(t)
    /\ NoOrphans

LEMMA NoOrphansMeans == NoOrphans <=> (lost \/ \A ns \in namespaces : Owned(ns))
BY DEF NoOrphans, Owned, OwnerAt

\* The gateway makes namespaces only with a new NSID.
LEMMA ApplyNew ==
  ASSUME ~ReuseNsids, NEW r, Apply(r)
  PROVE  \A ns \in namespaces' :
            ns \in namespaces \/ (r.kind = "add" /\ CanAdd(r) /\ ns.nsid = made + 1)
BY DEF Apply, NewNsid

LEMMA HonestFrame ==
  ASSUME IInv, NEW s \in Threads, Honest(s),
         pc'[s] = pc[s], call'[s] = call[s], resp'[s] = resp[s], volume'[s] = volume[s],
         \A ns \in namespaces' : ns \in namespaces \/ ns.nsid = made + 1
  PROVE  Honest(s)'
<1>1. ASSUME Op(s) = "delete", pc[s] \in {"ok", "await"}, NEW ns \in namespaces',
             ns \notin namespaces
      PROVE  ~Identifies(call[s].id, ns)
  <2>1. call[s] \in Calls /\ call[s].id # Malformed /\ Owns(call[s].id[1], call[s].id[2], call[s].id[3])
    BY <1>1 DEF IInv, Knows
  <2>2. call[s].id[1] \in 1 .. made /\ made \in Nat /\ ns.nsid = made + 1
    BY <1>1, <2>1, ControllerConstants DEF Owns, IInv, TypeOK
  <2> QED
    BY <2>2 DEF Identifies, decodeVolumeID
<1>2. ASSUME Op(s) = "delete",
             \/ pc[s] = "ok"
             \/ pc[s] = "await" /\ resp[s] # None /\ resp[s].status = 0,
             NEW ns \in namespaces'
      PROVE  ~Identifies(call[s].id, ns)
  BY <1>1, <1>2 DEF Honest
<1>3. /\ pc[s] # "ok" => volume[s] = None
      /\ resp[s] # None /\ resp[s].status # 0 => resp[s].nsid = 0
  BY DEF Honest
<1> QED
  BY <1>2, <1>3 DEF Honest, Op, Identifies

\* Steps in which only goroutine t moves.
LEMMA OwnedFrame ==
  ASSUME NEW t \in Threads, Others(t), NEW ns, Owned(ns), ~OwnerAt(t, ns),
         \A i \in known : Identifies(i, ns) => i \in known'
  PROVE  Owned(ns)'
<1>1. CASE \E i \in known : Identifies(i, ns)
  BY <1>1 DEF Owned, Identifies
<1>2. CASE \E s \in Threads : OwnerAt(s, ns)
  <2>1. PICK s \in Threads \ {t} : OwnerAt(s, ns)
    BY <1>2
  <2>2. OwnerAt(s, ns)'
    BY <2>1 DEF OwnerAt, Others, Op, Identifies
  <2> QED
    BY <2>2 DEF Owned
<1> QED
  BY <1>1, <1>2 DEF Owned

\* Such a step, when it leaves the gateway alone and loses nothing.
LEMMA LocalOInv ==
  ASSUME IInv, OInv, NEW t \in Threads, Others(t), Honest(t)',
         UNCHANGED <<late, namespaces, lost>>,
         \A ns \in namespaces : OwnerAt(t, ns) => Owned(ns)',
         \A ns \in namespaces, i \in known : Identifies(i, ns) => i \in known'
  PROVE  OInv'
<1>1. ASSUME NEW s \in Threads PROVE Honest(s)'
  BY HonestFrame DEF OInv, Others
<1>2. ASSUME ~lost, NEW ns \in namespaces PROVE Owned(ns)'
  BY <1>2, OwnedFrame, NoOrphansMeans DEF OInv
<1>3. late' = {} \/ lost'
  BY Zenon DEF OInv
<1>4. lost' \/ \A ns \in namespaces' : Owned(ns)'
  BY <1>2
<1>5. NoOrphans'
  BY <1>4 DEF NoOrphans, Owned, OwnerAt
<1> QED
  BY <1>1, <1>3, <1>5 DEF OInv

\* Goroutines that are not past the lock own nothing yet.
LEMMA EarlyOInv ==
  ASSUME IInv, OInv, NEW t \in Threads,
         (\E c \in Calls : Arrive(t, c)) \/ DecodeId(t) \/ LockAndCall(t)
  PROVE  OInv'
<1>1. /\ pc \in [Threads -> {"idle", "decode", "lock", "await", "ok", "err"}]
      /\ call \in [Threads -> Calls \cup {None}] /\ req \in [Threads -> Requests \cup {None}]
  BY DEF IInv, TypeOK
<1>2. /\ pc[t] \in {"idle", "decode", "lock"} /\ pc'[t] \in {"idle", "decode", "lock", "await"}
      /\ UNCHANGED <<resp, volume, found, late, namespaces, known, lost>>
      /\ Others(t)
  BY <1>1 DEF Arrive, DecodeId, LockAndCall, Goto, gateway, co, Others
<1>3. resp[t] = None
  BY <1>2 DEF IInv, Knows
<1>4. Honest(t)'
  BY <1>2, <1>3 DEF OInv, Honest
<1>5. \A ns : ~OwnerAt(t, ns)
  BY <1>2 DEF OwnerAt
<1> QED
  BY <1>2, <1>4, <1>5, LocalOInv

LEMMA ReceiveOInv ==
  ASSUME IInv, OInv, NEW t \in Threads, Receive(t)
  PROVE  OInv'
<1>1. /\ pc \in [Threads -> {"idle", "decode", "lock", "await", "ok", "err"}]
      /\ req \in [Threads -> Requests \cup {None}] /\ resp \in [Threads -> Responses \cup {None}]
      /\ volume \in [Threads -> VolumeIds \cup {None}]
      /\ found \in [Threads -> Namespace \cup {None}]
  BY DEF IInv, TypeOK
<1>2. /\ pc[t] = "await" /\ resp[t] # None /\ pc'[t] \in {"ok", "err"}
      /\ resp' = [resp EXCEPT ![t] = None]
      /\ UNCHANGED <<call, late, namespaces, known, lost>>
      /\ Others(t)
  BY <1>1 DEF Receive, ReceiveAdd, ReceiveDelete, ReceiveList, Answered, Consumed, Goto,
              gateway, co, Others
<1>3. CASE ReceiveAdd(t)
  <2>1. Op(t) = "create" /\ call[t].name \in Names
    BY <1>2, <1>3, CallFacts DEF ReceiveAdd, Answered, IInv, Knows, Op
  <2>2. Honest(t)'
    BY <1>1, <1>2, <1>3, <2>1 DEF OInv, Honest, Op, ReceiveAdd, Goto
  <2>3. ASSUME NEW ns \in namespaces, OwnerAt(t, ns) PROVE OwnerAt(t, ns)'
    <3>1. ns.nsid \in 1 .. made /\ made \in Nat
      BY ControllerConstants DEF IInv, NsidsUsed, TypeOK
    <3>2. CASE resp[t].nsid = ns.nsid
      <4>1. resp[t].status = 0
        BY <1>2, <3>1, <3>2 DEF OInv, Honest
      <4>2. ns.nqn = NqnOf[call[t].name]
        BY <1>2, <2>1, <3>2, <4>1 DEF IInv, Knows, Owns
      <4>3. pc'[t] = "ok" /\ volume'[t] = <<resp[t].nsid, NqnOf[call[t].name], call[t].name>>
        BY <1>1, <1>3, <4>1 DEF ReceiveAdd, Goto, encodeVolumeID, NewIdentifier
      <4>4. Identifies(volume'[t], ns)
        BY <3>2, <4>2, <4>3 DEF Identifies, decodeVolumeID
      <4>5. volume'[t] # None
        BY <1>1, <2>1, <3>1, <3>2, <4>3, NoneIsNothing, ControllerConstants, IdFacts
           DEF Nsids, IInv, TypeOK
      <4> QED
        BY <1>2, <2>1, <4>3, <4>4, <4>5 DEF OwnerAt, Op, Identifies
    <3>3. CASE resp[t].nsid # ns.nsid
      BY <1>2, <2>3, <3>3 DEF OwnerAt, OInv, Honest
    <3> QED
      BY <3>2, <3>3
  <2> QED
    BY <1>2, <2>2, <2>3, LocalOInv DEF Owned
<1>4. CASE ReceiveDelete(t) \/ ReceiveList(t)
  <2>1. Op(t) \in {"delete", "publish"} /\ Op(t)' = Op(t)
    BY <1>2, <1>4 DEF ReceiveDelete, ReceiveList, Answered, Op
  <2>2. Op(t) = "delete" /\ pc'[t] = "ok" => resp[t].status = 0
    BY <1>1, <1>4 DEF ReceiveDelete, ReceiveList, Answered, Goto
  <2>3. Honest(t)'
    BY <1>1, <1>2, <1>4, <2>1, <2>2
       DEF OInv, Honest, Identifies, ReceiveDelete, ReceiveList
  <2>4. \A ns : ~OwnerAt(t, ns)
    BY <2>1 DEF OwnerAt
  <2> QED
    BY <1>2, <2>3, <2>4, LocalOInv
<1> QED
  BY <1>3, <1>4 DEF Receive

LEMMA ReturnOInv ==
  ASSUME IInv, OInv, NEW t \in Threads, Return(t)
  PROVE  OInv'
<1>1. /\ pc \in [Threads -> {"idle", "decode", "lock", "await", "ok", "err"}]
      /\ call \in [Threads -> Calls \cup {None}]
      /\ volume \in [Threads -> VolumeIds \cup {None}]
      /\ found \in [Threads -> Namespace \cup {None}]
  BY DEF IInv, TypeOK
<1>2. /\ pc[t] \in {"ok", "err"} /\ pc'[t] = "idle"
      /\ UNCHANGED <<resp, late, namespaces, lost>> /\ volume'[t] = None
      /\ Others(t)
  BY <1>1 DEF Return, Finish, Goto, gateway, Others
<1>3. resp[t] = None /\ Op(t) \in {"create", "delete", "publish"}
  BY <1>2, CallFacts DEF IInv, Knows, Op
<1>4. Honest(t)'
  BY <1>2, <1>3 DEF Honest
<1>5. ASSUME NEW ns \in namespaces, OwnerAt(t, ns) PROVE Owned(ns)'
  <2>1. pc[t] = "ok" /\ Op(t) = "create" /\ Identifies(volume[t], ns)
    BY <1>2, <1>3, <1>5 DEF OwnerAt
  <2>2. volume[t] \in known'
    BY <2>1 DEF Return
  <2> QED
    BY <2>1, <2>2 DEF Owned, Identifies
<1>6. ASSUME NEW ns \in namespaces, NEW i \in known, Identifies(i, ns) PROVE i \in known'
  <2>1. CASE pc[t] = "ok" /\ Op(t) = "delete"
    <3>1. known' = known \ {call[t].id}
      BY <2>1 DEF Return
    <3>2. ~Identifies(call[t].id, ns)
      BY <2>1 DEF OInv, Honest
    <3> QED
      BY <1>6, <3>1, <3>2
  <2>2. CASE ~(pc[t] = "ok" /\ Op(t) = "delete")
    BY <2>2 DEF Return
  <2> QED
    BY <2>1, <2>2
<1> QED
  BY <1>2, <1>4, <1>5, <1>6, LocalOInv

LEMMA ServeOInv ==
  ASSUME ~ReuseNsids, IInv, OInv, NEW t \in Threads, Serve(t)
  PROVE  OInv'
<1> PICK a : a = Answer(req[t])
  OBVIOUS
<1>1. /\ Waiting(t) /\ pc[t] = "await" /\ resp[t] = None /\ Apply(req[t])
      /\ resp' = [resp EXCEPT ![t] = a] /\ resp \in [Threads -> Responses \cup {None}]
      /\ UNCHANGED <<pc, call, req, volume, found, late, known, retired, lost>>
      /\ Others(t)
  BY DEF Serve, Waiting, co, Others, IInv, TypeOK
<1>2. /\ req[t] = RequestOf(t) /\ call[t] \in Calls
      /\ Op(t) \in {"create", "delete", "publish"}
  BY <1>1, CallFacts DEF IInv, Knows, Op
<1>3. /\ Op(t) = "create" => req[t].kind = "add"
      /\ Op(t) = "delete" =>
            /\ req[t].kind = "del"
            /\ req[t].nsid = decodeVolumeID(call[t].id).nsid
            /\ req[t].nqn = decodeVolumeID(call[t].id).nqn
      /\ Op(t) = "publish" => req[t].kind = "list"
  BY <1>2 DEF RequestOf, NamespaceAddReq, NamespaceDeleteReq, ListNamespacesReq
<1>4. /\ a.status # 0 => a.nsid = 0
      /\ req[t].kind = "add" /\ CanAdd(req[t]) => a.nsid = made + 1
      /\ a # None
  <2>1. a \in Responses
    BY <1>1, AnswerFacts
  <2>2. CASE req[t].kind = "add" /\ CanAdd(req[t])
    BY <2>1, <2>2, NoneIsNothing DEF Answer, NewNsid
  <2>3. CASE req[t].kind = "add" /\ ~CanAdd(req[t])
    BY <2>1, <2>3, NoneIsNothing DEF Answer, Refused
  <2>4. CASE req[t].kind = "del"
    BY <2>1, <2>4, NoneIsNothing DEF Answer, Refused
  <2>5. CASE req[t].kind = "list"
    BY <2>1, <2>5, NoneIsNothing DEF Answer
  <2> QED
    BY <1>2, <1>3, <2>2, <2>3, <2>4, <2>5
<1>5. \A ns \in namespaces' :
         ns \in namespaces \/ (req[t].kind = "add" /\ CanAdd(req[t]) /\ ns.nsid = made + 1)
  BY <1>1, ApplyNew
<1>6. ASSUME NEW s \in Threads, s # t PROVE Honest(s)'
  BY <1>1, <1>5, <1>6, HonestFrame DEF OInv, Others
<1>7. Honest(t)'
  <2>1. ASSUME Op(t) = "delete", NEW ns \in namespaces' PROVE ~Identifies(call[t].id, ns)
    <3>1. namespaces' = namespaces \ Hit(req[t])
      BY <1>1, <1>3, <2>1 DEF Apply
    <3> QED
      BY <1>3, <2>1, <3>1 DEF Hit, Identifies
  <2>2. resp'[t] = a /\ Op(t)' = Op(t) /\ call'[t] = call[t]
    BY <1>1 DEF Op
  <2> QED
    BY <1>1, <1>4, <2>1, <2>2 DEF OInv, Honest, Identifies
<1>8. ASSUME ~lost, NEW ns \in namespaces' PROVE Owned(ns)'
  <2>1. CASE ns \in namespaces
    <3>1. Owned(ns)
      BY <1>8, <2>1, NoOrphansMeans DEF OInv
    <3>2. CASE OwnerAt(t, ns)
      <4>1. OwnerAt(t, ns)'
        BY <1>1, <3>2 DEF OwnerAt, Op, Identifies
      <4> QED
        BY <4>1 DEF Owned
    <3>3. CASE ~OwnerAt(t, ns)
      BY <1>1, <3>1, <3>3, OwnedFrame
    <3> QED
      BY <3>2, <3>3
  <2>2. CASE ns \notin namespaces
    <3>1. req[t].kind = "add" /\ CanAdd(req[t]) /\ ns.nsid = made + 1
      BY <1>5, <1>8, <2>2
    <3>2. Op(t) = "create" /\ a.nsid = ns.nsid
      BY <1>2, <1>3, <1>4, <3>1
    <3>3. OwnerAt(t, ns)'
      BY <1>1, <1>4, <3>2 DEF OwnerAt, Op
    <3> QED
      BY <3>3 DEF Owned
  <2> QED
    BY <2>1, <2>2
<1>9. NoOrphans'
  <2>1. lost' \/ \A ns \in namespaces' : Owned(ns)'
    BY <1>1, <1>8
  <2> QED
    BY <2>1 DEF NoOrphans, Owned, OwnerAt
<1>10. late' = {} \/ lost'
  BY <1>1, Zenon DEF OInv
<1> QED
  BY <1>6, <1>7, <1>9, <1>10 DEF OInv

LEMMA ServeErrorOInv ==
  ASSUME IInv, OInv, NEW t \in Threads, ServeError(t)
  PROVE  OInv'
<1>1. /\ pc[t] = "await" /\ resp[t] = None
      /\ resp' = [resp EXCEPT ![t] = Refused] /\ resp \in [Threads -> Responses \cup {None}]
      /\ UNCHANGED <<pc, call, req, volume, found, late, namespaces, known, lost>>
      /\ Others(t)
  BY DEF ServeError, Waiting, co, gateway, Others, IInv, TypeOK
<1>2. Honest(t)'
  BY <1>1 DEF OInv, Honest, Refused
<1>3. ASSUME NEW ns, OwnerAt(t, ns) PROVE OwnerAt(t, ns)'
  BY <1>1, <1>3 DEF OwnerAt, Op, Identifies
<1> QED
  BY <1>1, <1>2, <1>3, LocalOInv DEF Owned

\* Steps after which an answer counts as lost.
LEMMA LosingOInv ==
  ASSUME IInv, OInv, Crash \/ \E t \in Threads : Timeout(t) \/ ReturnUnheard(t)
  PROVE  OInv'
<1>1. lost'
  BY Zenon DEF Crash, Timeout, ReturnUnheard
<1>2. namespaces' = namespaces
  BY DEF Crash, Timeout, ReturnUnheard, Finish, gateway
<1>3. ASSUME NEW s \in Threads PROVE Honest(s)'
  <2>1. CASE Crash
    BY <2>1 DEF Crash, Started, Honest
  <2>2. ASSUME NEW t \in Threads, Timeout(t) \/ ReturnUnheard(t) PROVE Honest(s)'
    <3>1. /\ pc \in [Threads -> {"idle", "decode", "lock", "await", "ok", "err"}]
          /\ call \in [Threads -> Calls \cup {None}]
          /\ resp \in [Threads -> Responses \cup {None}]
          /\ volume \in [Threads -> VolumeIds \cup {None}]
      BY DEF IInv, TypeOK
    <3>2. CASE s = t
      <4>1. pc[t] # "await" => resp[t] = None
        BY DEF IInv, Knows
      <4> QED
        BY <2>2, <3>1, <3>2, <4>1 DEF OInv, Timeout, ReturnUnheard, Finish, Goto, Honest
    <3>3. CASE s # t
      <4>1. /\ pc'[s] = pc[s] /\ call'[s] = call[s]
            /\ resp'[s] = resp[s] /\ volume'[s] = volume[s]
        BY <2>2, <3>1, <3>3 DEF Timeout, ReturnUnheard, Finish, Goto
      <4> QED
        BY <1>2, <4>1, HonestFrame DEF OInv
    <3> QED
      BY <3>2, <3>3
  <2> QED
    BY <2>1, <2>2
<1> QED
  BY <1>1, <1>3 DEF OInv, NoOrphans

LEMMA ServeLateOInv ==
  ASSUME ~ReuseNsids, IInv, OInv, NEW l \in late, ServeLate(l)
  PROVE  OInv'
<1>1. lost
  BY Zenon DEF OInv
<1>2. Apply(l[2]) /\ UNCHANGED <<pc, call, resp, volume, lost>>
  BY DEF ServeLate, server
<1>3. lost'
  BY <1>1, <1>2, Zenon
<1>4. ASSUME NEW s \in Threads PROVE Honest(s)'
  BY <1>2, ApplyNew, HonestFrame DEF OInv
<1> QED
  BY <1>3, <1>4 DEF OInv, NoOrphans

LEMMA StutterOInv ==
  ASSUME OInv, UNCHANGED vars
  PROVE  OInv'
BY DEF vars, server, gateway, co, OInv, Honest, NoOrphans, Op, Identifies

LEMMA NextOInv ==
  ASSUME ~ReuseNsids, IInv, OInv, [Next]_vars
  PROVE  OInv'
<1>1. ASSUME NEW t \in Threads,
             (\E c \in Calls : Arrive(t, c)) \/ DecodeId(t) \/ LockAndCall(t)
      PROVE  OInv'
  BY <1>1, EarlyOInv
<1>2. ASSUME NEW t \in Threads, Receive(t) \/ Return(t) \/ Serve(t) \/ ServeError(t)
      PROVE  OInv'
  BY <1>2, ReceiveOInv, ReturnOInv, ServeOInv, ServeErrorOInv
<1>3. CASE Crash \/ \E t \in Threads : Timeout(t) \/ ReturnUnheard(t)
  BY <1>3, LosingOInv
<1>4. ASSUME NEW l \in late, ServeLate(l) PROVE OInv'
  BY <1>4, ServeLateOInv
<1>5. CASE UNCHANGED vars
  BY <1>5, StutterOInv
<1> QED
  BY <1>1, <1>2, <1>3, <1>4, <1>5 DEF Next

\* As long as no answer of the gateway or of the controller is lost, every
\* namespace the gateway has belongs to a volume id that the CO has or that a
\* CreateVolume in progress is about to return: failed, repeated and
\* overlapping requests leave none behind.
THEOREM NothingIsForgotten ==
  ASSUME ~ReuseNsids
  PROVE  Spec => []NoOrphans
<1>1. Init => OInv
  BY DEF Init, OInv, Honest, NoOrphans
<1>2. IInv /\ OInv /\ [Next]_vars => OInv'
  BY NextOInv
<1>3. OInv => NoOrphans
  BY DEF OInv
<1> QED
  BY <1>1, <1>2, <1>3, Invariance, PTL DEF Spec

-----------------------------------------------------------------------------
(* Namespaces stay, and so does what ControllerPublishVolume has read.     *)

LEMMA ApplyKeeps ==
  ASSUME NEW r, DeleteOwn(r), Apply(r)
  PROVE  \A ns \in namespaces : ns \in namespaces' \/ ns.image \in retired
<1>1. CASE r.kind = "del"
  <2>1. \A ns \in Hit(r) : ns.image = r.name
    BY <1>1 DEF Hit, DeleteOwn, Owns
  <2> QED
    BY <1>1, <2>1 DEF Apply, DeleteOwn
<1>2. CASE r.kind # "del"
  BY <1>2 DEF Apply
<1> QED
  BY <1>1, <1>2

LEMMA NextKeeps ==
  ASSUME IInv, [Next]_vars
  PROVE  /\ retired \subseteq retired'
         /\ \A ns \in namespaces : ns \in namespaces' \/ ns.image \in retired'
<1>1. CASE \E t \in Threads : Serve(t)
  <2>1. PICK t \in Threads : Apply(req[t]) /\ pc[t] = "await" /\ retired' = retired
    BY <1>1 DEF Serve, Waiting, co
  <2> QED
    BY <2>1, WaitedDeleteOwn, ApplyKeeps
<1>2. CASE \E l \in late : ServeLate(l)
  <2>1. PICK l \in late : Apply(l[2]) /\ retired' = retired
    BY <1>2 DEF ServeLate, co
  <2>2. DeleteOwn(l[2])
    BY DEF IInv
  <2> QED
    BY <2>1, <2>2, ApplyKeeps
<1>3. CASE \E t \in Threads, c \in Calls : Arrive(t, c)
  BY <1>3 DEF Arrive, gateway
<1>4. CASE \E t \in Threads : DecodeId(t) \/ LockAndCall(t) \/ Receive(t) \/ ServeError(t)
  BY <1>4 DEF DecodeId, LockAndCall, Receive, ReceiveAdd, ReceiveDelete, ReceiveList,
              Consumed, ServeError, gateway, co
<1>5. CASE Crash \/ \E t \in Threads : Timeout(t) \/ Return(t) \/ ReturnUnheard(t)
  BY <1>5 DEF Crash, Timeout, Return, ReturnUnheard, Finish, gateway, co
<1>6. CASE UNCHANGED vars
  BY <1>6 DEF vars, gateway, co
<1> QED
  BY <1>1, <1>2, <1>3, <1>4, <1>5, <1>6 DEF Next

LEMMA LookedFrame ==
  ASSUME IInv, [Next]_vars, NEW s \in Threads, Looked(s),
         pc'[s] = pc[s], call'[s] = call[s], resp'[s] = resp[s], found'[s] = found[s]
  PROVE  Looked(s)'
BY NextKeeps DEF Looked, Kept, Op

LEMMA OthersLooked ==
  ASSUME IInv, [Next]_vars, \A s \in Threads : Looked(s), NEW t \in Threads, Others(t),
         Looked(t)'
  PROVE  \A s \in Threads : Looked(s)'
BY LookedFrame DEF Others

\* Steps after which goroutine t is not waiting for an answer with a list.
LEMMA NotLooking ==
  ASSUME IInv, NEW t \in Threads,
         \/ \E c \in Calls : Arrive(t, c)
         \/ DecodeId(t) \/ LockAndCall(t) \/ ReceiveAdd(t) \/ ReceiveDelete(t)
         \/ Timeout(t) \/ Return(t) \/ ReturnUnheard(t)
  PROVE  Others(t) /\ Looked(t)'
<1>1. /\ pc \in [Threads -> {"idle", "decode", "lock", "await", "ok", "err"}]
      /\ call \in [Threads -> Calls \cup {None}] /\ req \in [Threads -> Requests \cup {None}]
      /\ resp \in [Threads -> Responses \cup {None}]
      /\ volume \in [Threads -> VolumeIds \cup {None}]
      /\ found \in [Threads -> Namespace \cup {None}]
  BY DEF IInv, TypeOK
<1>2. pc[t] # "await" => resp[t] = None
  BY DEF IInv, Knows
<1>3. CASE \E c \in Calls : Arrive(t, c)
  BY <1>1, <1>2, <1>3 DEF Arrive, Goto, Others, Looked
<1>4. CASE DecodeId(t)
  BY <1>1, <1>4 DEF DecodeId, Goto, Others, Looked
<1>5. CASE LockAndCall(t)
  BY <1>1, <1>2, <1>5 DEF LockAndCall, Goto, Others, Looked
<1>6. CASE ReceiveAdd(t) \/ ReceiveDelete(t)
  BY <1>1, <1>6
     DEF ReceiveAdd, ReceiveDelete, Answered, Consumed, Goto, Others, Looked, Op
<1>7. CASE Timeout(t)
  BY <1>1, <1>7 DEF Timeout, Goto, Others, Looked
<1>8. CASE Return(t) \/ ReturnUnheard(t)
  BY <1>1, <1>8 DEF Return, ReturnUnheard, Finish, Goto, Others, Looked
<1> QED
  BY <1>3, <1>4, <1>5, <1>6, <1>7, <1>8

\* The gateway answers goroutine t, or fails to.
LEMMA ServeLooked ==
  ASSUME ~ReuseNsids, IInv, NEW t \in Threads, Serve(t) \/ ServeError(t)
  PROVE  Others(t) /\ Looked(t)'
<1>1. resp \in [Threads -> Responses \cup {None}] /\ pc[t] = "await"
  BY DEF IInv, TypeOK, Serve, ServeError, Waiting
<1>2. Others(t)
  BY <1>1 DEF Serve, ServeError, Others
<1>3. /\ UNCHANGED <<pc, call, found, retired>>
      /\ \/ Serve(t) /\ resp'[t] = Answer(req[t])
         \/ resp'[t] = Refused
  BY <1>1 DEF Serve, ServeError, co
<1>4. ASSUME Op(t) = "publish", Serve(t), resp'[t] = Answer(req[t])
      PROVE  resp'[t].list \subseteq namespaces'
  <2>1. req[t] = RequestOf(t)
    BY <1>1 DEF IInv, Knows
  <2>2. req[t].kind = "list"
    BY <1>4, <2>1 DEF RequestOf, ListNamespacesReq
  <2>3. Apply(req[t])
    BY <1>4 DEF Serve
  <2>4. namespaces' = namespaces
    BY <2>2, <2>3 DEF Apply
  <2> QED
    BY <1>1, <1>4, <2>3, <2>4, AnswerFacts
<1>5. Looked(t)'
  BY <1>1, <1>3, <1>4 DEF Looked, Kept, Op, Refused
<1> QED
  BY <1>2, <1>5

LEMMA ReceiveListLooked ==
  ASSUME IInv, NEW t \in Threads, Looked(t), ReceiveList(t)
  PROVE  Others(t) /\ Looked(t)'
<1>1. /\ pc \in [Threads -> {"idle", "decode", "lock", "await", "ok", "err"}]
      /\ found \in [Threads -> Namespace \cup {None}]
      /\ req \in [Threads -> Requests \cup {None}]
      /\ resp \in [Threads -> Responses \cup {None}]
  BY DEF IInv, TypeOK
<1>2. /\ pc[t] = "await" /\ Op(t) = "publish" /\ call[t] \in Calls
      /\ resp[t] # None /\ resp[t] \in Responses
      /\ UNCHANGED <<call, namespaces, retired>>
  BY AnsweredFacts DEF ReceiveList
<1>3. Name(call[t]) = decodeVolumeID(call[t].id).name
  BY <1>2 DEF Name, Op
<1>4. Others(t)
  BY <1>1 DEF ReceiveList, Consumed, Goto, Others
<1>5. \/ \E ns \in resp[t].list : /\ ns.image = Name(call[t])
                                   /\ found'[t] = ns /\ pc'[t] = "ok"
      \/ pc'[t] = "err"
  BY <1>1, <1>3 DEF ReceiveList, Goto, Matches
<1>6. \A ns \in resp[t].list : ns \in Namespace /\ Kept(ns)
  BY <1>2 DEF Looked, Responses
<1>7. Looked(t)'
  BY <1>2, <1>5, <1>6 DEF Looked, Kept, Op
<1> QED
  BY <1>4, <1>7

LEMMA NextLooked ==
  ASSUME ~ReuseNsids, IInv, [Next]_vars, \A t \in Threads : Looked(t)
  PROVE  \A t \in Threads : Looked(t)'
<1>1. ASSUME NEW t \in Threads,
             \/ \E c \in Calls : Arrive(t, c)
             \/ DecodeId(t) \/ LockAndCall(t) \/ Receive(t) \/ Timeout(t)
             \/ Return(t) \/ ReturnUnheard(t) \/ Serve(t) \/ ServeError(t)
      PROVE  \A s \in Threads : Looked(s)'
  <2>1. Others(t) /\ Looked(t)'
    BY <1>1, NotLooking, ServeLooked, ReceiveListLooked DEF Receive
  <2> QED
    BY <2>1, OthersLooked
<1>2. CASE Crash
  BY <1>2 DEF Crash, Started, Looked
<1>3. CASE \E l \in late : ServeLate(l)
  BY <1>3, LookedFrame DEF ServeLate, server
<1>4. CASE UNCHANGED vars
  BY <1>4, LookedFrame DEF vars, server
<1> QED
  BY <1>1, <1>2, <1>3, <1>4 DEF Next

\* Whatever is on its way, late or repeated, the gateway deletes only
\* namespaces of images whose deletion the CO has asked for.
THEOREM NamespacesAreKept ==
  ASSUME ~ReuseNsids
  PROVE  Spec => NamespacesKept
<1>1. IInv /\ [Next]_vars =>
        [\A ns \in namespaces : ns \in namespaces' \/ ns.image \in retired']_vars
  BY NextKeeps
<1> QED
  BY <1>1, Invariance, PTL DEF Spec, NamespacesKept

\* The namespace whose uuid ControllerPublishVolume answers with is one of the
\* volume's image and still there when it answers, unless the CO has asked to
\* delete the volume: also if images may have several namespaces.
THEOREM PublishAnswersCurrent ==
  ASSUME ~ReuseNsids
  PROVE  Spec => [](\A t \in Threads : Looked(t))
<1>1. Init => \A t \in Threads : Looked(t)
  BY DEF Init, Looked
<1>2. IInv /\ (\A t \in Threads : Looked(t)) /\ [Next]_vars
        => (\A t \in Threads : Looked(t))'
  BY NextLooked
<1> QED
  BY <1>1, <1>2, Invariance, PTL DEF Spec
=============================================================================
