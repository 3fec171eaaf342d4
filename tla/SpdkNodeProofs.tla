--------------------------- MODULE SpdkNodeProofs ---------------------------
(***************************************************************************)
(* The SPDK storage node for any names, goroutines and number of volumes.  *)
(* A subsystem is only ever touched by the one call that uses its volume,  *)
(* so each step is checked against that volume alone (StepIInv).           *)
(***************************************************************************)
EXTENDS SpdkNode, TLAPS

\* Only goroutine t makes a step, inside its call.
Inside(t) ==
    /\ pc[t] # "idle" /\ pc'[t] # "idle"
    /\ \A s \in Threads \ {t} : pc'[s] = pc[s]
    /\ call' = call

\* The step leaves the other volumes alone.
Alone(t) ==
    /\ broken \subseteq broken' /\ spdk.made <= spdk'.made
    /\ \A v \in Ids : ~Using(t, v) =>
          /\ v \in spdk'.subsystems <=> v \in spdk.subsystems
          /\ v \in spdk'.ns <=> v \in spdk.ns
          /\ v \in spdk'.listeners <=> v \in spdk.listeners
          /\ v \in spdk.subsystems /\ spdk'.name[v] # None => spdk.name[v] # None

\* What the step must show of the volume it works on.
Own(t) ==
    \A v \in spdk'.subsystems : Using(t, v) =>
        \/ v \in broken' \/ spdk'.name[v] = None \/ pc'[t] \in Between
        \/ v \in spdk'.ns /\ v \in spdk'.listeners

LEMMA CallFacts ==
  ASSUME NEW c \in Calls
  PROVE  /\ c.op \in {"create", "clone", "snapshot", "info", "publish", "unpublish", "delete"}
         /\ c.op # "create" => c.vol \in Ids
         /\ c.op \in {"create", "clone", "snapshot"} => c.name \in Names
BY DEF Calls

LEMMA TargetFacts ==
  ASSUME TypeOK
  PROVE  /\ spdk.name \in [Ids -> Names \cup {None}] /\ spdk.made \in 0 .. MaxLvols
         /\ spdk.transport \in BOOLEAN
         /\ spdk.subsystems \subseteq Ids /\ spdk.ns \subseteq Ids
         /\ spdk.listeners \subseteq Ids
BY DEF TypeOK, Target

\* A subsystem whose call is at neither end of building it is whole.
LEMMA Quiet ==
  ASSUME IInv, NEW t \in Threads, NEW v \in spdk.subsystems, Using(t, v),
         pc[t] \notin Between
  PROVE  v \in broken \/ spdk.name[v] = None \/ (v \in spdk.ns /\ v \in spdk.listeners)
<1>1. v \in Ids
  BY TargetFacts DEF IInv
<1>2. ~InBetween(v)
  BY <1>1 DEF IInv, Serial, InBetween
<1> QED
  BY <1>2 DEF IInv, AllOrNothing, Created, Exported

LEMMA StepIInv ==
  ASSUME IInv, NEW t \in Threads, Inside(t), Alone(t), Own(t),
         TypeOK', Nested', Knows(t)'
  PROVE  IInv'
<1> USE SpdkConstants
<1>1. \A s \in Threads, v \in Ids : Using(s, v)' <=> Using(s, v)
  BY DEF Inside, Using, Op, Vol
<1>2. Serial'
  BY <1>1 DEF IInv, Serial
<1>3. ASSUME NEW s \in Threads, s # t PROVE Knows(s)'
  <2>1. pc'[s] = pc[s] /\ call'[s] = call[s] /\ Knows(s)
    BY <1>3 DEF Inside, IInv
  <2>2. CASE pc[s] # "idle" /\ Op(s) \in Serialized
    <3>1. Vol(s) \in Ids
      BY <2>1, <2>2, CallFacts DEF Knows, Op, Vol, Serialized
    <3>2. Using(s, Vol(s))
      BY <2>2 DEF Using
    <3>3. ~Using(t, Vol(s))
      BY <1>3, <3>1, <3>2 DEF IInv, Serial
    <3>4. /\ Vol(s) \in spdk'.subsystems <=> Vol(s) \in spdk.subsystems
          /\ Vol(s) \in spdk'.ns <=> Vol(s) \in spdk.ns
          /\ Vol(s) \in spdk'.listeners <=> Vol(s) \in spdk.listeners
      BY <3>1, <3>3 DEF Alone
    <3>5. Vol(s) <= spdk.made => Vol(s) <= spdk'.made
      BY <3>1, TargetFacts DEF Alone, IInv, TypeOK, Target, Ids
    <3> QED
      BY <2>1, <2>2, <3>4, <3>5 DEF Knows, Op, Vol, Published
  <2>3. CASE ~(pc[s] # "idle" /\ Op(s) \in Serialized)
    BY <2>1, <2>3 DEF Knows, Op, Vol, Published, Serialized
  <2> QED
    BY <2>2, <2>3
<1>4. AllOrNothing'
  <2> SUFFICES ASSUME NEW v \in spdk'.subsystems
               PROVE  (v \in broken \/ ~Created(v) \/ InBetween(v) \/ Exported(v))'
    BY DEF AllOrNothing
  <2>1. v \in Ids
    BY DEF TypeOK, Target
  <2>2. CASE Using(t, v)
    <3>1. pc'[t] \in Between => InBetween(v)'
      BY <1>1, <2>1, <2>2 DEF InBetween
    <3> QED
      BY <2>2, <3>1 DEF Own, Created, Exported
  <2>3. CASE ~Using(t, v)
    <3>1. v \in spdk.subsystems
      BY <2>1, <2>3 DEF Alone
    <3>2. v \in broken \/ ~Created(v) \/ InBetween(v) \/ Exported(v)
      BY <3>1 DEF IInv, AllOrNothing
    <3>3. InBetween(v) => InBetween(v)'
      BY <1>1, <2>1, <2>3 DEF InBetween, Inside
    <3> QED
      BY <2>1, <2>3, <3>1, <3>2, <3>3 DEF Alone, Created, Exported
  <2> QED
    BY <2>2, <2>3
<1> QED
  BY <1>2, <1>3, <1>4 DEF IInv

\* A step that only reads the target.
LEMMA ReadIInv ==
  ASSUME IInv, NEW t \in Threads, Inside(t), UNCHANGED <<spdk, broken>>,
         pc[t] \notin Between, TypeOK', Knows(t)'
  PROVE  IInv'
<1>1. Alone(t)
  BY TargetFacts DEF Alone, IInv, TypeOK, Target
<1>2. Own(t)
  BY Quiet DEF Own
<1>3. Nested'
  BY DEF IInv, Nested
<1> QED
  BY <1>1, <1>2, <1>3, StepIInv

LEMMA InitIInv == Init => IInv
<1> SUFFICES ASSUME Init PROVE IInv
  OBVIOUS
<1> USE SpdkConstants
<1>1. transCreated \in BOOLEAN
  BY Zenon DEF Init
<1>2. spdk \in Target
  BY DEF Init, Target, Ids
<1>3. TypeOK
  BY <1>1, <1>2 DEF Init, TypeOK, PcValues
<1>4. Serial /\ (\A t \in Threads : Knows(t)) /\ Nested /\ AllOrNothing
  BY DEF Init, Serial, Using, Knows, Nested, AllOrNothing
<1> QED
  BY <1>3, <1>4 DEF IInv

LEMMA ArriveIInv ==
  ASSUME IInv, NEW t \in Threads, NEW c \in Calls, Arrive(t, c)
  PROVE  IInv'
<1> USE SpdkConstants
<1>1. /\ pc[t] = "idle" /\ call' = [call EXCEPT ![t] = c]
      /\ pc' = [pc EXCEPT ![t] = First(c.op)]
      /\ c.op \in Serialized => \A s \in Threads : ~Using(s, c.vol)
      /\ c.op # "create" => c.vol <= spdk.made
      /\ UNCHANGED <<result, transCreated, spdk, broken>>
  BY DEF Arrive, Goto
<1>2. /\ First(c.op) \in {"lookup", "source", "info", "exists", "delete"}
      /\ First(c.op) = "lookup" => c.op \in {"create", "clone"}
      /\ First(c.op) = "source" => c.op = "snapshot"
      /\ First(c.op) = "info" => c.op = "info"
      /\ First(c.op) = "exists" => c.op \in {"publish", "unpublish"}
      /\ First(c.op) = "delete" => c.op = "delete"
  BY CallFacts DEF First
<1>3. TypeOK'
  BY <1>1, <1>2 DEF IInv, TypeOK, PcValues
<1>4. /\ pc'[t] = First(c.op) /\ call'[t] = c
      /\ \A s \in Threads \ {t} : pc'[s] = pc[s] /\ call'[s] = call[s]
  BY <1>1 DEF IInv, TypeOK
<1>5. Knows(t)'
  BY <1>1, <1>2, <1>4 DEF Knows, Op, Vol, Serialized
<1>6. ASSUME NEW s \in Threads, s # t PROVE Knows(s)'
  BY <1>1, <1>4, <1>6 DEF IInv, Knows, Op, Vol, Published
<1>7. \A s \in Threads \ {t}, v \in Ids : Using(s, v)' <=> Using(s, v)
  BY <1>4 DEF Using, Op, Vol
<1>8. \A v \in Ids : Using(t, v)' => \A s \in Threads : ~Using(s, v)
  BY <1>1, <1>4 DEF Using, Op, Vol
<1>9. Serial'
  BY <1>7, <1>8 DEF IInv, Serial
<1>10. \A v \in Ids : InBetween(v) => InBetween(v)'
  BY <1>1, <1>4, <1>7 DEF InBetween, Using
<1>11. AllOrNothing'
  BY <1>1, <1>10, TargetFacts DEF IInv, AllOrNothing, Created, Exported
<1>12. Nested'
  BY <1>1 DEF IInv, Nested
<1> QED
  BY <1>3, <1>5, <1>6, <1>9, <1>11, <1>12 DEF IInv

LEMMA ReturnIInv ==
  ASSUME IInv, NEW t \in Threads, Return(t)
  PROVE  IInv'
<1>1. /\ pc[t] \in {"ok", "err"} /\ pc' = [pc EXCEPT ![t] = "idle"]
      /\ call' = [call EXCEPT ![t] = None] /\ result' = [result EXCEPT ![t] = None]
      /\ UNCHANGED <<transCreated, spdk, broken>>
  BY DEF Return, Goto
<1>2. TypeOK'
  BY <1>1 DEF IInv, TypeOK, PcValues
<1>3. /\ pc'[t] = "idle"
      /\ \A s \in Threads \ {t} : pc'[s] = pc[s] /\ call'[s] = call[s]
  BY <1>1 DEF IInv, TypeOK
<1>4. Knows(t)'
  BY <1>3 DEF Knows
<1>5. ASSUME NEW s \in Threads, s # t PROVE Knows(s)'
  BY <1>1, <1>3, <1>5 DEF IInv, Knows, Op, Vol, Published
<1>6. \A s \in Threads, v \in Ids : Using(s, v)' => Using(s, v)
  BY <1>3 DEF Using, Op, Vol
<1>7. Serial'
  BY <1>6 DEF IInv, Serial
<1>8. \A v \in Ids : InBetween(v) => InBetween(v)'
  BY <1>1, <1>3 DEF InBetween, Using, Between, Op, Vol
<1>9. AllOrNothing'
  BY <1>1, <1>8, TargetFacts DEF IInv, AllOrNothing, Created, Exported
<1>10. Nested'
  BY <1>1 DEF IInv, Nested
<1> QED
  BY <1>2, <1>4, <1>5, <1>7, <1>9, <1>10 DEF IInv

\* The process dies: what its calls were working on is left behind.
LEMMA DieIInv ==
  ASSUME IInv, Die
  PROVE  IInv'
<1>1. /\ pc' = [t \in Threads |-> "idle"] /\ call' = [t \in Threads |-> None]
      /\ result' = [t \in Threads |-> None] /\ UNCHANGED spdk
      /\ broken' = broken \cup {v \in spdk.subsystems : \E t \in Threads : Using(t, v)}
  BY DEF Die
<1>2. transCreated' \in BOOLEAN
  BY Zenon DEF Die
<1>3. TypeOK'
  BY <1>1, <1>2, TargetFacts DEF IInv, TypeOK, PcValues
<1>4. Serial' /\ \A t \in Threads : Knows(t)'
  BY <1>1 DEF Serial, Using, Knows
<1>5. Nested'
  BY <1>1 DEF IInv, Nested
<1>6. AllOrNothing'
  BY <1>1 DEF IInv, AllOrNothing, InBetween, Created, Exported
<1> QED
  BY <1>3, <1>4, <1>5, <1>6 DEF IInv

-----------------------------------------------------------------------------
(* The calls that make volumes, and those that only look.                  *)

LEMMA LookupIInv ==
  ASSUME IInv, NEW t \in Threads, Lookup(t)
  PROVE  IInv'
<1>1. /\ pc[t] = "lookup" /\ UNCHANGED <<call, transCreated, spdk, broken>>
      /\ result' \in [Threads -> Ids \cup {None}]
  BY DEF Lookup, IInv, TypeOK
<1>2. PICK l \in {"ok", "make"} : pc' = [pc EXCEPT ![t] = l]
  BY DEF Lookup, Goto
<1>3. TypeOK'
  BY <1>1, <1>2 DEF IInv, TypeOK, PcValues
<1>4. pc'[t] = l /\ Inside(t)
  BY <1>1, <1>2 DEF IInv, TypeOK, Inside
<1>5. Knows(t)'
  BY <1>1, <1>2, <1>4 DEF IInv, Knows, Op, Vol, Serialized
<1> QED
  BY <1>1, <1>3, <1>4, <1>5, ReadIInv DEF Between

LEMMA MakeIInv ==
  ASSUME IInv, NEW t \in Threads, Make(t)
  PROVE  IInv'
<1> USE SpdkConstants
<1> DEFINE new == spdk.made + 1
<1>1. /\ pc[t] = "make" /\ UNCHANGED <<call, transCreated, broken>>
      /\ call[t] \in Calls /\ Op(t) \in {"create", "clone", "snapshot"}
      /\ call[t].name \in Names
  BY CallFacts DEF Make, IInv, Knows, Op
<1>2. PICK l \in {"ok", "err"} : pc' = [pc EXCEPT ![t] = l]
  BY DEF Make, Rpc, Goto
<1>3. \/ spdk' = spdk
      \/ new \in Ids /\ spdk' = [spdk EXCEPT !.made = new, !.name[new] = call[t].name]
  BY DEF Make, Rpc
<1>4. /\ spdk' \in Target /\ spdk.made <= spdk'.made
      /\ spdk'.subsystems = spdk.subsystems /\ spdk'.ns = spdk.ns
      /\ spdk'.listeners = spdk.listeners
      /\ \A v \in Ids : v <= spdk.made => spdk'.name[v] = spdk.name[v]
  <2>1. CASE spdk' = spdk
    BY <2>1, TargetFacts DEF IInv, TypeOK
  <2>2. CASE /\ new \in Ids
             /\ spdk' = [spdk EXCEPT !.made = new, !.name[new] = call[t].name]
    <3>1. /\ spdk'.made = new /\ spdk'.name = [spdk.name EXCEPT ![new] = call[t].name]
          /\ spdk'.subsystems = spdk.subsystems /\ spdk'.ns = spdk.ns
          /\ spdk'.listeners = spdk.listeners
      BY <2>2 DEF IInv, TypeOK, Target
    <3>2. spdk'.name \in [Ids -> Names \cup {None}]
      BY <1>1, <2>2, <3>1, TargetFacts DEF IInv
    <3>3. spdk' \in Target
      <4>1. spdk'.made \in 0 .. MaxLvols
        BY <2>2, <3>1 DEF Ids
      <4> QED
        BY <2>2, <3>1, <3>2, <4>1 DEF IInv, TypeOK, Target
    <3>4. \A v \in Ids : v <= spdk.made => v # new
      BY TargetFacts DEF IInv, Ids
    <3> QED
      BY <2>2, <3>1, <3>3, <3>4, TargetFacts DEF IInv, Ids
  <2> QED
    BY <1>3, <2>1, <2>2
<1>5. pc'[t] = l /\ Inside(t)
  BY <1>1, <1>2 DEF IInv, TypeOK, Inside
<1>6. result' \in [Threads -> Ids \cup {None}]
  <2>1. CASE l = "ok"
    <3>1. new \in Ids
      BY <1>2, <1>5, <2>1 DEF Make, Rpc, Goto, IInv, TypeOK
    <3>2. result' = [result EXCEPT ![t] = new]
      BY <1>5, <2>1 DEF Make
    <3> QED
      BY <3>1, <3>2 DEF IInv, TypeOK
  <2>2. CASE l = "err"
    BY <1>5, <2>2 DEF Make, IInv, TypeOK
  <2> QED
    BY <2>1, <2>2
<1>7. TypeOK'
  BY <1>1, <1>2, <1>4, <1>6 DEF IInv, TypeOK, PcValues
<1>8. Knows(t)'
  BY <1>1, <1>2, <1>5 DEF Knows, Op, Vol, Serialized
<1>9. \A v : ~Using(t, v)
  BY <1>1 DEF Using, Serialized
<1>10. \A v \in spdk.subsystems : v \in Ids /\ v <= spdk.made
  BY TargetFacts DEF IInv, Nested
<1>11. Alone(t) /\ Own(t)
  BY <1>1, <1>4, <1>9, <1>10 DEF Alone, Own
<1>12. Nested'
  BY <1>4, <1>10, TargetFacts DEF IInv, Nested, Ids, Target
<1> QED
  BY <1>5, <1>7, <1>8, <1>11, <1>12, StepIInv

\* getVolume, lvStores, isVolumeCreated, isVolumePublished, the fast path.
LEMMA LookIInv ==
  ASSUME IInv, NEW t \in Threads,
         GetSource(t) \/ LvStores(t) \/ IsVolumeCreated(t) \/ IsVolumePublished(t)
         \/ LoadTransCreated(t)
  PROVE  IInv'
<1>1. /\ pc[t] \in {"info", "source", "lvstores", "exists", "listeners", "flag"}
      /\ UNCHANGED <<call, result, transCreated, spdk, broken>>
      /\ call[t] \in Calls
  BY DEF GetSource, LvStores, IsVolumeCreated, IsVolumePublished, LoadTransCreated, IInv, Knows
<1>2. PICK l \in PcValues \ {"idle"} :
         /\ pc' = [pc EXCEPT ![t] = l]
         /\ l \in {"source", "lvstores", "lookup", "listeners", "flag", "removeNs",
                   "subsystem", "transport", "ok", "err"}
         /\ l \in {"source", "lvstores"} => Op(t) \in {"info", "snapshot"}
         /\ l = "lookup" => Op(t) = "snapshot"
         /\ l = "listeners" => Op(t) \in {"publish", "unpublish"}
         /\ l \in {"flag", "transport", "subsystem"} => Op(t) = "publish"
         /\ l = "removeNs" => Op(t) = "unpublish"
         /\ l = "ok" /\ Op(t) = "unpublish" => ~Published(Vol(t))
  <2>1. CASE GetSource(t)
    BY <2>1 DEF GetSource, Goto, IInv, Knows, PcValues
  <2>2. CASE LvStores(t)
    BY <2>2 DEF LvStores, Goto, IInv, Knows, PcValues
  <2>3. CASE IsVolumeCreated(t)
    <3>1. Op(t) \in {"publish", "unpublish"} /\ (Goto(t, "listeners") \/ Goto(t, "err"))
      BY <2>3 DEF IsVolumeCreated, IInv, Knows
    <3> QED
      BY <3>1 DEF Goto, PcValues
  <2>4. CASE IsVolumePublished(t)
    <3>1. Op(t) \in {"publish", "unpublish"}
      BY <2>4 DEF IsVolumePublished, IInv, Knows
    <3> QED
      BY <2>4, <3>1 DEF IsVolumePublished, Goto, PcValues
  <2>5. CASE LoadTransCreated(t)
    <3>1. Op(t) = "publish" /\ (Goto(t, "subsystem") \/ Goto(t, "transport"))
      BY <2>5 DEF LoadTransCreated, IInv, Knows
    <3> QED
      BY <3>1 DEF Goto, PcValues
  <2> QED
    BY <2>1, <2>2, <2>3, <2>4, <2>5
<1>3. TypeOK'
  BY <1>1, <1>2 DEF IInv, TypeOK
<1>4. pc'[t] = l /\ Inside(t)
  BY <1>1, <1>2 DEF IInv, TypeOK, Inside
<1>5. Knows(t)'
  BY <1>1, <1>2, <1>4 DEF IInv, Knows, Op, Vol, Published
<1> QED
  BY <1>1, <1>3, <1>4, <1>5, ReadIInv DEF Between

-----------------------------------------------------------------------------
(* The calls that work on the volume's subsystem.                          *)

\* A step of goroutine t in a serialized call that changes the target only
\* where its own volume is concerned.
LEMMA OwnStepIInv ==
  ASSUME IInv, NEW t \in Threads, NEW l \in PcValues, l # "idle", pc[t] # "idle",
         Op(t) \in Serialized,
         pc' = [pc EXCEPT ![t] = l], UNCHANGED <<call, result>>,
         transCreated' \in BOOLEAN, broken \subseteq broken', broken' \subseteq Ids,
         spdk' \in Target, spdk'.made = spdk.made,
         \A v \in Ids \ {Vol(t)} :
            /\ v \in spdk'.subsystems <=> v \in spdk.subsystems
            /\ v \in spdk'.ns <=> v \in spdk.ns
            /\ v \in spdk'.listeners <=> v \in spdk.listeners
            /\ spdk'.name[v] = spdk.name[v],
         spdk'.ns \subseteq spdk'.subsystems, spdk'.listeners \subseteq spdk'.subsystems,
         Vol(t) \in spdk'.subsystems =>
            \/ Vol(t) \in broken' \/ spdk'.name[Vol(t)] = None \/ l \in Between
            \/ Vol(t) \in spdk'.ns /\ Vol(t) \in spdk'.listeners,
         l \in {"addNs", "addListener", "undoNs", "undoSubsystem", "subsystem"} =>
            Op(t) = "publish",
         l = "deleteSubsystem" => Op(t) = "unpublish",
         l \in Between \cup {"subsystem", "ok", "err"},
         l = "addListener" => Vol(t) \in spdk'.ns,
         l = "ok" /\ Op(t) = "unpublish" => Vol(t) \notin spdk'.listeners
  PROVE  IInv'
<1> USE SpdkConstants
<1>1. call[t] \in Calls /\ Vol(t) \in Ids /\ Vol(t) <= spdk.made
  BY CallFacts DEF IInv, Knows, Op, Vol, Serialized
<1>2. TypeOK'
  BY DEF IInv, TypeOK
<1>3. pc'[t] = l /\ Inside(t)
  BY DEF IInv, TypeOK, Inside
<1>4. Knows(t)'
  BY <1>1, <1>3 DEF Knows, Op, Vol, Published, Between
<1>5. \A v : Using(t, v) <=> v = Vol(t)
  BY DEF Using
<1>6. Alone(t)
  BY <1>5, TargetFacts DEF Alone, IInv, Ids
<1>7. Own(t)
  BY <1>3, <1>5 DEF Own
<1>8. Nested'
  <2>1. \A v \in spdk'.subsystems : v \in Ids /\ (v \in spdk.subsystems \/ v = Vol(t))
    BY DEF Target
  <2> QED
    BY <1>1, <2>1 DEF IInv, Nested
<1> QED
  BY <1>2, <1>3, <1>4, <1>6, <1>7, <1>8, StepIInv

\* What all of them start from.
LEMMA SerializedFacts ==
  ASSUME IInv, NEW t \in Threads,
         pc[t] \in {"delete", "transport", "subsystem", "addNs", "addListener", "undoNs",
                    "undoSubsystem", "removeNs", "deleteSubsystem"}
  PROVE  /\ Op(t) \in Serialized /\ Vol(t) \in Ids /\ pc[t] # "idle"
         /\ pc[t] = "delete" => Op(t) = "delete"
         /\ pc[t] \in {"transport", "subsystem", "addNs", "addListener", "undoNs",
                       "undoSubsystem"} => Op(t) = "publish"
         /\ pc[t] \in {"removeNs", "deleteSubsystem"} => Op(t) = "unpublish"
         /\ spdk.ns \subseteq spdk.subsystems /\ spdk.listeners \subseteq spdk.subsystems
         /\ pc[t] \notin Between /\ Vol(t) \in spdk.subsystems =>
               \/ Vol(t) \in broken \/ spdk.name[Vol(t)] = None
               \/ Vol(t) \in spdk.ns /\ Vol(t) \in spdk.listeners
<1>1. /\ call[t] \in Calls /\ pc[t] # "idle"
      /\ pc[t] = "delete" => Op(t) = "delete"
      /\ pc[t] \in {"transport", "subsystem", "addNs", "addListener", "undoNs",
                    "undoSubsystem"} => Op(t) = "publish"
      /\ pc[t] \in {"removeNs", "deleteSubsystem"} => Op(t) = "unpublish"
  BY DEF IInv, Knows
<1>2. Op(t) \in Serialized
  BY <1>1 DEF Serialized
<1>3. Vol(t) \in Ids
  BY <1>1, <1>2, CallFacts DEF Op, Vol, Serialized
<1>4. Using(t, Vol(t))
  BY <1>1, <1>2 DEF Using
<1> QED
  BY <1>1, <1>2, <1>3, <1>4, Quiet DEF IInv, Nested

LEMMA DeleteVolumeIInv ==
  ASSUME IInv, NEW t \in Threads, DeleteVolume(t)
  PROVE  IInv'
<1> DEFINE v == Vol(t)
<1>1. /\ pc[t] = "delete" /\ UNCHANGED <<call, result, transCreated, broken>>
      /\ spdk' = spdk \/ spdk' = [spdk EXCEPT !.name[v] = None, !.ns = @ \ {v}]
  BY DEF DeleteVolume, Rpc
<1>2. PICK l \in {"ok", "err"} : pc' = [pc EXCEPT ![t] = l]
  BY DEF DeleteVolume, Rpc, Goto
<1>3. /\ Op(t) = "delete" /\ Op(t) \in Serialized /\ v \in Ids
      /\ spdk.ns \subseteq spdk.subsystems /\ spdk.listeners \subseteq spdk.subsystems
      /\ v \in spdk.subsystems =>
            v \in broken \/ spdk.name[v] = None \/ (v \in spdk.ns /\ v \in spdk.listeners)
  BY <1>1, SerializedFacts DEF Between
<1>4. /\ spdk' \in Target /\ spdk'.made = spdk.made
      /\ spdk'.subsystems = spdk.subsystems /\ spdk'.listeners = spdk.listeners
      /\ spdk'.ns \subseteq spdk.ns
      /\ \A w \in Ids \ {v} : (w \in spdk'.ns <=> w \in spdk.ns) /\ spdk'.name[w] = spdk.name[w]
      /\ spdk' = spdk \/ spdk'.name[v] = None
  <2>1. CASE spdk' = spdk
    BY <2>1 DEF IInv, TypeOK
  <2>2. CASE spdk' = [spdk EXCEPT !.name[v] = None, !.ns = @ \ {v}]
    <3>1. /\ spdk'.made = spdk.made /\ spdk'.name = [spdk.name EXCEPT ![v] = None]
          /\ spdk'.subsystems = spdk.subsystems /\ spdk'.ns = spdk.ns \ {v}
          /\ spdk'.listeners = spdk.listeners
      BY <2>2 DEF IInv, TypeOK, Target
    <3>2. spdk'.name \in [Ids -> Names \cup {None}] /\ spdk'.name[v] = None
      BY <1>3, <3>1, TargetFacts DEF IInv
    <3>3. spdk' \in Target
      BY <2>2, <3>1, <3>2 DEF IInv, TypeOK, Target
    <3> QED
      BY <3>1, <3>2, <3>3, TargetFacts DEF IInv
  <2> QED
    BY <1>1, <2>1, <2>2
<1>5. broken' \subseteq Ids /\ transCreated' \in BOOLEAN
  BY <1>1, Zenon DEF IInv, TypeOK
<1>6. v \in spdk'.subsystems =>
         v \in broken' \/ spdk'.name[v] = None \/ (v \in spdk'.ns /\ v \in spdk'.listeners)
  BY <1>1, <1>3, <1>4
<1> HIDE DEF v
<1> QED
  BY <1>1, <1>2, <1>3, <1>4, <1>5, <1>6, OwnStepIInv DEF PcValues, v

LEMMA CreateTransportIInv ==
  ASSUME IInv, NEW t \in Threads, CreateTransport(t)
  PROVE  IInv'
<1> DEFINE v == Vol(t)
<1>1. /\ pc[t] = "transport" /\ UNCHANGED <<call, result, broken>>
      /\ spdk' = spdk \/ spdk' = [spdk EXCEPT !.transport = TRUE]
  BY DEF CreateTransport
<1>2. PICK l \in {"subsystem", "err"} : pc' = [pc EXCEPT ![t] = l]
  BY DEF CreateTransport, Goto
<1>3. /\ Op(t) = "publish" /\ Op(t) \in Serialized /\ v \in Ids
      /\ spdk.ns \subseteq spdk.subsystems /\ spdk.listeners \subseteq spdk.subsystems
      /\ v \in spdk.subsystems =>
            v \in broken \/ spdk.name[v] = None \/ (v \in spdk.ns /\ v \in spdk.listeners)
  BY <1>1, SerializedFacts DEF Between
<1>4. /\ spdk'.made = spdk.made /\ spdk'.name = spdk.name
      /\ spdk'.subsystems = spdk.subsystems /\ spdk'.listeners = spdk.listeners
      /\ spdk'.ns = spdk.ns
  BY <1>1 DEF IInv, TypeOK, Target
<1>5. spdk' \in Target
  BY <1>1 DEF IInv, TypeOK, Target
<1>6. broken' \subseteq Ids
  BY <1>1 DEF IInv, TypeOK
<1>7. transCreated' \in BOOLEAN
  BY Zenon DEF CreateTransport, IInv, TypeOK
<1> QED
  BY <1>1, <1>2, <1>3, <1>4, <1>5, <1>6, <1>7, OwnStepIInv DEF PcValues

LEMMA CreateSubsystemIInv ==
  ASSUME IInv, NEW t \in Threads, CreateSubsystem(t)
  PROVE  IInv'
<1> DEFINE v == Vol(t)
<1>1. /\ pc[t] = "subsystem" /\ UNCHANGED <<call, result, transCreated>>
      /\ \/ spdk' = spdk
         \/ v \notin spdk.subsystems /\ spdk' = [spdk EXCEPT !.subsystems = @ \cup {v}]
  BY DEF CreateSubsystem, Rpc
<1>2. /\ Op(t) = "publish" /\ Op(t) \in Serialized /\ v \in Ids
      /\ spdk.ns \subseteq spdk.subsystems /\ spdk.listeners \subseteq spdk.subsystems
      /\ v \in spdk.subsystems =>
            v \in broken \/ spdk.name[v] = None \/ (v \in spdk.ns /\ v \in spdk.listeners)
  BY <1>1, SerializedFacts DEF Between
<1>3. /\ spdk'.made = spdk.made /\ spdk'.name = spdk.name
      /\ spdk'.ns = spdk.ns /\ spdk'.listeners = spdk.listeners
      /\ spdk' = spdk \/ spdk'.subsystems = spdk.subsystems \cup {v}
      /\ spdk' \in Target
  BY <1>1, <1>2 DEF IInv, TypeOK, Target
<1>4. broken \subseteq broken' /\ broken' \subseteq Ids /\ transCreated' \in BOOLEAN
  <2>1. broken' = broken \/ broken' = broken \cup ({v} \cap spdk'.subsystems)
    BY DEF CreateSubsystem, LeaveBehind
  <2>2. transCreated' \in BOOLEAN
    BY Zenon, <1>1 DEF IInv, TypeOK
  <2> QED
    BY <1>2, <2>1, <2>2 DEF IInv, TypeOK
<1>5. PICK l \in {"addNs", "err"} : pc' = [pc EXCEPT ![t] = l]
  BY DEF CreateSubsystem, Rpc, Goto
<1>6. pc'[t] = l
  BY <1>5 DEF IInv, TypeOK
<1>7. l = "err" /\ spdk' # spdk => v \in broken'
  BY <1>3, <1>6 DEF CreateSubsystem, LeaveBehind
<1>8. l = "err" /\ v \in spdk'.subsystems =>
         v \in broken' \/ spdk'.name[v] = None \/ (v \in spdk'.ns /\ v \in spdk'.listeners)
  BY <1>2, <1>3, <1>4, <1>7
<1> HIDE DEF v
<1> QED
  BY <1>1, <1>2, <1>3, <1>4, <1>5, <1>8, OwnStepIInv DEF PcValues, Between, v

LEMMA SubsystemAddNsIInv ==
  ASSUME IInv, NEW t \in Threads, SubsystemAddNs(t)
  PROVE  IInv'
<1> DEFINE v == Vol(t)
<1>1. /\ pc[t] = "addNs" /\ UNCHANGED <<call, result, transCreated, broken>>
      /\ \/ spdk' = spdk
         \/ v \in spdk.subsystems /\ spdk' = [spdk EXCEPT !.ns = @ \cup {v}]
  BY DEF SubsystemAddNs, Rpc
<1>2. /\ Op(t) = "publish" /\ Op(t) \in Serialized /\ v \in Ids
      /\ spdk.ns \subseteq spdk.subsystems /\ spdk.listeners \subseteq spdk.subsystems
  BY <1>1, SerializedFacts
<1>3. /\ spdk'.made = spdk.made /\ spdk'.name = spdk.name
      /\ spdk'.subsystems = spdk.subsystems /\ spdk'.listeners = spdk.listeners
      /\ spdk'.ns = spdk.ns \/ (v \in spdk.subsystems /\ spdk'.ns = spdk.ns \cup {v})
      /\ spdk' \in Target
  BY <1>1, <1>2 DEF IInv, TypeOK, Target
<1>4. broken' \subseteq Ids /\ transCreated' \in BOOLEAN
  BY <1>1, Zenon DEF IInv, TypeOK
<1>5. PICK l \in {"addListener", "undoSubsystem"} : pc' = [pc EXCEPT ![t] = l]
  BY DEF SubsystemAddNs, Rpc, Goto
<1>6. pc'[t] = l
  BY <1>5 DEF IInv, TypeOK
<1>7. l = "addListener" => spdk' = [spdk EXCEPT !.ns = @ \cup {v}]
  BY <1>6 DEF SubsystemAddNs, Rpc, Goto, IInv, TypeOK
<1>8. l = "addListener" => v \in spdk'.ns
  BY <1>7 DEF IInv, TypeOK, Target
<1> HIDE DEF v
<1> QED
  BY <1>1, <1>2, <1>3, <1>4, <1>5, <1>8, OwnStepIInv DEF PcValues, Between, v

LEMMA SubsystemAddListenerIInv ==
  ASSUME IInv, NEW t \in Threads, SubsystemAddListener(t)
  PROVE  IInv'
<1> DEFINE v == Vol(t)
<1>1. /\ pc[t] = "addListener" /\ UNCHANGED <<call, result, transCreated, broken>>
      /\ \/ spdk' = spdk
         \/ v \in spdk.subsystems /\ spdk' = [spdk EXCEPT !.listeners = @ \cup {v}]
  BY DEF SubsystemAddListener, Rpc
<1>2. /\ Op(t) = "publish" /\ Op(t) \in Serialized /\ v \in Ids
      /\ spdk.ns \subseteq spdk.subsystems /\ spdk.listeners \subseteq spdk.subsystems
      /\ v \in spdk.subsystems => v \in spdk.ns
  BY <1>1, SerializedFacts DEF IInv, Knows
<1>3. /\ spdk'.made = spdk.made /\ spdk'.name = spdk.name
      /\ spdk'.subsystems = spdk.subsystems /\ spdk'.ns = spdk.ns
      /\ \/ spdk'.listeners = spdk.listeners
         \/ v \in spdk.subsystems /\ spdk'.listeners = spdk.listeners \cup {v}
      /\ spdk' \in Target
  BY <1>1, <1>2 DEF IInv, TypeOK, Target
<1>4. broken' \subseteq Ids /\ transCreated' \in BOOLEAN
  BY <1>1, Zenon DEF IInv, TypeOK
<1>5. PICK l \in {"ok", "undoNs"} : pc' = [pc EXCEPT ![t] = l]
  BY DEF SubsystemAddListener, Rpc, Goto
<1>6. pc'[t] = l
  BY <1>5 DEF IInv, TypeOK
<1>7. l = "ok" => spdk' = [spdk EXCEPT !.listeners = @ \cup {v}]
  BY <1>6 DEF SubsystemAddListener, Rpc, Goto, IInv, TypeOK
<1>8. l = "ok" => v \in spdk'.listeners
  BY <1>7 DEF IInv, TypeOK, Target
<1> HIDE DEF v
<1> QED
  BY <1>1, <1>2, <1>3, <1>4, <1>5, <1>8, OwnStepIInv DEF PcValues, Between, v

LEMMA SubsystemRemoveNsIInv ==
  ASSUME IInv, NEW t \in Threads, SubsystemRemoveNs(t)
  PROVE  IInv'
<1> DEFINE v == Vol(t)
<1>1. /\ pc[t] \in {"undoNs", "removeNs"} /\ UNCHANGED <<call, result, transCreated, broken>>
      /\ spdk' = spdk \/ spdk' = [spdk EXCEPT !.ns = @ \ {v}]
  BY DEF SubsystemRemoveNs, Rpc
<1>2. /\ Op(t) \in Serialized /\ v \in Ids /\ pc[t] # "idle"
      /\ pc[t] = "undoNs" => Op(t) = "publish"
      /\ pc[t] = "removeNs" => Op(t) = "unpublish"
      /\ spdk.ns \subseteq spdk.subsystems /\ spdk.listeners \subseteq spdk.subsystems
  BY <1>1, SerializedFacts
<1>3. /\ spdk'.made = spdk.made /\ spdk'.name = spdk.name
      /\ spdk'.subsystems = spdk.subsystems /\ spdk'.listeners = spdk.listeners
      /\ spdk'.ns = spdk.ns \/ spdk'.ns = spdk.ns \ {v}
      /\ spdk' \in Target
  BY <1>1, <1>2 DEF IInv, TypeOK, Target
<1>4. broken' \subseteq Ids /\ transCreated' \in BOOLEAN
  BY <1>1, Zenon DEF IInv, TypeOK
<1>5. PICK l \in {"undoSubsystem", "deleteSubsystem"} :
         /\ pc' = [pc EXCEPT ![t] = l]
         /\ l = "undoSubsystem" <=> pc[t] = "undoNs"
  BY <1>1 DEF SubsystemRemoveNs, Rpc, Goto
<1> HIDE DEF v
<1> QED
  BY <1>1, <1>2, <1>3, <1>4, <1>5, OwnStepIInv DEF PcValues, Between, v

\* What dropping the subsystem of volume v leaves of the target.
LEMMA WithoutSubsystemFields ==
  ASSUME spdk \in Target, NEW v
  PROVE  LET w == WithoutSubsystem(v)
         IN  /\ w.made = spdk.made /\ w.name = spdk.name
             /\ w.subsystems = spdk.subsystems \ {v} /\ w.ns = spdk.ns \ {v}
             /\ w.listeners = spdk.listeners \ {v}
             /\ w \in Target
<1>1. /\ WithoutSubsystem(v).made = spdk.made
      /\ WithoutSubsystem(v).name = spdk.name
      /\ WithoutSubsystem(v).subsystems = spdk.subsystems \ {v}
      /\ WithoutSubsystem(v).ns = spdk.ns \ {v}
      /\ WithoutSubsystem(v).listeners = spdk.listeners \ {v}
  BY DEF WithoutSubsystem, Target
<1>2. WithoutSubsystem(v) \in Target
  <2>1. ASSUME NEW a \in SUBSET Ids, NEW b \in SUBSET Ids, NEW c \in SUBSET Ids
        PROVE  [spdk EXCEPT !.subsystems = a, !.ns = b, !.listeners = c] \in Target
    BY DEF Target
  <2>2. /\ spdk.subsystems \ {v} \in SUBSET Ids /\ spdk.ns \ {v} \in SUBSET Ids
        /\ spdk.listeners \ {v} \in SUBSET Ids
    BY DEF Target
  <2> QED
    BY <2>1, <2>2 DEF WithoutSubsystem
<1> QED
  BY <1>1, <1>2

LEMMA DeleteSubsystemIInv ==
  ASSUME IInv, NEW t \in Threads, DeleteSubsystem(t)
  PROVE  IInv'
<1> DEFINE v == Vol(t)
<1>1. /\ pc[t] \in {"undoSubsystem", "deleteSubsystem"}
      /\ UNCHANGED <<call, result, transCreated>>
      /\ spdk' = spdk \/ spdk' = WithoutSubsystem(v)
      /\ broken' = broken \cup ({v} \cap spdk'.subsystems)
  BY DEF DeleteSubsystem, Rpc, LeaveBehind
<1>2. /\ Op(t) \in Serialized /\ v \in Ids /\ pc[t] # "idle"
      /\ pc[t] = "undoSubsystem" => Op(t) = "publish"
      /\ pc[t] = "deleteSubsystem" => Op(t) = "unpublish"
      /\ spdk.ns \subseteq spdk.subsystems /\ spdk.listeners \subseteq spdk.subsystems
  BY <1>1, SerializedFacts
<1>3. /\ spdk'.made = spdk.made /\ spdk'.name = spdk.name
      /\ \/ /\ spdk'.subsystems = spdk.subsystems /\ spdk'.listeners = spdk.listeners
            /\ spdk'.ns = spdk.ns
         \/ /\ spdk'.subsystems = spdk.subsystems \ {v} /\ spdk'.ns = spdk.ns \ {v}
            /\ spdk'.listeners = spdk.listeners \ {v}
      /\ spdk' \in Target
  <2>1. spdk \in Target
    BY DEF IInv, TypeOK
  <2>2. CASE spdk' = spdk
    BY <2>1, <2>2
  <2>3. CASE spdk' = WithoutSubsystem(v)
    BY <2>1, <2>3, WithoutSubsystemFields
  <2> QED
    BY <1>1, <2>2, <2>3
<1>4. broken \subseteq broken' /\ broken' \subseteq Ids /\ transCreated' \in BOOLEAN
  <2>1. transCreated' \in BOOLEAN
    BY <1>1, Zenon DEF IInv, TypeOK
  <2> QED
    BY <1>1, <1>2, <2>1 DEF IInv, TypeOK
<1>5. PICK l \in {"ok", "err"} : pc' = [pc EXCEPT ![t] = l]
  BY DEF DeleteSubsystem, Rpc, Goto
<1>6. pc'[t] = l
  BY <1>5 DEF IInv, TypeOK
<1>7. l = "ok" => spdk' = WithoutSubsystem(v)
  BY <1>6 DEF DeleteSubsystem, Rpc, Goto, IInv, TypeOK
<1>8. l = "ok" => v \notin spdk'.listeners
  <2>1. spdk \in Target
    BY DEF IInv, TypeOK
  <2> QED
    BY <1>7, <2>1, WithoutSubsystemFields
<1>9. v \in spdk'.subsystems => v \in broken'
  BY <1>1
<1> HIDE DEF v
<1> QED
  BY <1>1, <1>2, <1>3, <1>4, <1>5, <1>8, <1>9, OwnStepIInv DEF PcValues, v

\* A restarted target has no subsystem that could be half built.
LEMMA TargetRestartIInv ==
  ASSUME IInv, TargetRestart
  PROVE  IInv'
<1>1. /\ spdk'.name = spdk.name /\ spdk'.made = spdk.made
      /\ spdk'.subsystems = {} /\ spdk'.ns = {} /\ spdk'.listeners = {}
      /\ spdk' \in Target
  BY DEF TargetRestart, IInv, TypeOK, Target
<1>2. TypeOK'
  <2>1. transCreated' \in BOOLEAN
    BY Zenon DEF TargetRestart, IInv, TypeOK
  <2> QED
    BY <1>1, <2>1 DEF TargetRestart, IInv, TypeOK
<1>3. Serial'
  BY DEF TargetRestart, IInv, Serial, Using, Op, Vol
<1>4. ASSUME NEW t \in Threads PROVE Knows(t)'
  <2>1. pc'[t] = pc[t] /\ call'[t] = call[t] /\ Knows(t)
    BY DEF TargetRestart, IInv
  <2> QED
    BY <1>1, <2>1 DEF Knows, Op, Vol, Published
<1>5. Nested' /\ AllOrNothing'
  BY <1>1 DEF Nested, AllOrNothing
<1> QED
  BY <1>2, <1>3, <1>4, <1>5 DEF IInv

LEMMA StutterIInv ==
  ASSUME IInv, UNCHANGED vars
  PROVE  IInv'
BY DEF vars, IInv, TypeOK, Serial, Using, Op, Vol, Knows, Published, Nested,
       AllOrNothing, Created, InBetween, Exported

LEMMA NextIInv ==
  ASSUME IInv, [Next]_vars
  PROVE  IInv'
<1>1. ASSUME NEW t \in Threads, NEW c \in Calls, Arrive(t, c) PROVE IInv'
  BY <1>1, ArriveIInv
<1>2. ASSUME NEW t \in Threads, Step(t) PROVE IInv'
  BY <1>2, LookupIInv, MakeIInv, LookIInv, DeleteVolumeIInv, CreateTransportIInv,
     CreateSubsystemIInv, SubsystemAddNsIInv, SubsystemAddListenerIInv,
     SubsystemRemoveNsIInv, DeleteSubsystemIInv, DieIInv, ReturnIInv DEF Step, Panic
<1>3. CASE Crash
  BY <1>3, DieIInv DEF Crash
<1>4. CASE TargetRestart
  BY <1>4, TargetRestartIInv
<1>5. CASE UNCHANGED vars
  BY <1>5, StutterIInv
<1> QED
  BY <1>1, <1>2, <1>3, <1>4, <1>5 DEF Next

-----------------------------------------------------------------------------

\* The inductive invariant of nodeNVMf: a subsystem is touched only by the
\* call that uses its volume, which knows what it has built so far.
THEOREM Invariance == Spec => []IInv
<1>1. Init => IInv
  BY InitIInv
<1>2. IInv /\ [Next]_vars => IInv'
  BY NextIInv
<1> QED
  BY <1>1, <1>2, PTL DEF Spec

\* PublishVolume and UnpublishVolume leave a volume exported or without a
\* subsystem, whichever RPCs fail, but for the failures recorded in `broken'.
THEOREM PublishedWhole == Spec => []AllOrNothing
<1>1. IInv => AllOrNothing
  BY DEF IInv
<1> QED
  BY <1>1, Invariance, PTL

\* When UnpublishVolume returns success the volume has no listener.
THEOREM UnpublishedIsHidden == Spec => []UnpublishHides
<1>1. IInv => UnpublishHides
  BY DEF IInv, Knows, UnpublishHides
<1> QED
  BY <1>1, Invariance, PTL
=============================================================================
