-------------------------- MODULE Planning_proofs --------------------------
(***************************************************************************)
(* Proofs about Planning: what holds of the graph and of the planner alone *)
(* holds of a run that has them take turns, and from input to message no   *)
(* intent is lost, repeated or sent before a writer that it follows.       *)
(***************************************************************************)
EXTENDS Planning, Dag_proofs, ChunkPlanner_proofs, TLAPS

-----------------------------------------------------------------------------
(* The nodes of a layer in ascending order.                                *)

\* A layer lists each of its nodes once.
LEMMA InOrderFacts ==
    ASSUME NEW L \in SUBSET Nat, IsFiniteSet(L)
    PROVE  /\ Cardinality(L) \in Nat /\ DOMAIN InOrder(L) = 1 .. Cardinality(L)
           /\ Len(InOrder(L)) = Cardinality(L)
           /\ InOrder(L) \in [1 .. Cardinality(L) -> L]
           /\ \A j, k \in 1 .. Cardinality(L) : InOrder(L)[j] = InOrder(L)[k] => j = k
           /\ \A v \in L : \E k \in 1 .. Cardinality(L) : InOrder(L)[k] = v
<1> DEFINE n == Cardinality(L)
           Under(v) == {u \in L : u < v}
           rank == [v \in L |-> Cardinality(Under(v)) + 1]
<1>1. n \in Nat
  BY FS_CardinalityType
<1>2. \A v \in L : /\ IsFiniteSet(Under(v)) /\ Cardinality(Under(v)) \in Nat
                   /\ Cardinality(Under(v)) < n
  <2> TAKE v \in L
  <2>1. Under(v) \subseteq L /\ v \notin Under(v)
    OBVIOUS
  <2> HIDE DEF Under
  <2>2. /\ IsFiniteSet(Under(v)) /\ Cardinality(Under(v)) <= n
        /\ Cardinality(Under(v)) = n => Under(v) = L
    BY <2>1, FS_Subset
  <2>3. Cardinality(Under(v)) \in Nat
    BY <2>2, FS_CardinalityType
  <2>4. QED
    BY <1>1, <2>1, <2>2, <2>3
<1>3. ASSUME NEW u \in L, NEW v \in L, u < v
      PROVE  Cardinality(Under(u)) < Cardinality(Under(v))
  <2>1. Under(u) \subseteq Under(v) /\ u \in Under(v) /\ u \notin Under(u)
    <3>1. \A x \in L : x < u => x < v
      <4>1. \A x, y, z \in Nat : x < y /\ y < z => x < z
        OBVIOUS
      <4>2. QED
        BY <1>3, <4>1
    <3>2. ~ u < u
      OBVIOUS
    <3>3. QED
      BY <1>3, <3>1, <3>2
  <2>2. IsFiniteSet(Under(v)) /\ Cardinality(Under(u)) \in Nat /\ Cardinality(Under(v)) \in Nat
    BY <1>2
  <2> HIDE DEF Under
  <2>3. /\ Cardinality(Under(u)) <= Cardinality(Under(v))
        /\ Cardinality(Under(u)) = Cardinality(Under(v)) => Under(u) = Under(v)
    BY <2>1, <2>2, FS_Subset
  <2>4. QED
    BY <2>1, <2>2, <2>3
<1>4. \A u, v \in L : Cardinality(Under(u)) = Cardinality(Under(v)) => u = v
  <2> SUFFICES ASSUME NEW u \in L, NEW v \in L, Cardinality(Under(u)) = Cardinality(Under(v)),
                      u # v
               PROVE  FALSE
    OBVIOUS
  <2>1. u < v \/ v < u
    OBVIOUS
  <2>2. Cardinality(Under(u)) \in Nat
    BY <1>2
  <2> HIDE DEF Under
  <2>3. QED
    BY <1>3, <2>1, <2>2
<1>5. rank \in Injection(L, 1 .. n)
  <2>1. \A v \in L : rank[v] \in 1 .. n
    BY <1>1, <1>2
  <2>2. ASSUME NEW u \in L, NEW v \in L, rank[u] = rank[v]
        PROVE  u = v
    <3>1. Cardinality(Under(u)) + 1 = Cardinality(Under(v)) + 1
      BY <2>2
    <3>2. Cardinality(Under(u)) \in Nat /\ Cardinality(Under(v)) \in Nat
      BY <1>2
    <3> HIDE DEF Under
    <3>3. Cardinality(Under(u)) = Cardinality(Under(v))
      BY <3>1, <3>2
    <3>4. QED
      BY <1>4, <3>3
  <2>3. rank \in [L -> 1 .. n]
    BY <2>1
  <2>4. DOMAIN rank = L
    OBVIOUS
  <2> HIDE DEF rank
  <2>5. QED
    BY <2>2, <2>3, <2>4 DEF Injection, IsInjective
<1>6. \A k \in 1 .. n : \E v \in L : Cardinality(Under(v)) = k - 1
  <2>1. IsFiniteSet(1 .. n) /\ Cardinality(1 .. n) = n
    BY <1>1, FS_Interval
  <2>2. rank \in Surjection(L, 1 .. n)
    <3> HIDE DEF rank
    <3> QED
      BY <1>5, <2>1, FS_Injection
  <2>3. ASSUME NEW k \in 1 .. n
        PROVE  \E v \in L : Cardinality(Under(v)) = k - 1
    <3>1. PICK v \in L : rank[v] = k
      BY <2>2 DEF Surjection
    <3>2. Cardinality(Under(v)) + 1 = k /\ Cardinality(Under(v)) \in Nat
      BY <1>2, <3>1
    <3> HIDE DEF Under
    <3>3. Cardinality(Under(v)) = k - 1
      BY <3>2
    <3>4. QED
      BY <3>3
  <2>4. QED
    BY <2>3
<1> DEFINE node(k) == CHOOSE v \in L : Cardinality(Under(v)) = k - 1
<1>7. \A k \in 1 .. n : node(k) \in L /\ Cardinality(Under(node(k))) = k - 1
  BY <1>6
<1>8. InOrder(L) = [k \in 1 .. n |-> node(k)]
  BY DEF InOrder
<1> HIDE DEF node, Under
<1>9. \A j, k \in 1 .. n : node(j) = node(k) => j = k
  <2> SUFFICES ASSUME NEW j \in 1 .. n, NEW k \in 1 .. n, node(j) = node(k)
               PROVE  j = k
    OBVIOUS
  <2>1. j - 1 = k - 1
    BY <1>7
  <2>2. QED
    BY <2>1
<1>10. \A v \in L : \E k \in 1 .. n : node(k) = v
  <2> TAKE v \in L
  <2> DEFINE k == Cardinality(Under(v)) + 1
  <2>1. k \in 1 .. n /\ Cardinality(Under(v)) = k - 1
    BY <1>1, <1>2
  <2> HIDE DEF k
  <2>2. node(k) \in L /\ Cardinality(Under(node(k))) = Cardinality(Under(v))
    BY <1>7, <2>1
  <2>3. node(k) = v
    BY <1>4, <2>2
  <2>4. QED
    BY <2>1, <2>3
<1>11. /\ DOMAIN InOrder(L) = 1 .. n /\ InOrder(L) \in [1 .. n -> L] /\ Len(InOrder(L)) = n
  <2>1. InOrder(L) \in [1 .. n -> L]
    BY <1>7, <1>8
  <2>2. InOrder(L) \in Seq(L)
    BY <1>1, <2>1
  <2>3. QED
    BY <1>1, <2>1, <2>2
<1>12. QED
  BY <1>1, <1>8, <1>9, <1>10, <1>11

-----------------------------------------------------------------------------
(* The invariant.                                                          *)

\* A message: the intents that it holds, and whether it could be built.
Message == [nodes : Seq(Nodes), built : BOOLEAN]

\* What the run is given, and the baseline and the messages, have their types.
InputInv ==
    /\ footprints \in [Nodes -> Footprints]
    /\ opts \in Options
    /\ sent \in Seq(Seq(Message))
    /\ baseline \in [count : Nat, state : {"running", "refused", "failed"}]

\* The planner is idle or has the layer that is in turn.
TurnInv ==
    /\ layer = <<>> => Idle
    /\ phase \in {"merge", "done"} => acc = Empty
    /\ layer # <<>> =>
          /\ stage = "done" /\ mode # "baseline" /\ Len(sent) < Len(layers)
          /\ DOMAIN layer = 1 .. Cardinality(LayerInTurn)
          /\ Len(layer) = Cardinality(LayerInTurn)
          /\ \A i \in DOMAIN layer : layer[i] = footprints[InOrder(LayerInTurn)[i]]

\* The messages of a layer list its nodes once, in the order of the layer.
Lists(messages, L) ==
    \E list \in Seq(PlanRecord) :
        /\ Chained(list) /\ End(list, Len(list)) = Cardinality(L)
        /\ DOMAIN messages = DOMAIN list
        /\ \A p \in DOMAIN list :
              messages[p].nodes = [k \in DOMAIN list[p].nodes |-> InOrder(L)[list[p].nodes[k]]]

\* The layers before the one in turn were sent.
SentInv ==
    /\ Len(sent) <= Len(layers)
    /\ sent # <<>> => stage = "done"
    /\ \A m \in DOMAIN sent : Lists(sent[m], layers[m])

\* What was built would be built alone, and a refined budget has all built.
BuiltInv ==
    /\ \A m \in DOMAIN sent : \A p \in DOMAIN sent[m] :
          /\ RefinedBudget => sent[m][p].built
          /\ sent[m][p].built =>
                \A k \in DOMAIN sent[m][p].nodes : BuildsAlone(footprints[sent[m][p].nodes[k]])
    /\ baseline.state = "refused" =>
          baseline.count \in Nodes /\ ~ BuildsAlone(footprints[baseline.count])

\* The invariant of a run.
PlanningInv ==
    /\ IInv
    /\ PlannerInv
    /\ InputInv
    /\ TurnInv
    /\ SentInv
    /\ BuiltInv

-----------------------------------------------------------------------------
(* Steps that the messages are not made by.                                *)

\* What depends on the budgets and the input alone stays as it is.
LEMMA InputFrame ==
    ASSUME opts' = opts
    PROVE  /\ Empty' = Empty
           /\ \A fp : BuildsAlone(fp)' <=> BuildsAlone(fp)
           /\ RefinedBudget' <=> RefinedBudget
  BY DEF Empty, BuildsAlone, RefinedBudget

\* Without a layer the planner is fresh.
LEMMA IdleHolds == opts \in Options /\ Idle => PlannerInv
<1>1. opts \in Options /\ Idle => Fresh
  BY DEF Idle, Fresh
<1>2. QED
  BY <1>1, FreshHolds

\* The same of the next state.
LEMMA IdleHoldsNext == (opts \in Options /\ Idle)' => PlannerInv'
  BY IdleHolds, PTL

\* A layer that is about to be packed is in order in the next state too.
LEMMA FreshHoldsNext == Fresh' => PlannerInv'
  BY FreshHolds, PTL

\* Nothing is sent when the run starts.
LEMMA PlanningInitHolds == PlanningInit => PlanningInv
<1> SUFFICES ASSUME PlanningInit
             PROVE  PlanningInv
  OBVIOUS
<1>1. PICK b \in Batches :
          /\ mode = b.mode /\ footprints = b.footprints /\ opts = b.opts
          /\ Init /\ Idle /\ sent = <<>>
          /\ baseline = [count |-> 0, state |-> "running"]
  BY DEF PlanningInit
<1>2. footprints \in [Nodes -> Footprints] /\ opts \in Options
  BY <1>1, PlanningAssumption DEF Batch
<1>3. IInv
  BY <1>1, InvInit
<1>4. PlannerInv
  BY <1>1, <1>2, IdleHolds
<1>5. InputInv
  BY <1>1, <1>2 DEF InputInv
<1>6. TurnInv
  BY <1>1 DEF TurnInv, Idle
<1>7. SentInv
  BY <1>1 DEF SentInv, Init
<1>8. BuiltInv
  BY <1>1 DEF BuiltInv
<1>9. QED
  BY <1>3, <1>4, <1>5, <1>6, <1>7, <1>8 DEF PlanningInv

\* The graph is built and peeled before anything is planned.
LEMMA GraphStepKeeps ==
    ASSUME PlanningInv, GraphStep
    PROVE  PlanningInv'
<1>1. IInv /\ PlannerInv /\ InputInv /\ TurnInv /\ SentInv /\ BuiltInv
  BY DEF PlanningInv
<1>2. UNCHANGED plannerVars /\ UNCHANGED <<runVars, sent, baseline>>
  BY DEF GraphStep
<1>3. IInv'
  BY <1>1, ChainStep, StartStep, PeelStep, FinishStep DEF GraphStep
<1>4. stage # "done"
  BY DEF GraphStep, Chain, StartLayers, PeelLayer, FinishLayers
<1>5. sent = <<>> /\ layer = <<>>
  BY <1>1, <1>4 DEF SentInv, TurnInv
<1>6. /\ phase' = phase /\ opts' = opts /\ layer' = layer /\ next' = next /\ acc' = acc
      /\ chunks' = chunks /\ head' = head /\ plans' = plans
      /\ footprints' = footprints /\ mode' = mode /\ sent' = sent /\ baseline' = baseline
  BY <1>2 DEF plannerVars, runVars
<1>7. PlannerInv'
  BY <1>1, <1>2, PlannerStutter
<1>8. InputInv'
  BY <1>1, <1>6 DEF InputInv
<1>9. TurnInv'
  BY <1>1, <1>5, <1>6, InputFrame DEF TurnInv, Idle
<1>10. SentInv'
  <2>1. layers' \in Seq(SUBSET Nodes)
    BY <1>3 DEF IInv, TypeOK
  <2>2. Len(layers') \in Nat
    BY <2>1
  <2>3. QED
    BY <1>5, <1>6, <2>2 DEF SentInv
<1>11. BuiltInv'
  BY <1>1, <1>5, <1>6, InputFrame DEF BuiltInv
<1>12. QED
  BY <1>3, <1>7, <1>8, <1>9, <1>10, <1>11 DEF PlanningInv

\* Whether messages list the nodes of a layer is not a matter of the state.
LEMMA ListsFrame == \A messages, L : Lists(messages, L)' <=> Lists(messages, L)
  BY DEF Lists, Chained, End, InOrder, PlanRecord

\* What does not change the layers, the messages or the baseline.
LEMMA SentFrame ==
    ASSUME PlanningInv, UNCHANGED vars, UNCHANGED <<runVars, sent, baseline>>, opts' = opts
    PROVE  IInv' /\ InputInv' /\ SentInv' /\ BuiltInv'
<1>1. IInv /\ InputInv /\ SentInv /\ BuiltInv
  BY DEF PlanningInv
<1>2. /\ layers' = layers /\ stage' = stage /\ footprints' = footprints
      /\ sent' = sent /\ baseline' = baseline /\ opts' = opts
  BY DEF vars, buildVars, layerVars, runVars
<1>3. IInv'
  BY <1>1, StutterStep
<1>4. InputInv'
  BY <1>1, <1>2 DEF InputInv
<1>5. SentInv'
  BY <1>1, <1>2, ListsFrame DEF SentInv
<1>6. BuiltInv'
  BY <1>1, <1>2, InputFrame DEF BuiltInv
<1>7. QED
  BY <1>3, <1>4, <1>5, <1>6

\* The layer in turn has nodes, and a footprint for each.
LEMMA TurnFacts ==
    ASSUME IInv, NEW k \in DOMAIN layers
    PROVE  /\ layers[k] \in SUBSET Nodes /\ layers[k] \in SUBSET Nat
           /\ IsFiniteSet(layers[k]) /\ layers[k] # {}
           /\ Cardinality(layers[k]) \in 1 .. NodeCount
<1>1. layers \in Seq(SUBSET Nodes) /\ layers[k] # {}
  BY DEF IInv, TypeOK, DisjointInv
<1>2. layers[k] \in SUBSET Nodes
  BY <1>1
<1>3. Nodes \subseteq Nat
  BY NodeCountAssumption DEF Nodes
<1>4. IsFiniteSet(layers[k]) /\ Cardinality(layers[k]) \in 0 .. NodeCount
      /\ Cardinality(layers[k]) # 0
  BY <1>1, <1>2, NodeSets
<1>5. Cardinality(layers[k]) \in 1 .. NodeCount
  BY <1>4, NodeCountAssumption
<1>6. QED
  BY <1>1, <1>2, <1>3, <1>4, <1>5

\* The next layer is given to the planner.
LEMMA BeginLayerKeeps ==
    ASSUME PlanningInv, BeginLayer
    PROVE  PlanningInv'
<1> DEFINE L == LayerInTurn
           list == InOrder(L)
<1>1. IInv /\ PlannerInv /\ InputInv /\ TurnInv /\ SentInv /\ BuiltInv
  BY DEF PlanningInv
<1>2. /\ stage = "done" /\ mode # "baseline" /\ layer = <<>> /\ Len(sent) < Len(layers)
      /\ layer' = [i \in DOMAIN list |-> footprints[list[i]]] /\ phase' = "pack"
      /\ UNCHANGED vars /\ UNCHANGED <<runVars, sent, baseline>>
      /\ opts' = opts /\ next' = next /\ acc' = acc /\ chunks' = chunks
      /\ head' = head /\ plans' = plans
  BY DEF BeginLayer
<1>3. IInv' /\ InputInv' /\ SentInv' /\ BuiltInv'
  BY <1>2, SentFrame
<1>4. /\ layers' = layers /\ stage' = stage /\ sent' = sent /\ mode' = mode
      /\ footprints' = footprints /\ L' = L
  BY <1>2 DEF vars, buildVars, layerVars, runVars, LayerInTurn
<1>5. /\ L \in SUBSET Nodes /\ L \in SUBSET Nat /\ IsFiniteSet(L)
      /\ Cardinality(L) \in 1 .. NodeCount
  <2>1. layers \in Seq(SUBSET Nodes) /\ sent \in Seq(Seq(Message))
    BY <1>1 DEF IInv, TypeOK, InputInv
  <2>2. Len(sent) + 1 \in DOMAIN layers
    BY <1>2, <2>1
  <2>3. QED
    BY <1>1, <2>2, TurnFacts DEF LayerInTurn
<1>6. /\ DOMAIN list = 1 .. Cardinality(L) /\ list \in [1 .. Cardinality(L) -> L]
  BY <1>5, InOrderFacts
<1>7. /\ layer' \in Seq(Footprints) /\ Len(layer') = Cardinality(L) /\ layer' # <<>>
      /\ DOMAIN layer' = 1 .. Cardinality(L)
  <2>1. \A i \in 1 .. Cardinality(L) : footprints[list[i]] \in Footprints
    BY <1>1, <1>5, <1>6 DEF InputInv
  <2>2. layer' \in [1 .. Cardinality(L) -> Footprints]
    BY <1>2, <1>6, <2>1
  <2>3. Cardinality(L) \in Nat \ {0}
    BY <1>5, NodeCountAssumption
  <2>4. layer' \in Seq(Footprints)
    BY <2>2, <2>3
  <2>5. QED
    BY <2>2, <2>3, <2>4
<1>8. PlannerInv'
  <2>1. Fresh'
    BY <1>1, <1>2, <1>7, InputFrame DEF TurnInv, Idle, Fresh, InputInv
  <2>2. QED
    BY <2>1, FreshHoldsNext
<1>9. TurnInv'
  <2>1. \A i \in DOMAIN layer' : layer'[i] = footprints'[list'[i]]
    BY <1>2, <1>4, <1>6, <1>7 
  <2>2. QED
    BY <1>2, <1>4, <1>7, <2>1 DEF TurnInv
<1>10. QED
  BY <1>3, <1>8, <1>9 DEF PlanningInv

\* The planner treats the layer in turn as it would any other.
LEMMA PlanStepKeeps ==
    ASSUME PlanningInv, PlanStep
    PROVE  PlanningInv'
<1>1. IInv /\ PlannerInv /\ InputInv /\ TurnInv /\ SentInv /\ BuiltInv
  BY DEF PlanningInv
<1>2. UNCHANGED vars /\ UNCHANGED <<runVars, sent, baseline>>
  BY DEF PlanStep
<1>3. /\ phase \in {"pack", "merge"} /\ opts' = opts /\ layer' = layer
      /\ \/ phase' = "failed"
         \/ phase' = "pack"
         \/ acc' = Empty
         \/ phase = "merge" /\ acc' = acc
  BY DEF PlanStep, TooLarge, AddToChunk, StartChunk, FinishPacking, MergeNext, CloseHead,
         Packing
<1>4. PlannerInv'
  BY <1>1, TooLargeKeeps, AddToChunkKeeps, StartChunkKeeps, FinishPackingKeeps,
     MergeNextKeeps, CloseHeadKeeps DEF PlanStep
<1>5. IInv' /\ InputInv' /\ SentInv' /\ BuiltInv'
  BY <1>2, <1>3, SentFrame
<1>6. TurnInv'
  <2>1. layer # <<>>
    BY <1>1, <1>3 DEF TurnInv, Idle
  <2>2. phase' \in {"merge", "done"} => acc' = Empty'
    BY <1>1, <1>3, InputFrame DEF TurnInv
  <2>3. /\ layers' = layers /\ stage' = stage /\ sent' = sent /\ mode' = mode
        /\ footprints' = footprints /\ LayerInTurn' = LayerInTurn
    BY <1>2 DEF vars, buildVars, layerVars, runVars, LayerInTurn
  <2>4. \A i \in DOMAIN layer : layer'[i] = footprints'[InOrder(LayerInTurn')[i]]
    BY <1>1, <1>3, <2>1, <2>3 DEF TurnInv
  <2>5. QED
    BY <1>1, <1>3, <2>1, <2>2, <2>3, <2>4 DEF TurnInv
<1>7. QED
  BY <1>4, <1>5, <1>6 DEF PlanningInv

\* The baseline stops at an intent that cannot be built alone.
LEMMA BaselineKeeps ==
    ASSUME PlanningInv, BaselineSends \/ BaselineFails
    PROVE  PlanningInv'
<1>1. IInv /\ PlannerInv /\ InputInv /\ TurnInv /\ SentInv /\ BuiltInv
  BY DEF PlanningInv
<1>2. /\ UNCHANGED vars /\ UNCHANGED plannerVars /\ UNCHANGED runVars /\ sent' = sent
      /\ baseline.count < NodeCount
      /\ \/ /\ BuildsAlone(footprints[baseline.count])
            /\ baseline' = [baseline EXCEPT !.count = @ + 1]
            /\ baseline.state = "running"
         \/ /\ ~ BuildsAlone(footprints[baseline.count])
            /\ baseline' = [baseline EXCEPT !.state = "refused"]
         \/ baseline' = [baseline EXCEPT !.state = "failed"]
  BY DEF BaselineSends, BaselineFails, BaselineTurn
<1>3. /\ phase' = phase /\ opts' = opts /\ layer' = layer /\ next' = next /\ acc' = acc
      /\ chunks' = chunks /\ head' = head /\ plans' = plans
      /\ footprints' = footprints /\ mode' = mode /\ sent' = sent
      /\ layers' = layers /\ stage' = stage
  BY <1>2 DEF plannerVars, runVars, vars, buildVars, layerVars
<1>4. IInv' /\ PlannerInv'
  BY <1>1, <1>2, StutterStep, PlannerStutter
<1>5. /\ baseline.count \in Nat /\ baseline.count \in Nodes
      /\ baseline' \in [count : Nat, state : {"running", "refused", "failed"}]
      /\ baseline'.state = "refused" =>
            baseline'.count = baseline.count /\ ~ BuildsAlone(footprints[baseline.count])
  <2>1. baseline \in [count : Nat, state : {"running", "refused", "failed"}]
    BY <1>1 DEF InputInv
  <2>2. baseline.count \in Nat /\ baseline.count + 1 \in Nat
    BY <2>1
  <2>3. baseline.count \in Nodes
    BY <1>2, <2>2, NodeCountAssumption DEF Nodes
  <2> DEFINE more == baseline.count + 1
  <2>4. baseline' = [baseline EXCEPT !.count = more]
        => /\ baseline' \in [count : Nat, state : {"running", "refused", "failed"}]
           /\ baseline'.state = baseline.state
    <3> more \in Nat
      BY <2>2
    <3> HIDE DEF more
    <3> QED
      BY <2>1
  <2>5. \A x \in {"refused", "failed"} :
           baseline' = [baseline EXCEPT !.state = x]
           => /\ baseline' \in [count : Nat, state : {"running", "refused", "failed"}]
              /\ baseline'.state = x /\ baseline'.count = baseline.count
    BY <2>1
  <2>6. QED
    BY <1>2, <2>2, <2>3, <2>4, <2>5
<1>6. InputInv'
  BY <1>1, <1>3, <1>5 DEF InputInv
<1>7. TurnInv'
  BY <1>1, <1>3, InputFrame DEF TurnInv, Idle, LayerInTurn
<1>8. SentInv'
  BY <1>1, <1>3, ListsFrame DEF SentInv
<1>9. BuiltInv'
  BY <1>1, <1>3, <1>5, InputFrame DEF BuiltInv
<1>10. QED
  BY <1>4, <1>6, <1>7, <1>8, <1>9 DEF PlanningInv

-----------------------------------------------------------------------------
(* What is built.                                                          *)

\* A message needs no more than what is added, its keys, the payer's among
\* them, and its instructions; with fewer of these it needs no more.
LEMMA CompiledFacts ==
    ASSUME NEW keys, IsFiniteSet(keys), NEW bytes \in Nat
    PROVE  /\ Cardinality(keys) \in Nat /\ CompiledBytes(keys, bytes) \in Nat
           /\ CompiledBytes(keys, bytes) <= 123 + 32 * Cardinality(keys) + bytes
           /\ \A S \in SUBSET keys, b \in Nat :
                 b <= bytes => /\ CompiledBytes(S, b) \in Nat
                               /\ CompiledBytes(S, b) <= CompiledBytes(keys, bytes)
<1> DEFINE full == keys \cup {Payer}
<1>1. /\ IsFiniteSet(full) /\ Cardinality(keys) \in Nat /\ Cardinality(full) \in Nat
      /\ Cardinality(full) <= Cardinality(keys) + 1
  <2>1. /\ IsFiniteSet(full)
        /\ Cardinality(full) = IF Payer \in keys THEN Cardinality(keys) ELSE Cardinality(keys) + 1
    BY FS_AddElement
  <2>2. Cardinality(keys) \in Nat
    BY FS_CardinalityType
  <2>3. QED
    BY <2>1, <2>2
<1>2. \A S, b : CompiledBytes(S, b) = 38 + 21 + 32 * (Cardinality(S \cup {Payer}) + 1) + b
  <2>1. AddedBytes = 21
    BY DEF AddedBytes
  <2>2. QED
    BY <2>1 DEF CompiledBytes, BaseBytes, KeyBytes
<1>3. \A c, b \in Nat : /\ 38 + 21 + 32 * (c + 1) + b \in Nat
                        /\ 38 + 21 + 32 * (c + 1) + b = 91 + 32 * c + b
  OBVIOUS
<1>4. ASSUME NEW S \in SUBSET keys, NEW b \in Nat, b <= bytes
      PROVE  CompiledBytes(S, b) \in Nat /\ CompiledBytes(S, b) <= CompiledBytes(keys, bytes)
  <2> DEFINE some == S \cup {Payer}
  <2>1. some \subseteq full
    OBVIOUS
  <2> HIDE DEF full
  <2>2. IsFiniteSet(some) /\ Cardinality(some) <= Cardinality(full)
    <3> HIDE DEF some
    <3> QED
      BY <1>1, <2>1, FS_Subset
  <2>3. Cardinality(some) \in Nat
    BY <2>2, FS_CardinalityType
  <2> DEFINE x == Cardinality(some)
             y == Cardinality(full)
  <2>4. CompiledBytes(S, b) = 91 + 32 * x + b /\ CompiledBytes(keys, bytes) = 91 + 32 * y + bytes
    BY <1>1, <1>2, <1>3, <2>3 DEF full
  <2>5. x \in Nat /\ y \in Nat /\ x <= y
    BY <1>1, <2>2, <2>3
  <2> HIDE DEF x, y
  <2>6. 91 + 32 * x + b \in Nat /\ 91 + 32 * x + b <= 91 + 32 * y + bytes
    BY <1>4, <2>5
  <2>7. QED
    BY <2>4, <2>6
<1>5. CompiledBytes(keys, bytes) <= 123 + 32 * Cardinality(keys) + bytes
  <2> DEFINE x == Cardinality(keys)
             y == Cardinality(full)
  <2>1. CompiledBytes(keys, bytes) = 91 + 32 * y + bytes
    BY <1>1, <1>2, <1>3
  <2>2. x \in Nat /\ y \in Nat /\ y <= x + 1
    BY <1>1
  <2> HIDE DEF x, y
  <2>3. 91 + 32 * y + bytes <= 123 + 32 * x + bytes
    BY <2>2
  <2>4. QED
    BY <2>1, <2>3 DEF x
<1>6. QED
  BY <1>1, <1>4, <1>5

\* An intent of a plan brings keys and bytes of its own into the message.
LEMMA PartOfMessage ==
    ASSUME layer \in Seq(Footprints), NEW A \in SUBSET DOMAIN layer, NEW i \in A
    PROVE  /\ SumBytes(A) \in Nat
           /\ Range(layer[i].keys) = KeysOf(layer[i])
           /\ KeysOf(layer[i]) \subseteq UnionOfKeys(A)
           /\ layer[i].bytes \in Nat /\ layer[i].bytes <= SumBytes(A)
<1>1. i \in DOMAIN layer /\ layer[i] \in Footprints
  OBVIOUS
<1>2. layer[i].bytes \in Nat /\ layer[i].keys \in Seq(Keys)
  BY <1>1, PlannerAssumption DEF Footprint
<1>3. Range(layer[i].keys) = KeysOf(layer[i])
  BY DEF Range, KeysOf
<1>4. KeysOf(layer[i]) \subseteq UnionOfKeys(A)
  BY DEF UnionOfKeys
<1>5. layer[i].bytes <= SumBytes(A) /\ SumBytes(A) \in Nat
  <2> DEFINE one == {i}
             rest == A \ {i}
  <2>1. /\ one \in SUBSET DOMAIN layer /\ rest \in SUBSET DOMAIN layer
        /\ one \cap rest = {} /\ one \cup rest = A
    OBVIOUS
  <2>2. BytesIn(layer, one) = layer[i].bytes
    BY <1>1, BytesInFacts
  <2> HIDE DEF one, rest
  <2>3. /\ BytesIn(layer, one \cup rest) = BytesIn(layer, one) + BytesIn(layer, rest)
        /\ BytesIn(layer, rest) \in Nat
    BY <2>1, BytesInFacts
  <2>4. /\ BytesIn(layer, A) = layer[i].bytes + BytesIn(layer, rest)
    BY <2>1, <2>2, <2>3
  <2> DEFINE x == BytesIn(layer, rest)
             y == layer[i].bytes
  <2>5. x \in Nat /\ y \in Nat /\ BytesIn(layer, A) = y + x
    BY <1>2, <2>3, <2>4
  <2> HIDE DEF x, y
  <2>6. y <= BytesIn(layer, A) /\ BytesIn(layer, A) \in Nat
    BY <2>5
  <2>7. QED
    BY <2>6 DEF y, SumBytes
<1>6. QED
  BY <1>2, <1>3, <1>4, <1>5

\* What is built of a plan would be built alone; and under a refined budget a
\* plan is built.
LEMMA BuildsFacts ==
    ASSUME PlannerInv, NEW p \in DOMAIN plans
    PROVE  /\ Builds(plans[p]) =>
                 \A k \in DOMAIN plans[p].nodes : BuildsAlone(layer[plans[p].nodes[k]])
           /\ RefinedBudget => Builds(plans[p])
<1> DEFINE plan == plans[p]
           A == NodesOf(plan)
           U == UnionOfKeys(A)
           s == SumBytes(A)
           c == CompiledBytes(U, s)
<1>1. /\ opts \in Options /\ layer \in Seq(Footprints) /\ plans \in Seq(PlanRecord)
      /\ PlanInv(chunks, plan)
  BY RecordFacts DEF PlannerInv, PlansInv
<1>2. OptionTypes
  BY <1>1, OptionsTyped
<1>3. /\ opts.slack \in Nat /\ opts.maxBytes \in Nat /\ opts.maxMessage \in Nat
  BY <1>2 DEF OptionTypes
<1>4. plan \in PlanRecord /\ plan.bytes \in Nat /\ plan.nodes # <<>> /\ A \in SUBSET DOMAIN layer
  <2>1. plan \in PlanRecord
    BY <1>1
  <2>2. A \in SUBSET DOMAIN layer
    BY <1>1 DEF PlanInv
  <2>3. QED
    BY <2>1, <2>2 DEF PlanRecord
<1>5. IsFiniteSet(U) /\ s \in Nat
  <2>1. IsFiniteSet(U)
    BY <1>1, <1>4, UnionFacts
  <2>2. s \in Nat
    BY <1>1, <1>4, BytesInFacts DEF SumBytes
  <2>3. QED
    BY <2>1, <2>2
<1>6. Builds(plan) <=> c <= opts.maxMessage
  <2>1. MapThenSumSet(LAMBDA i : layer[i].bytes, A) = s
    BY DEF SumBytes, BytesIn
  <2>2. QED
    BY <1>4, <2>1 DEF Builds
<1>7. /\ Cardinality(U) \in Nat /\ c \in Nat /\ c <= 123 + 32 * Cardinality(U) + s
      /\ \A S \in SUBSET U, b \in Nat :
            b <= s => CompiledBytes(S, b) \in Nat /\ CompiledBytes(S, b) <= c
  <2> HIDE DEF U, s
  <2> QED
    BY <1>5, CompiledFacts
<1>8. ASSUME Builds(plan), NEW k \in DOMAIN plan.nodes
      PROVE  BuildsAlone(layer[plan.nodes[k]])
  <2> DEFINE i == plan.nodes[k]
             b == layer[i].bytes
             S == KeysOf(layer[i])
             one == CompiledBytes(S, b)
  <2>1. i \in A
    BY DEF NodesOf
  <2>2. /\ Range(layer[i].keys) = S /\ S \in SUBSET U /\ b \in Nat /\ b <= s
    <3> HIDE DEF A, i
    <3> QED
      BY <1>1, <1>4, <2>1, PartOfMessage
  <2>3. one \in Nat /\ one <= c
    BY <1>7, <2>2
  <2>4. c <= opts.maxMessage
    BY <1>6, <1>8
  <2>5. one <= opts.maxMessage
    <3> HIDE DEF one, c
    <3>1. \A x, y, z \in Nat : x <= y /\ y <= z => x <= z
      OBVIOUS
    <3>2. QED
      BY <1>3, <1>7, <2>3, <2>4, <3>1
  <2>6. QED
    BY <2>2, <2>5 DEF BuildsAlone
<1>9. ASSUME RefinedBudget
      PROVE  Builds(plan)
  <2> DEFINE n == Cardinality(U)
             l == opts.slack
             m == opts.maxBytes
             M == opts.maxMessage
             q == plan.bytes
  <2>1. KeyCost(n) = 32 * n
    BY <1>7, <1>9 DEF RefinedBudget, KeyCost, InMessage, KeyBytes, IndexBytes
  <2>2. /\ m - l + 21 + 2 * 32 <= M
        /\ opts.merge => 21 + 2 * 32 <= 38 + 2 * l
    <3>1. AddedBytes = 21
      BY DEF AddedBytes
    <3>2. QED
      BY <1>9, <3>1 DEF RefinedBudget, BaseBytes, KeyBytes
  <2>3. \/ 1 * (38 + l) + 32 * n + s <= q /\ q <= m
        \/ opts.merge /\ 2 * (38 + l) + 32 * n + s <= q /\ q <= M
    BY <1>1, <2>1 DEF PlanInv, BytesCover, BaseBytes
  <2>4. /\ l \in Nat /\ m \in Nat /\ M \in Nat /\ q \in Nat /\ n \in Nat /\ s \in Nat /\ c \in Nat
        /\ c <= 123 + 32 * n + s
    BY <1>3, <1>4, <1>5, <1>7
  <2> HIDE DEF n, l, m, M, q, s, c
  <2>5. c <= M
    <3>1. CASE 1 * (38 + l) + 32 * n + s <= q /\ q <= m
      BY <2>2, <2>4, <3>1
    <3>2. CASE opts.merge /\ 2 * (38 + l) + 32 * n + s <= q /\ q <= M
      BY <2>2, <2>4, <3>2
    <3>3. QED
      BY <2>3, <3>1, <3>2
  <2>6. QED
    BY <1>6, <2>5 DEF M
<1>10. QED
  BY <1>8, <1>9

\* The messages that a layer is sent in.
Messages ==
    [p \in DOMAIN plans |-> [nodes |-> NodesOfPlan(plans[p]), built |-> Builds(plans[p])]]

\* They list the layer's nodes, and what was built would be built alone.
LEMMA MessagesFacts ==
    ASSUME PlanningInv, phase = "done", layer # <<>>
    PROVE  /\ Messages \in Seq(Message) /\ Lists(Messages, LayerInTurn)
           /\ \A p \in DOMAIN Messages :
                 /\ RefinedBudget => Messages[p].built
                 /\ Messages[p].built =>
                       \A k \in DOMAIN Messages[p].nodes :
                          BuildsAlone(footprints[Messages[p].nodes[k]])
<1> DEFINE L == LayerInTurn
           n == Cardinality(L)
<1>1. /\ IInv /\ PlannerInv /\ InputInv /\ Len(sent) < Len(layers)
      /\ DOMAIN layer = 1 .. n /\ Len(layer) = n
      /\ \A i \in DOMAIN layer : layer[i] = footprints[InOrder(L)[i]]
  BY DEF PlanningInv, TurnInv
<1>2. L \in SUBSET Nodes /\ L \in SUBSET Nat /\ IsFiniteSet(L)
  <2>1. layers \in Seq(SUBSET Nodes) /\ sent \in Seq(Seq(Message))
    BY <1>1 DEF IInv, TypeOK, InputInv
  <2>2. Len(sent) + 1 \in DOMAIN layers
    BY <1>1, <2>1
  <2>3. QED
    BY <1>1, <2>2, TurnFacts DEF LayerInTurn
<1>3. InOrder(L) \in [1 .. n -> L]
  BY <1>2, InOrderFacts
<1>4. /\ plans \in Seq(PlanRecord) /\ Chained(plans) /\ End(plans, Len(plans)) = n
      /\ \A p \in DOMAIN plans : NodesOf(plans[p]) \subseteq DOMAIN layer
  BY <1>1, RecordFacts DEF PlannerInv, PlansInv, ProgressInv, PlanInv
<1> HIDE DEF L, n
<1>5. ASSUME NEW p \in DOMAIN plans, NEW k \in DOMAIN plans[p].nodes
      PROVE  /\ plans[p].nodes[k] \in 1 .. n
             /\ InOrder(L)[plans[p].nodes[k]] \in Nodes
             /\ layer[plans[p].nodes[k]] = footprints[InOrder(L)[plans[p].nodes[k]]]
  <2>1. plans[p].nodes[k] \in NodesOf(plans[p])
    BY DEF NodesOf
  <2>2. plans[p].nodes[k] \in DOMAIN layer
    BY <1>4, <2>1
  <2>3. plans[p].nodes[k] \in 1 .. n
    BY <1>1, <2>2 DEF n, L
  <2>4. layer[plans[p].nodes[k]] = footprints[InOrder(L)[plans[p].nodes[k]]]
    BY <1>1, <2>2 DEF L
  <2>5. QED
    BY <1>2, <1>3, <2>3, <2>4
<1>6. \A p \in DOMAIN plans :
         /\ Messages[p].nodes = [k \in DOMAIN plans[p].nodes |-> InOrder(L)[plans[p].nodes[k]]]
         /\ Messages[p].built = Builds(plans[p])
         /\ Messages[p] = [nodes |-> Messages[p].nodes, built |-> Messages[p].built]
  BY DEF Messages, NodesOfPlan, L
<1>7. Messages \in Seq(Message)
  <2>1. DOMAIN plans = 1 .. Len(plans) /\ Len(plans) \in Nat
    BY <1>4
  <2>2. ASSUME NEW p \in DOMAIN plans
        PROVE  Messages[p] \in Message
    <3> DEFINE list == plans[p].nodes
               nodes == Messages[p].nodes
    <3>1. list \in Seq(Nat)
      <4>1. plans[p] \in PlanRecord
        BY <1>4
      <4>2. QED
        BY <4>1 DEF PlanRecord
    <3>2. DOMAIN list = 1 .. Len(list) /\ Len(list) \in Nat
      BY <3>1
    <3>3. nodes = [k \in DOMAIN list |-> InOrder(L)[list[k]]]
      BY <1>6
    <3>4. \A k \in DOMAIN list : InOrder(L)[list[k]] \in Nodes
      BY <1>5
    <3> HIDE DEF nodes, list
    <3>5. nodes \in [1 .. Len(list) -> Nodes]
      BY <3>2, <3>3, <3>4
    <3>6. nodes \in Seq(Nodes)
      BY <3>2, <3>5
    <3>7. Messages[p].built \in BOOLEAN
      <4>1. Builds(plans[p]) \in BOOLEAN
        BY DEF Builds
      <4>2. QED
        BY <1>6, <4>1
    <3> DEFINE built == Messages[p].built
    <3>8. Messages[p] = [nodes |-> nodes, built |-> built]
      BY <1>6 DEF nodes
    <3>9. built \in BOOLEAN
      BY <3>7
    <3> HIDE DEF built
    <3>10. QED
      BY <3>6, <3>8, <3>9 DEF Message
  <2>3. Messages \in [1 .. Len(plans) -> Message]
    BY <2>1, <2>2 DEF Messages
  <2>4. QED
    BY <2>1, <2>3
<1>8. DOMAIN Messages = DOMAIN plans
  BY DEF Messages
<1>9. Lists(Messages, LayerInTurn)
  BY <1>4, <1>6, <1>8 DEF Lists, n, L
<1>10. ASSUME NEW p \in DOMAIN Messages
       PROVE  /\ RefinedBudget => Messages[p].built
              /\ Messages[p].built =>
                    \A k \in DOMAIN Messages[p].nodes :
                       BuildsAlone(footprints[Messages[p].nodes[k]])
  <2>1. p \in DOMAIN plans
    BY <1>8
  <2>2. /\ Builds(plans[p]) =>
              \A k \in DOMAIN plans[p].nodes : BuildsAlone(layer[plans[p].nodes[k]])
        /\ RefinedBudget => Builds(plans[p])
    BY <1>1, <2>1, BuildsFacts
  <2>3. /\ DOMAIN Messages[p].nodes = DOMAIN plans[p].nodes
        /\ \A k \in DOMAIN plans[p].nodes :
              /\ Messages[p].nodes[k] = InOrder(L)[plans[p].nodes[k]]
              /\ layer[plans[p].nodes[k]] = footprints[Messages[p].nodes[k]]
    <3> DEFINE nodes == Messages[p].nodes
               list == plans[p].nodes
    <3>1. nodes = [k \in DOMAIN list |-> InOrder(L)[list[k]]]
      BY <1>6, <2>1
    <3>2. \A k \in DOMAIN list : layer[list[k]] = footprints[InOrder(L)[list[k]]]
      BY <1>5, <2>1
    <3> HIDE DEF nodes, list
    <3>3. /\ DOMAIN nodes = DOMAIN list
          /\ \A k \in DOMAIN list : /\ nodes[k] = InOrder(L)[list[k]]
                                   /\ layer[list[k]] = footprints[nodes[k]]
      BY <3>1, <3>2
    <3>4. QED
      BY <3>3 DEF nodes, list
  <2>4. QED
    BY <1>6, <2>1, <2>2, <2>3
<1>11. QED
  BY <1>7, <1>9, <1>10

\* A layer is sent, and the planner is idle again.
LEMMA SendLayerKeeps ==
    ASSUME PlanningInv, SendLayer
    PROVE  PlanningInv'
<1> DEFINE n == Len(sent)
<1>1. IInv /\ PlannerInv /\ InputInv /\ TurnInv /\ SentInv /\ BuiltInv
  BY DEF PlanningInv
<1>2. /\ phase = "done" /\ layer # <<>> /\ sent' = Append(sent, Messages)
      /\ layer' = <<>> /\ next' = 1 /\ chunks' = <<>> /\ head' = NoPlan /\ plans' = <<>>
      /\ UNCHANGED vars /\ opts' = opts /\ phase' = phase /\ acc' = acc
      /\ UNCHANGED runVars /\ baseline' = baseline
  BY DEF SendLayer, Messages
<1>3. /\ layers' = layers /\ stage' = stage /\ footprints' = footprints /\ mode' = mode
  BY <1>2 DEF vars, buildVars, layerVars, runVars
<1>4. /\ Messages \in Seq(Message) /\ Lists(Messages, LayerInTurn)
      /\ \A p \in DOMAIN Messages :
            /\ RefinedBudget => Messages[p].built
            /\ Messages[p].built =>
                  \A k \in DOMAIN Messages[p].nodes :
                     BuildsAlone(footprints[Messages[p].nodes[k]])
  BY <1>2, MessagesFacts
<1>5. IInv'
  BY <1>1, <1>2, StutterStep
<1>6. Idle'
  BY <1>1, <1>2, InputFrame DEF TurnInv, Idle
<1>7. InputInv'
  <2>1. sent \in Seq(Seq(Message))
    BY <1>1 DEF InputInv
  <2>2. sent' \in Seq(Seq(Message))
    BY <1>2, <1>4, <2>1
  <2>3. QED
    BY <1>1, <1>2, <1>3, <2>2 DEF InputInv
<1>8. PlannerInv'
  BY <1>6, <1>7, IdleHoldsNext DEF InputInv
<1>9. TurnInv'
  BY <1>2, <1>6 DEF TurnInv, Idle
<1>10. /\ n \in Nat /\ Len(sent') = n + 1 /\ DOMAIN sent' = 1 .. n + 1 /\ sent'[n + 1] = Messages
       /\ \A m \in DOMAIN sent' : m # n + 1 => m \in DOMAIN sent /\ sent'[m] = sent[m]
  <2>1. sent \in Seq(Seq(Message)) /\ n \in Nat /\ DOMAIN sent = 1 .. n
    BY <1>1 DEF InputInv
  <2>2. /\ Len(sent') = n + 1 /\ DOMAIN sent' = 1 .. n + 1 /\ sent'[n + 1] = Messages
        /\ \A m \in 1 .. n : sent'[m] = sent[m]
    BY <1>2, <2>1
  <2>3. \A m \in 1 .. n + 1 : m # n + 1 => m \in 1 .. n
    BY <2>1
  <2>4. QED
    BY <2>1, <2>2, <2>3
<1>11. SentInv'
  <2>1. n < Len(layers) /\ stage = "done" /\ Len(layers) \in Nat
    <3>1. layers \in Seq(SUBSET Nodes)
      BY <1>1 DEF IInv, TypeOK
    <3>2. QED
      BY <1>1, <1>2, <3>1 DEF TurnInv
  <2>2. \A m \in DOMAIN sent' : Lists(sent'[m], layers[m])
    BY <1>1, <1>4, <1>10 DEF SentInv, LayerInTurn
  <2>3. \A m \in DOMAIN sent' : Lists(sent[m], layers[m])'
    BY <1>3, <2>2, ListsFrame
  <2>4. QED
    BY <1>3, <1>10, <2>1, <2>3 DEF SentInv
<1>12. BuiltInv'
  <2>1. \A m \in DOMAIN sent' : \A p \in DOMAIN sent'[m] :
           /\ RefinedBudget => sent'[m][p].built
           /\ sent'[m][p].built =>
                 \A k \in DOMAIN sent'[m][p].nodes :
                    BuildsAlone(footprints[sent'[m][p].nodes[k]])
    <3> TAKE m \in DOMAIN sent'
    <3>1. CASE m = n + 1
      BY <1>4, <1>10, <3>1
    <3>2. CASE m # n + 1
      BY <1>1, <1>10, <3>2 DEF BuiltInv
    <3>3. QED
      BY <3>1, <3>2
  <2>2. QED
    BY <1>1, <1>2, <1>3, <2>1, InputFrame DEF BuiltInv
<1>13. QED
  BY <1>5, <1>7, <1>8, <1>9, <1>11, <1>12 DEF PlanningInv

\* A step that changes nothing.
LEMMA PlanningStutter ==
    ASSUME PlanningInv, UNCHANGED planningVars
    PROVE  PlanningInv'
<1>1. IInv /\ PlannerInv /\ InputInv /\ TurnInv /\ SentInv /\ BuiltInv
  BY DEF PlanningInv
<1>2. /\ UNCHANGED vars /\ UNCHANGED plannerVars
      /\ UNCHANGED <<runVars, sent, baseline>> /\ opts' = opts
  BY DEF planningVars, plannerVars
<1>3. IInv' /\ InputInv' /\ SentInv' /\ BuiltInv'
  BY <1>2, SentFrame
<1>4. PlannerInv'
  BY <1>1, <1>2, PlannerStutter
<1>5. /\ phase' = phase /\ layer' = layer /\ next' = next /\ acc' = acc
      /\ chunks' = chunks /\ head' = head /\ plans' = plans
      /\ layers' = layers /\ stage' = stage /\ footprints' = footprints
      /\ mode' = mode /\ sent' = sent
  BY <1>2 DEF plannerVars, runVars, vars, buildVars, layerVars
<1>6. TurnInv'
  BY <1>1, <1>2, <1>5, InputFrame DEF TurnInv, Idle, LayerInTurn
<1>7. QED
  BY <1>3, <1>4, <1>6 DEF PlanningInv

\* PlanningInv is an invariant: the graph and the planner take turns and do
\* not disturb each other, and the messages of the layers that were sent list
\* these layers' nodes.
THEOREM PlanningInductive == PlanningSpec => []PlanningInv
<1>1. PlanningInv /\ [PlanningNext]_planningVars => PlanningInv'
  <2> SUFFICES ASSUME PlanningInv, [PlanningNext]_planningVars
               PROVE  PlanningInv'
    OBVIOUS
  <2>1. CASE GraphStep
    BY <2>1, GraphStepKeeps
  <2>2. CASE BeginLayer
    BY <2>2, BeginLayerKeeps
  <2>3. CASE PlanStep
    BY <2>3, PlanStepKeeps
  <2>4. CASE SendLayer
    BY <2>4, SendLayerKeeps
  <2>5. CASE BaselineSends \/ BaselineFails
    BY <2>5, BaselineKeeps
  <2>6. CASE Over \/ UNCHANGED planningVars
    BY <2>6, PlanningStutter DEF Over
  <2>7. QED
    BY <2>1, <2>2, <2>3, <2>4, <2>5, <2>6 DEF PlanningNext
<1>2. QED
  BY PlanningInitHolds, <1>1, PTL DEF PlanningSpec

-----------------------------------------------------------------------------
(* Where intents are sent.                                                 *)

\* A list of plans is no longer than what it holds.
LEMMA ListIsShort ==
    ASSUME NEW list \in Seq(PlanRecord), Chained(list)
    PROVE  /\ End(list, Len(list)) \in Nat /\ Len(list) <= End(list, Len(list))
           /\ \A p \in DOMAIN list : Len(list[p].nodes) <= End(list, Len(list))
<1> DEFINE n == Len(list)
           Beyond == {i \in 0 .. n : ~ (i <= End(list, i))}
<1>1. n \in Nat /\ DOMAIN list = 1 .. n /\ Nonempty(PlanRecord)
  BY RecordFacts
<1>2. /\ \A i \in 0 .. n : End(list, i) \in Nat
      /\ \A i \in 1 .. n : /\ Len(list[i].nodes) \in Nat \ {0}
                           /\ End(list, i) = End(list, i - 1) + Len(list[i].nodes)
  BY <1>1, ChainEnds
<1>3. Beyond = {}
  <2> SUFFICES ASSUME Beyond # {}
               PROVE  FALSE
    OBVIOUS
  <2>1. PICK m \in Beyond : \A k \in Beyond : m <= k
    <3>1. Beyond \in SUBSET Nat
      BY <1>1
    <3> HIDE DEF Beyond
    <3>2. QED
      BY <3>1, LeastOf
  <2>2. m \in 0 .. n /\ End(list, m) \in Nat /\ ~ (m <= End(list, m))
    BY <1>2
  <2>3. m # 0
    BY <2>2
  <2>4. m \in 1 .. n /\ m - 1 \in 0 .. n /\ m - 1 < m
    BY <1>1, <2>2, <2>3
  <2>5. m - 1 <= End(list, m - 1)
    <3>1. m - 1 \notin Beyond
      <4> HIDE DEF Beyond
      <4> QED
        BY <2>1, <2>2, <2>4
    <3>2. QED
      BY <2>4, <3>1
  <2>6. /\ End(list, m - 1) \in Nat /\ Len(list[m].nodes) \in Nat \ {0}
        /\ End(list, m) = End(list, m - 1) + Len(list[m].nodes)
    BY <1>2, <2>4
  <2> DEFINE x == End(list, m - 1)
             y == Len(list[m].nodes)
  <2>7. x \in Nat /\ y \in Nat \ {0} /\ m - 1 <= x /\ ~ (m <= x + y)
    BY <2>2, <2>5, <2>6
  <2> HIDE DEF x, y
  <2>8. QED
    BY <2>2, <2>7
<1>4. n <= End(list, n) /\ End(list, n) \in Nat
  <2>1. n \in 0 .. n
    BY <1>1
  <2>2. QED
    BY <1>2, <1>3, <2>1
<1>5. ASSUME NEW p \in DOMAIN list
      PROVE  Len(list[p].nodes) <= End(list, n)
  <2>1. p \in 1 .. n /\ p \in 0 .. n /\ p - 1 \in 0 .. n /\ n \in p .. n
    BY <1>1
  <2>2. End(list, p) <= End(list, n)
    BY <1>1, <2>1, EndsGrow
  <2> DEFINE x == End(list, p - 1)
             y == Len(list[p].nodes)
             z == End(list, n)
  <2>3. x \in Nat /\ y \in Nat /\ z \in Nat /\ x + y <= z
    BY <1>2, <1>4, <2>1, <2>2
  <2> HIDE DEF x, y, z
  <2>4. y <= z
    BY <2>3
  <2>5. QED
    BY <2>4 DEF y, z
<1>6. QED
  BY <1>4, <1>5

\* There are no more layers than nodes, as each has one of its own.
LEMMA LayersAreFew ==
    ASSUME IInv
    PROVE  Len(layers) \in Nat /\ Len(layers) <= NodeCount /\ DOMAIN layers = 1 .. Len(layers)
<1> DEFINE n == Len(layers)
           f == [k \in 1 .. n |-> CHOOSE v \in layers[k] : TRUE]
<1>1. n \in Nat /\ DOMAIN layers = 1 .. n
  <2>1. layers \in Seq(SUBSET Nodes)
    BY DEF IInv, TypeOK
  <2>2. QED
    BY <2>1
<1>2. \A k \in 1 .. n : f[k] \in layers[k] /\ f[k] \in Nodes
  <2> TAKE k \in 1 .. n
  <2>1. layers[k] \in SUBSET Nodes /\ layers[k] # {}
    BY <1>1, TurnFacts
  <2>2. QED
    BY <2>1
<1>3. \A j, k \in 1 .. n : f[j] = f[k] => j = k
  <2> SUFFICES ASSUME NEW j \in 1 .. n, NEW k \in 1 .. n, f[j] = f[k]
               PROVE  j = k
    OBVIOUS
  <2>1. layers[j] \cap layers[k] # {}
    BY <1>2
  <2>2. QED
    BY <1>1, <2>1 DEF IInv, DisjointInv
<1>4. DOMAIN f = 1 .. n
  OBVIOUS
<1> HIDE DEF f
<1>5. f \in [1 .. n -> Nodes]
  <2>1. f = [k \in 1 .. n |-> f[k]]
    BY DEF f
  <2>2. QED
    BY <1>2, <2>1
<1>6. f \in Injection(1 .. n, Nodes)
  BY <1>3, <1>4, <1>5 DEF Injection, IsInjective
<1>7. IsFiniteSet(Nodes) /\ Cardinality(Nodes) = NodeCount
  BY NodeSets
<1>8. Cardinality(1 .. n) = n
  <2> HIDE DEF n
  <2> QED
    BY <1>1, FS_Interval
<1>9. Cardinality(1 .. n) <= NodeCount
  BY <1>6, <1>7, FS_Injection
<1>10. QED
  BY <1>1, <1>8, <1>9

\* Messages that list the nodes of a layer hold each of them in one place.
LEMMA ListedNodes ==
    ASSUME NEW L \in SUBSET Nat, IsFiniteSet(L), NEW messages, Lists(messages, L)
    PROVE  /\ \A p, q \in DOMAIN messages :
                 \A j \in DOMAIN messages[p].nodes, k \in DOMAIN messages[q].nodes :
                    /\ messages[p].nodes[j] \in L
                    /\ messages[p].nodes[j] = messages[q].nodes[k] => p = q /\ j = k
           /\ \A v \in L : \E p \in DOMAIN messages :
                 \E k \in DOMAIN messages[p].nodes : messages[p].nodes[k] = v
           /\ \A p \in DOMAIN messages :
                 /\ p \in 1 .. Cardinality(L)
                 /\ DOMAIN messages[p].nodes \subseteq 1 .. Cardinality(L)
<1> DEFINE n == Cardinality(L)
<1>1. PICK list \in Seq(PlanRecord) :
         /\ Chained(list) /\ End(list, Len(list)) = n
         /\ DOMAIN messages = DOMAIN list
         /\ \A p \in DOMAIN list :
               messages[p].nodes = [k \in DOMAIN list[p].nodes |-> InOrder(L)[list[p].nodes[k]]]
  BY DEF Lists
<1>2. /\ n \in Nat /\ InOrder(L) \in [1 .. n -> L]
      /\ \A j, k \in 1 .. n : InOrder(L)[j] = InOrder(L)[k] => j = k
      /\ \A v \in L : \E k \in 1 .. n : InOrder(L)[k] = v
  BY InOrderFacts
<1>3. /\ UNION {NodesOf(list[p]) : p \in DOMAIN list} = 1 .. n
      /\ \A p, q \in DOMAIN list :
            \A i \in DOMAIN list[p].nodes, j \in DOMAIN list[q].nodes :
               (p < q \/ (p = q /\ i < j)) => list[p].nodes[i] < list[q].nodes[j]
  BY <1>1, RecordFacts, ChainCovers
<1>4. /\ DOMAIN list = 1 .. Len(list) /\ Len(list) \in Nat /\ Len(list) <= n
      /\ \A p \in DOMAIN list :
            /\ DOMAIN list[p].nodes = 1 .. Len(list[p].nodes) /\ Len(list[p].nodes) \in Nat
            /\ Len(list[p].nodes) <= n
  <2>1. \A p \in DOMAIN list :
           DOMAIN list[p].nodes = 1 .. Len(list[p].nodes) /\ Len(list[p].nodes) \in Nat
    <3> TAKE p \in DOMAIN list
    <3>1. list[p] \in PlanRecord
      BY <1>1
    <3>2. list[p].nodes \in Seq(Nat)
      BY <3>1 DEF PlanRecord
    <3>3. QED
      BY <3>2
  <2>2. DOMAIN list = 1 .. Len(list) /\ Len(list) \in Nat
    BY <1>1
  <2>3. QED
    BY <1>1, <2>1, <2>2, ListIsShort
<1> HIDE DEF n
<1>5. \A p \in DOMAIN list : DOMAIN messages[p].nodes = DOMAIN list[p].nodes
  BY <1>1
<1>6. ASSUME NEW p \in DOMAIN list, NEW k \in DOMAIN list[p].nodes
      PROVE  /\ list[p].nodes[k] \in 1 .. n
             /\ messages[p].nodes[k] = InOrder(L)[list[p].nodes[k]]
             /\ messages[p].nodes[k] \in L
  <2>1. list[p].nodes[k] \in NodesOf(list[p])
    BY DEF NodesOf
  <2>2. list[p].nodes[k] \in 1 .. n
    BY <1>3, <2>1
  <2>3. messages[p].nodes[k] = InOrder(L)[list[p].nodes[k]]
    <3> DEFINE own == list[p].nodes
               nodes == messages[p].nodes
    <3>1. nodes = [j \in DOMAIN own |-> InOrder(L)[own[j]]] /\ k \in DOMAIN own
      BY <1>1
    <3> HIDE DEF own, nodes
    <3>2. nodes[k] = InOrder(L)[own[k]]
      BY <3>1
    <3>3. QED
      BY <3>2 DEF own, nodes
  <2>4. QED
    BY <1>2, <2>2, <2>3
<1>7. ASSUME NEW p \in DOMAIN list, NEW q \in DOMAIN list,
             NEW j \in DOMAIN list[p].nodes, NEW k \in DOMAIN list[q].nodes,
             messages[p].nodes[j] = messages[q].nodes[k]
      PROVE  p = q /\ j = k
  <2> DEFINE x == list[p].nodes[j]
             y == list[q].nodes[k]
  <2>1. x \in 1 .. n /\ y \in 1 .. n /\ InOrder(L)[x] = InOrder(L)[y]
    BY <1>6, <1>7
  <2>2. x = y /\ x \in Nat
    BY <1>2, <2>1
  <2>3. ~ (x < y) /\ ~ (y < x)
    <3> HIDE DEF x, y
    <3> QED
      BY <2>2
  <2>4. ~ (p < q \/ (p = q /\ j < k))
    BY <1>3, <2>3
  <2>5. ~ (q < p \/ (q = p /\ k < j))
    BY <1>3, <2>3
  <2>6. p \in Nat /\ q \in Nat
    BY <1>4
  <2>7. p = q
    BY <2>4, <2>5, <2>6
  <2>8. j \in Nat /\ k \in Nat
    BY <1>4
  <2>9. QED
    BY <2>4, <2>5, <2>7, <2>8
<1>8. ASSUME NEW v \in L
      PROVE  \E p \in DOMAIN list : \E k \in DOMAIN list[p].nodes : messages[p].nodes[k] = v
  <2>1. PICK x \in 1 .. n : InOrder(L)[x] = v
    BY <1>2
  <2>2. PICK p \in DOMAIN list : x \in NodesOf(list[p])
    BY <1>3, <2>1
  <2>3. PICK k \in DOMAIN list[p].nodes : list[p].nodes[k] = x
    BY <2>2 DEF NodesOf
  <2>4. QED
    BY <1>6, <2>1, <2>2, <2>3
<1>9. ASSUME NEW p \in DOMAIN list
      PROVE  p \in 1 .. n /\ DOMAIN list[p].nodes \subseteq 1 .. n
  BY <1>2, <1>4
<1>10. QED
  BY <1>1, <1>5, <1>6, <1>7, <1>8, <1>9 DEF n

\* What was sent of a layer lists its nodes.
LEMMA LayerWasSent ==
    ASSUME PlanningInv, NEW m \in DOMAIN sent
    PROVE  /\ m \in DOMAIN layers /\ m \in 1 .. NodeCount /\ stage = "done"
           /\ Lists(sent[m], layers[m])
           /\ layers[m] \in SUBSET Nat /\ IsFiniteSet(layers[m])
           /\ Cardinality(layers[m]) \in 1 .. NodeCount
<1>1. IInv /\ SentInv /\ sent \in Seq(Seq(Message))
  BY DEF PlanningInv, InputInv
<1>2. Len(layers) \in Nat /\ Len(layers) <= NodeCount /\ DOMAIN layers = 1 .. Len(layers)
  BY <1>1, LayersAreFew
<1>3. Len(sent) \in Nat /\ DOMAIN sent = 1 .. Len(sent) /\ Len(sent) <= Len(layers)
  BY <1>1 DEF SentInv
<1>4. m \in DOMAIN layers /\ m \in 1 .. NodeCount
  BY <1>2, <1>3, NodeCountAssumption
<1>5. stage = "done" /\ Lists(sent[m], layers[m])
  <2>1. sent # <<>>
    OBVIOUS
  <2>2. QED
    BY <1>1, <2>1 DEF SentInv
<1>6. QED
  BY <1>1, <1>4, <1>5, TurnFacts

\* A place is one in the layer of its intent.
LEMMA PlaceFacts ==
    ASSUME PlanningInv, NEW v, NEW x \in PlacesOf(v)
    PROVE  /\ x = <<x[1], x[2], x[3]>> /\ x[1] \in DOMAIN sent
           /\ x[2] \in DOMAIN sent[x[1]] /\ x[3] \in DOMAIN sent[x[1]][x[2]].nodes
           /\ sent[x[1]][x[2]].nodes[x[3]] = v
           /\ v \in layers[x[1]]
<1>1. /\ x = <<x[1], x[2], x[3]>> /\ x[1] \in DOMAIN sent
      /\ x[2] \in DOMAIN sent[x[1]] /\ x[3] \in DOMAIN sent[x[1]][x[2]].nodes
      /\ sent[x[1]][x[2]].nodes[x[3]] = v
  BY DEF PlacesOf
<1>2. v \in layers[x[1]]
  <2> DEFINE m == x[1]
  <2>1. /\ Lists(sent[m], layers[m]) /\ layers[m] \in SUBSET Nat /\ IsFiniteSet(layers[m])
    BY <1>1, LayerWasSent
  <2>2. \A p \in DOMAIN sent[m] : \A k \in DOMAIN sent[m][p].nodes :
           sent[m][p].nodes[k] \in layers[m]
    <3> HIDE DEF m
    <3> QED
      BY <2>1, ListedNodes
  <2>3. QED
    BY <1>1, <2>2
<1>3. QED
  BY <1>1, <1>2

\* No intent has two places.
LEMMA OnePlace ==
    ASSUME PlanningInv, NEW v, NEW x \in PlacesOf(v), NEW y \in PlacesOf(v)
    PROVE  x = y
<1>1. /\ x = <<x[1], x[2], x[3]>> /\ x[1] \in DOMAIN sent
      /\ x[2] \in DOMAIN sent[x[1]] /\ x[3] \in DOMAIN sent[x[1]][x[2]].nodes
      /\ sent[x[1]][x[2]].nodes[x[3]] = v /\ v \in layers[x[1]]
  BY PlaceFacts
<1>2. /\ y = <<y[1], y[2], y[3]>> /\ y[1] \in DOMAIN sent
      /\ y[2] \in DOMAIN sent[y[1]] /\ y[3] \in DOMAIN sent[y[1]][y[2]].nodes
      /\ sent[y[1]][y[2]].nodes[y[3]] = v /\ v \in layers[y[1]]
  BY PlaceFacts
<1>3. x[1] = y[1]
  <2>1. layers[x[1]] \cap layers[y[1]] # {}
    BY <1>1, <1>2
  <2>2. x[1] \in DOMAIN layers /\ y[1] \in DOMAIN layers
    BY <1>1, <1>2, LayerWasSent
  <2>3. QED
    BY <2>1, <2>2 DEF PlanningInv, IInv, DisjointInv
<1>4. x[2] = y[2] /\ x[3] = y[3]
  <2> DEFINE m == x[1]
  <2>1. /\ Lists(sent[m], layers[m]) /\ layers[m] \in SUBSET Nat /\ IsFiniteSet(layers[m])
    BY <1>1, LayerWasSent
  <2>2. \A p, q \in DOMAIN sent[m] :
           \A j \in DOMAIN sent[m][p].nodes, k \in DOMAIN sent[m][q].nodes :
              sent[m][p].nodes[j] = sent[m][q].nodes[k] => p = q /\ j = k
    <3> HIDE DEF m
    <3> QED
      BY <2>1, ListedNodes
  <2>3. QED
    BY <1>1, <1>2, <1>3, <2>2
<1>5. QED
  BY <1>1, <1>2, <1>3, <1>4

\* An intent of a layer that was sent has a place there.
LEMMA SomePlace ==
    ASSUME PlanningInv, NEW m \in DOMAIN sent, NEW v \in layers[m]
    PROVE  \E x \in PlacesOf(v) : x[1] = m
<1> DEFINE L == layers[m]
           n == Cardinality(L)
<1>1. /\ Lists(sent[m], L) /\ L \in SUBSET Nat /\ IsFiniteSet(L)
      /\ n \in 1 .. NodeCount /\ m \in 1 .. NodeCount
  BY LayerWasSent
<1>2. /\ \A u \in L : \E p \in DOMAIN sent[m] :
            \E k \in DOMAIN sent[m][p].nodes : sent[m][p].nodes[k] = u
      /\ \A p \in DOMAIN sent[m] :
            p \in 1 .. n /\ DOMAIN sent[m][p].nodes \subseteq 1 .. n
  <2> HIDE DEF L
  <2> QED
    BY <1>1, ListedNodes
<1>3. PICK p \in DOMAIN sent[m] : \E k \in DOMAIN sent[m][p].nodes : sent[m][p].nodes[k] = v
  BY <1>2
<1>4. PICK k \in DOMAIN sent[m][p].nodes : sent[m][p].nodes[k] = v
  BY <1>3
<1>5. p \in 1 .. NodeCount /\ k \in 1 .. NodeCount
  <2>1. p \in 1 .. n /\ k \in 1 .. n
    BY <1>2
  <2> HIDE DEF n
  <2>2. QED
    BY <1>1, <2>1, NodeCountAssumption
<1> DEFINE x == <<m, p, k>>
<1>6. /\ x \in (1 .. NodeCount) \X (1 .. NodeCount) \X (1 .. NodeCount)
      /\ x[1] = m /\ x[2] = p /\ x[3] = k
  BY <1>1, <1>5
<1>7. x \in PlacesOf(v)
  <2> HIDE DEF x
  <2> QED
    BY <1>4, <1>6 DEF PlacesOf
<1>8. QED
  BY <1>6, <1>7

-----------------------------------------------------------------------------
(* The properties.                                                         *)

\* Each node has one place when its layer is sent, after the places of its
\* predecessors.
LEMMA SentOnceHolds == PlanningInv => SentOnceInOrder
<1> SUFFICES ASSUME PlanningInv
             PROVE  SentOnceInOrder
  OBVIOUS
<1>1. IInv /\ LayersPartition /\ WritesComeFirst
  BY PartitionHolds, OrderHolds DEF PlanningInv
<1>2. Len(layers) \in Nat /\ DOMAIN layers = 1 .. Len(layers)
  BY <1>1, LayersAreFew
<1>3. Len(sent) \in Nat /\ DOMAIN sent = 1 .. Len(sent) /\ Len(sent) <= Len(layers)
  <2>1. sent \in Seq(Seq(Message))
    BY DEF PlanningInv, InputInv
  <2>2. QED
    BY <2>1 DEF PlanningInv, SentInv
<1>4. ASSUME NEW v \in Nodes
      PROVE  Cardinality(PlacesOf(v)) <= 1
  <2>1. CASE PlacesOf(v) = {}
    <3>1. Cardinality(PlacesOf(v)) = 0
      BY <2>1, FS_EmptySet
    <3>2. QED
      BY <3>1
  <2>2. CASE PlacesOf(v) # {}
    <3>1. PICK x \in PlacesOf(v) : TRUE
      BY <2>2
    <3>2. PlacesOf(v) = {x}
      BY <3>1, OnePlace
    <3>3. Cardinality(PlacesOf(v)) = 1
      BY <3>2, FS_Singleton
    <3>4. QED
      BY <3>3
  <2>3. QED
    BY <2>1, <2>2
<1>5. ASSUME NEW v \in Nodes, LayersSent
      PROVE  PlacesOf(v) # {}
  <2>1. stage = "done" /\ Len(sent) = Len(layers)
    BY <1>5 DEF LayersSent
  <2>2. PICK k \in DOMAIN layers : v \in layers[k]
    BY <1>1, <2>1 DEF LayersPartition, InLayer
  <2>3. k \in DOMAIN sent
    BY <1>2, <1>3, <2>1, <2>2
  <2>4. QED
    BY <2>2, <2>3, SomePlace
<1>6. ASSUME NEW a \in Accounts, NEW u \in Nodes, NEW v \in Nodes,
             Writes(u, a), Touches(v, a), Before(u, v), NEW y \in PlacesOf(v)
      PROVE  \E x \in PlacesOf(u) : x[1] < y[1]
  <2>1. y[1] \in DOMAIN sent /\ v \in layers[y[1]]
    BY PlaceFacts
  <2>2. y[1] \in DOMAIN layers /\ stage # "build"
    BY <2>1, LayerWasSent
  <2>3. PICK k \in 1 .. (y[1] - 1) : u \in layers[k]
    BY <1>1, <1>6, <2>1, <2>2 DEF WritesComeFirst, InLayer
  <2>4. k \in DOMAIN sent /\ k < y[1]
    BY <1>3, <2>1, <2>3
  <2>5. PICK x \in PlacesOf(u) : x[1] = k
    BY <2>3, <2>4, SomePlace
  <2>6. QED
    BY <2>4, <2>5
<1>7. QED
  BY <1>4, <1>5, <1>6 DEF SentOnceInOrder

\* From the intents to the messages nothing is lost and nothing is sent twice,
\* and a writer of an account is sent in an earlier layer than all that come
\* after it and name the account.
THEOREM SentOnceInOrderCorrect == PlanningSpec => []SentOnceInOrder
  BY SentOnceHolds, PlanningInductive, PTL

\* A refused intent of the baseline is in no message that was built.
LEMMA RefinedBudgetHolds == PlanningInv => RefinedBudgetBuilds
<1> SUFFICES ASSUME PlanningInv, NEW m \in DOMAIN sent, NEW p \in DOMAIN sent[m]
             PROVE  /\ RefinedBudget => sent[m][p].built
                    /\ (~ opts.alt /\ sent[m][p].built /\ baseline.state = "refused") =>
                          baseline.count \notin Range(sent[m][p].nodes)
  BY DEF RefinedBudgetBuilds
<1>1. /\ RefinedBudget => sent[m][p].built
      /\ sent[m][p].built =>
            \A k \in DOMAIN sent[m][p].nodes : BuildsAlone(footprints[sent[m][p].nodes[k]])
      /\ baseline.state = "refused" => ~ BuildsAlone(footprints[baseline.count])
  BY DEF PlanningInv, BuiltInv
<1>2. QED
  BY <1>1 DEF Range

\* With a budget that leaves room for what build_v0_message adds, it refuses
\* no plan; with any, what it accepts of a chunk it accepts alone.
THEOREM RefinedBudgetBuildsCorrect == PlanningSpec => []RefinedBudgetBuilds
  BY RefinedBudgetHolds, PlanningInductive, PTL

\* What Dag promises of a graph holds of the graph of a run, whatever is
\* planned and sent after it.
THEOREM GraphOfRun ==
    PlanningSpec => [](TypeOK /\ LayersPartition /\ WritesComeFirst /\ WaitsAreJustified)
<1>1. PlanningInv => TypeOK /\ LayersPartition /\ WritesComeFirst /\ WaitsAreJustified
  BY PartitionHolds, OrderHolds, WaitsHold DEF PlanningInv, IInv
<1>2. QED
  BY <1>1, PlanningInductive, PTL

\* What ChunkPlanner promises of a layer holds of every layer of a run.
THEOREM PlansOfRun ==
    PlanningSpec => [](/\ PlannerTypeOK /\ EveryIntentPlanned /\ BudgetsKept
                       /\ MergedPartsIndependent /\ PackingIsTight)
<1>1. PlanningInv => /\ PlannerTypeOK /\ EveryIntentPlanned /\ BudgetsKept
                     /\ MergedPartsIndependent /\ PackingIsTight
  BY ChainedPlansCover, CoveredBudgets, PartsAreApart
     DEF PlanningInv, PlannerInv, TightInv, PackingIsTight
<1>2. QED
  BY <1>1, PlanningInductive, PTL

=============================================================================
