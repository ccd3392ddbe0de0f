----------------------------- MODULE Dag_proofs -----------------------------
(***************************************************************************)
(* Proofs about Dag, for any number of intents, any accounts and any       *)
(* priorities.                                                             *)
(***************************************************************************)
EXTENDS Dag, FiniteSetTheorems, SequenceTheorems, WellFoundedInduction, TLAPS

-----------------------------------------------------------------------------
(* Sets of nodes.                                                          *)

\* Every set of nodes is finite, and has all of them if it has as many.
LEMMA NodeSets ==
    /\ IsFiniteSet(Nodes) /\ Cardinality(Nodes) = NodeCount
    /\ \A S \in SUBSET Nodes :
          /\ IsFiniteSet(S)
          /\ Cardinality(S) \in 0..NodeCount
          /\ Cardinality(S) = 0 <=> S = {}
          /\ Cardinality(S) = NodeCount <=> S = Nodes
<1> USE NodeCountAssumption
<1>1. IsFiniteSet(Nodes) /\ Cardinality(Nodes) = NodeCount
  BY FS_Interval DEF Nodes
<1>2. ASSUME NEW S \in SUBSET Nodes
      PROVE  /\ IsFiniteSet(S)
             /\ Cardinality(S) \in 0..NodeCount
             /\ Cardinality(S) = 0 <=> S = {}
             /\ Cardinality(S) = NodeCount <=> S = Nodes
  <2>1. /\ IsFiniteSet(S)
        /\ Cardinality(S) <= Cardinality(Nodes)
        /\ Cardinality(Nodes) = Cardinality(S) => Nodes = S
    BY <1>1, FS_Subset
  <2>2. Cardinality(S) \in Nat
    BY <2>1, FS_CardinalityType
  <2>3. Cardinality(S) = 0 <=> S = {}
    BY <2>1, FS_EmptySet
  <2>4. QED
    BY <1>1, <2>1, <2>2, <2>3
<1>3. QED
  BY <1>1, <1>2

\* Taking away a part takes away its cardinality.
LEMMA CardinalityOfRest ==
    ASSUME NEW S, NEW T \in SUBSET S, IsFiniteSet(S)
    PROVE  Cardinality(S \ T) = Cardinality(S) - Cardinality(T)
<1>1. IsFiniteSet(T) /\ IsFiniteSet(S \ T)
  BY FS_Subset
<1>2. (S \ T) \cup T = S /\ (S \ T) \cap T = {}
  OBVIOUS
<1>3. Cardinality(S) = Cardinality(S \ T) + Cardinality(T) - Cardinality({})
  BY <1>1, <1>2, FS_Union
<1>4. /\ Cardinality(S) \in Nat /\ Cardinality(T) \in Nat
      /\ Cardinality(S \ T) \in Nat /\ Cardinality({}) = 0
  BY <1>1, FS_CardinalityType, FS_EmptySet
<1>5. QED
  BY <1>3, <1>4

\* A set of naturals that is not empty has a least element.
LEMMA LeastNatural ==
    ASSUME NEW S \in SUBSET Nat, S # {}
    PROVE  \E m \in S : \A k \in S : m <= k
<1> DEFINE Less == OpToRel(<, Nat)
<1>1. Less = {ss \in Nat \X Nat : ss[1] < ss[2]}
  BY DEF OpToRel
<1>2. \E m \in S : \A k \in S : ~ (<<k, m>> \in Less)
  <2> HIDE DEF Less
  <2>1. IsWellFoundedOn(Less, Nat)
    BY NatLessThanWellFounded DEF Less
  <2>2. QED
    BY <2>1, WFMin
<1>3. PICK m \in S : \A k \in S : ~ (<<k, m>> \in Less)
  BY <1>2
<1>4. ASSUME NEW k \in S
      PROVE  m <= k
  <2> HIDE DEF Less
  <2>1. k \in Nat /\ m \in Nat /\ <<k, m>> \in Nat \X Nat
    OBVIOUS
  <2>2. ~ (k < m)
    BY <1>1, <1>3, <2>1
  <2>3. QED
    BY <2>1, <2>2
<1>5. QED
  BY <1>4

\* Before is a total order on the nodes, so a set of nodes that is not empty
\* has one that none of the others precedes.
LEMMA FirstNode ==
    ASSUME intents \in [Nodes -> Intent], NEW U \in SUBSET Nodes, U # {}
    PROVE  \E v \in U : \A u \in U : ~ Before(u, v)
<1> DEFINE Key(v) == 255 - intents[v].priority
           Keys == {Key(v) : v \in U}
<1>1. ASSUME NEW v \in U
      PROVE  v \in Nat /\ intents[v].priority \in 0..255
  <2>1. v \in Nodes /\ intents[v] \in Intent
    OBVIOUS
  <2>2. intents[v].priority \in Priorities
    BY <2>1 DEF Intent
  <2>3. v \in Nat
    BY <2>1, NodeCountAssumption DEF Nodes
  <2>4. QED
    BY <2>2, <2>3, PrioritiesAssumption
<1>2. Keys \in SUBSET Nat /\ Keys # {}
  <2>1. \A v \in U : Key(v) \in Nat
    BY <1>1
  <2>2. QED
    BY <2>1
<1>3. PICK key \in Keys : \A k \in Keys : key <= k
  <2> HIDE DEF Keys
  <2> QED
    BY <1>2, LeastNatural
<1> DEFINE Best == {v \in U : Key(v) = key}
<1>4. Best \in SUBSET Nat /\ Best # {}
  BY <1>1, <1>3
<1>5. PICK v \in Best : \A u \in Best : v <= u
  <2> HIDE DEF Best
  <2> QED
    BY <1>4, LeastNatural
<1>6. v \in U /\ Key(v) = key
  BY <1>5
<1>7. ASSUME NEW u \in U, Before(u, v)
      PROVE  FALSE
  <2> DEFINE pu == intents[u].priority
             pv == intents[v].priority
  <2>1. pu \in 0..255 /\ pv \in 0..255 /\ u \in Nat /\ v \in Nat
    BY <1>1, <1>6
  <2>2. pu > pv \/ (pu = pv /\ u < v)
    BY <1>7 DEF Before
  <2>3. 255 - pv <= 255 - pu
    BY <1>3, <1>6
  <2>4. pu = pv => u \in Best
    BY <1>6
  <2>5. u \in Best => v <= u
    BY <1>5
  <2> HIDE DEF pu, pv, Best
  <2>6. QED
    BY <2>1, <2>2, <2>3, <2>4, <2>5
<1>8. QED
  BY <1>6, <1>7

-----------------------------------------------------------------------------
(* The inductive invariant.                                                *)

\* The nodes that are in a layer.
Placed == UNION {layers[k] : k \in DOMAIN layers}

\* The edges are those of the accounts that were looked at.
EdgesInv ==
    /\ edges = UNION {ChainEdges(a) : a \in Accounts \ byAccount}
    /\ stage # "build" => byAccount = {}

\* While layers() runs, a count is the number of predecessors to come, the
\* frontier is what can go next, and remaining is what is left.
PeelInv ==
    /\ stage = "build" => layers = << >>
    /\ stage # "build" =>
          /\ indeg = [v \in Nodes |-> Cardinality(Preds(v, edges) \ Placed)]
          /\ frontier = {v \in Nodes \ Placed : Preds(v, edges) \subseteq Placed}
    /\ remaining = NodeCount - Cardinality(Placed)
    /\ stage = "done" => remaining = 0

\* Predecessors are in an earlier layer, one of them in the layer before.
OrderInv ==
    /\ \A k \in DOMAIN layers : \A v \in layers[k] :
          /\ \A u \in Preds(v, edges) : \E j \in 1..(k - 1) : u \in layers[j]
          /\ k > 1 => \E u \in layers[k - 1] : u \in Preds(v, edges)
    /\ layers # << >> =>
          \A v \in frontier : Preds(v, edges) \cap layers[Len(layers)] # {}

\* Layers are not empty and share no node.
DisjointInv ==
    /\ \A k \in DOMAIN layers : layers[k] # {}
    /\ \A k, m \in DOMAIN layers : layers[k] \cap layers[m] # {} => k = m

\* The invariant of the graph and its layers.
IInv ==
    /\ TypeOK
    /\ EdgesInv
    /\ PeelInv
    /\ OrderInv
    /\ DisjointInv
    /\ NoCycleDetected

\* An edge leads from a writer of an account to an intent that names the
\* account and that it precedes.
LEMMA EdgeMeaning ==
    ASSUME EdgesInv, NEW u, NEW v, <<u, v>> \in edges
    PROVE  /\ u \in Nodes /\ v \in Nodes
           /\ \E a \in Accounts : Writes(u, a) /\ Touches(v, a) /\ Before(u, v)
<1>1. PICK a \in Accounts : <<u, v>> \in ChainEdges(a)
  BY DEF EdgesInv
<1>2. QED
  BY <1>1 DEF ChainEdges

\* The initial state, which has no layers.
LEMMA InvInit ==
    ASSUME Init
    PROVE  IInv
<1> USE DEF Init
<1>1. DOMAIN layers = {} /\ layers \in Seq(SUBSET Nodes) /\ Placed = {}
  BY EmptySeq DEF Placed
<1>2. Cardinality(Placed) = 0
  BY <1>1, FS_EmptySet
<1>3. TypeOK
  BY <1>1, NodeCountAssumption DEF TypeOK
<1>4. EdgesInv
  BY DEF EdgesInv, ChainEdges
<1>5. PeelInv
  BY <1>2, NodeCountAssumption DEF PeelInv
<1>6. OrderInv /\ DisjointInv /\ NoCycleDetected
  BY <1>1 DEF OrderInv, DisjointInv, NoCycleDetected
<1>7. QED
  BY <1>3, <1>4, <1>5, <1>6 DEF IInv

\* While the graph is built there are no layers.
LEMMA ChainStep ==
    ASSUME IInv, NEW a \in Accounts, Chain(a)
    PROVE  IInv'
<1> USE DEF IInv, Chain, layerVars
<1>1. layers = << >> /\ DOMAIN layers = {} /\ layers' = << >>
  BY DEF PeelInv
<1>2. ChainEdges(a) \subseteq Nodes \X Nodes
  BY DEF ChainEdges
<1>3. TypeOK'
  BY <1>2 DEF TypeOK
<1>4. EdgesInv'
  <2>1. Accounts \ byAccount' = (Accounts \ byAccount) \cup {a}
    OBVIOUS
  <2>2. \A b \in Accounts : ChainEdges(b)' = ChainEdges(b)
    BY DEF ChainEdges, Writes, Touches, Before
  <2>3. edges' = UNION {ChainEdges(b) : b \in Accounts \ byAccount'}
    BY <2>1 DEF EdgesInv
  <2>4. edges' = UNION {ChainEdges(b)' : b \in Accounts \ byAccount'}
    BY <2>2, <2>3
  <2>5. QED
    BY <2>4 DEF EdgesInv
<1>5. PeelInv'
  BY DEF PeelInv, Placed
<1>6. OrderInv' /\ DisjointInv' /\ NoCycleDetected'
  BY <1>1 DEF OrderInv, DisjointInv, NoCycleDetected
<1>7. QED
  BY <1>3, <1>4, <1>5, <1>6

\* The first counts: no node is in a layer yet.
LEMMA StartStep ==
    ASSUME IInv, StartLayers
    PROVE  IInv'
<1> USE DEF IInv, StartLayers, buildVars
<1>1. layers = << >> /\ DOMAIN layers = {} /\ layers' = << >> /\ DOMAIN layers' = {}
  BY DEF PeelInv
<1>2. Placed = {} /\ Placed' = {}
  BY <1>1 DEF Placed
<1>3. \A v \in Nodes : Preds(v, edges) \subseteq Nodes
  BY DEF Preds
<1>4. TypeOK'
  BY <1>3, NodeSets DEF TypeOK
<1>5. EdgesInv'
  <2>1. \A b \in Accounts : ChainEdges(b)' = ChainEdges(b)
    BY DEF ChainEdges, Writes, Touches, Before
  <2>2. edges' = UNION {ChainEdges(b)' : b \in Accounts \ byAccount'}
    BY <2>1 DEF EdgesInv
  <2>3. QED
    BY <2>2 DEF EdgesInv
<1>6. PeelInv'
  <2>1. \A v \in Nodes : Preds(v, edges)' = Preds(v, edges)
    BY DEF Preds
  <2>2. \A v \in Nodes : (Preds(v, edges) \ Placed)' = Preds(v, edges)
    BY <1>2, <2>1
  <2>3. indeg' = [v \in Nodes |-> Cardinality((Preds(v, edges) \ Placed)')]
    BY <2>2
  <2>4. frontier' = {v \in Nodes \ Placed' : Preds(v, edges)' \subseteq Placed'}
    BY <1>2, <2>1
  <2>5. remaining' = NodeCount - Cardinality(Placed')
    BY <1>2 DEF PeelInv
  <2>6. QED
    BY <2>3, <2>4, <2>5 DEF PeelInv
<1>7. OrderInv' /\ DisjointInv' /\ NoCycleDetected'
  BY <1>1 DEF OrderInv, DisjointInv, NoCycleDetected
<1>8. QED
  BY <1>4, <1>5, <1>6, <1>7

\* The frontier becomes the last layer, and what it unlocks the frontier.
LEMMA PeelStep ==
    ASSUME IInv, PeelLayer
    PROVE  IInv'
<1> DEFINE P(v) == Preds(v, edges)
           n == Len(layers)
<1> USE DEF IInv
<1>1. /\ stage = "peel" /\ stage' = "peel"
      /\ intents' = intents /\ byAccount' = byAccount
      /\ edges' = edges /\ conflicts' = conflicts
      /\ layers' = Append(layers, frontier)
      /\ frontier # {} /\ frontier \subseteq Nodes
      /\ layers \in Seq(SUBSET Nodes)
  BY DEF PeelLayer, buildVars, TypeOK
<1>2. /\ n \in Nat
      /\ DOMAIN layers = 1..n
      /\ \A k \in 1..n : layers[k] \in SUBSET Nodes
  BY <1>1, LenProperties, ElementOfSeq
<1>3. /\ layers' \in Seq(SUBSET Nodes)
      /\ Len(layers') = n + 1
      /\ DOMAIN layers' = 1..(n + 1)
      /\ \A k \in 1..n : layers'[k] = layers[k]
      /\ layers'[n + 1] = frontier
  <2>1. frontier \in SUBSET Nodes
    BY <1>1
  <2>2. layers' \in Seq(SUBSET Nodes)
    BY <1>1, <2>1, AppendProperties
  <2>3. /\ Len(layers') = n + 1
        /\ \A k \in 1..n : layers'[k] = layers[k]
        /\ layers'[n + 1] = frontier
    BY <1>1, <2>1, AppendProperties
  <2>4. DOMAIN layers' = 1..(n + 1)
    BY <2>2, <2>3, LenProperties
  <2>5. QED
    BY <2>2, <2>3, <2>4
<1> HIDE DEF n
<1>4. Placed \subseteq Nodes /\ Placed' = Placed \cup frontier
  <2>1. Placed \subseteq Nodes
    BY <1>2 DEF Placed
  <2>2. ASSUME NEW v \in Placed'
        PROVE  v \in Placed \cup frontier
    <3>1. PICK k \in 1..(n + 1) : v \in layers'[k]
      BY <1>3, <2>2 DEF Placed
    <3>2. k \in 1..n \/ k = n + 1
      BY <1>2, <3>1
    <3>3. QED
      BY <1>2, <1>3, <3>1, <3>2 DEF Placed
  <2>3. ASSUME NEW v \in Placed \cup frontier
        PROVE  v \in Placed'
    <3>1. CASE v \in Placed
      <4>1. PICK k \in 1..n : v \in layers[k]
        BY <1>2, <3>1 DEF Placed
      <4>2. k \in 1..(n + 1) /\ v \in layers'[k]
        BY <1>2, <1>3, <4>1
      <4>3. QED
        BY <1>3, <4>2 DEF Placed
    <3>2. CASE v \in frontier
      <4>1. n + 1 \in 1..(n + 1)
        BY <1>2
      <4>2. QED
        BY <1>3, <3>2, <4>1 DEF Placed
    <3>3. QED
      BY <2>3, <3>1, <3>2
  <2>4. QED
    BY <2>1, <2>2, <2>3
<1>5. /\ indeg = [v \in Nodes |-> Cardinality(P(v) \ Placed)]
      /\ frontier = {v \in Nodes \ Placed : P(v) \subseteq Placed}
      /\ remaining = NodeCount - Cardinality(Placed)
  BY <1>1 DEF PeelInv
<1>6. \A v : P(v) \in SUBSET Nodes /\ P(v) = Preds(v, edges)'
  BY <1>1 DEF Preds
<1>7. \A v \in Placed : P(v) \subseteq Placed
  <2> SUFFICES ASSUME NEW v \in Placed, NEW u \in P(v)
               PROVE  u \in Placed
    OBVIOUS
  <2>1. PICK k \in 1..n : v \in layers[k]
    BY <1>2 DEF Placed
  <2>2. PICK j \in 1..(k - 1) : u \in layers[j]
    BY <1>2, <2>1 DEF OrderInv
  <2>3. j \in 1..n
    BY <1>2, <2>1, <2>2
  <2>4. QED
    BY <1>2, <2>2, <2>3 DEF Placed
<1> HIDE DEF P
<1>8. \A v \in Nodes : indeg'[v] = Cardinality(P(v) \ Placed')
  <2> SUFFICES ASSUME NEW v \in Nodes
               PROVE  indeg'[v] = Cardinality(P(v) \ Placed')
    OBVIOUS
  <2>1. indeg'[v] = indeg[v] - Cardinality(P(v) \cap frontier)
    BY DEF PeelLayer, P
  <2>2. indeg[v] = Cardinality(P(v) \ Placed)
    BY <1>5
  <2>3. IsFiniteSet(P(v) \ Placed)
    BY <1>6, NodeSets
  <2>4. P(v) \cap frontier \subseteq P(v) \ Placed
    BY <1>5
  <2>5. (P(v) \ Placed) \ (P(v) \cap frontier) = P(v) \ Placed'
    BY <1>4
  <2>6. QED
    BY <2>1, <2>2, <2>3, <2>4, <2>5, CardinalityOfRest
<1>9. indeg' = [v \in Nodes |-> Cardinality(P(v) \ Placed')]
  <2>1. indeg' = [v \in Nodes |-> indeg'[v]]
    BY DEF PeelLayer
  <2>2. QED
    BY <1>8, <2>1
<1>10. frontier' = {v \in Nodes : P(v) \cap frontier # {} /\ P(v) \subseteq Placed'}
  <2>1. frontier' = {v \in Nodes : P(v) \cap frontier # {} /\ indeg'[v] = 0}
    BY DEF PeelLayer, Unlocked, P
  <2>2. \A v \in Nodes : indeg'[v] = 0 <=> P(v) \subseteq Placed'
    <3>1. ASSUME NEW v \in Nodes
          PROVE  Cardinality(P(v) \ Placed') = 0 <=> P(v) \ Placed' = {}
      <4>1. P(v) \ Placed' \in SUBSET Nodes
        BY <1>6
      <4>2. QED
        BY <4>1, NodeSets
    <3>2. QED
      BY <1>8, <3>1
  <2>3. QED
    BY <2>1, <2>2
<1>11. frontier' = {v \in Nodes \ Placed' : P(v) \subseteq Placed'}
  BY <1>4, <1>5, <1>7, <1>10
<1>12. remaining' = NodeCount - Cardinality(Placed') /\ Placed' \in SUBSET Nodes
  <2>1. remaining' = remaining - Cardinality(frontier)
    BY DEF PeelLayer
  <2>2. Placed' \in SUBSET Nodes /\ Placed = Placed' \ frontier
    BY <1>1, <1>4, <1>5
  <2>3. frontier \in SUBSET Placed' /\ IsFiniteSet(Placed')
    BY <1>4, <2>2, NodeSets
  <2>4. Cardinality(Placed) = Cardinality(Placed') - Cardinality(frontier)
    BY <2>2, <2>3, CardinalityOfRest
  <2>5. /\ Cardinality(Placed) \in Nat /\ Cardinality(Placed') \in Nat
        /\ Cardinality(frontier) \in Nat
    BY <1>1, <1>4, <2>2, NodeSets
  <2>6. QED
    BY <1>5, <2>1, <2>2, <2>4, <2>5, NodeCountAssumption
<1>13. TypeOK'
  <2>1. indeg' \in [Nodes -> 0..NodeCount]
    <3>1. \A v \in Nodes : Cardinality(P(v) \ Placed') \in 0..NodeCount
      BY <1>6, NodeSets
    <3>2. QED
      BY <1>9, <3>1
  <2>2. frontier' \subseteq Nodes
    BY <1>10
  <2>3. remaining' \in 0..NodeCount
    <3>1. Cardinality(Placed') \in 0..NodeCount
      BY <1>12, NodeSets
    <3>2. QED
      BY <1>12, <3>1, NodeCountAssumption
  <2>4. QED
    BY <1>1, <1>3, <2>1, <2>2, <2>3 DEF TypeOK
<1>14. EdgesInv'
  <2>1. \A b \in Accounts : ChainEdges(b)' = ChainEdges(b)
    BY <1>1 DEF ChainEdges, Writes, Touches, Before
  <2>2. edges' = UNION {ChainEdges(b)' : b \in Accounts \ byAccount'}
    BY <1>1, <2>1 DEF EdgesInv
  <2>3. QED
    BY <1>1, <2>2 DEF EdgesInv
<1>15. PeelInv'
  BY <1>1, <1>6, <1>9, <1>11, <1>12 DEF PeelInv
<1>16. OrderInv'
  <2>1. ASSUME NEW k \in 1..(n + 1), NEW v \in layers'[k]
        PROVE  /\ \A u \in P(v) : \E j \in 1..(k - 1) : u \in layers'[j]
               /\ k > 1 => \E u \in layers'[k - 1] : u \in P(v)
    <3>1. CASE k \in 1..n
      <4>1. v \in layers[k]
        BY <1>3, <3>1
      <4>2. /\ \A u \in P(v) : \E j \in 1..(k - 1) : u \in layers[j]
            /\ k > 1 => \E u \in layers[k - 1] : u \in P(v)
        BY <1>2, <3>1, <4>1 DEF OrderInv, P
      <4>3. \A j \in 1..(k - 1) : j \in 1..n
        BY <1>2, <3>1
      <4>4. k > 1 => k - 1 \in 1..(k - 1)
        BY <1>2, <3>1
      <4>5. QED
        BY <1>3, <4>2, <4>3, <4>4
    <3>2. CASE k = n + 1
      <4>1. v \in frontier /\ k - 1 = n
        BY <1>2, <1>3, <3>2
      <4>2. \A u \in P(v) : \E j \in 1..n : u \in layers[j]
        BY <1>2, <1>5, <4>1 DEF Placed
      <4>3. k > 1 => P(v) \cap layers[n] # {} /\ n \in 1..n
        <5>1. k > 1 => n \in 1..n /\ n # 0
          BY <1>2, <3>2
        <5>2. n # 0 => layers # << >>
          BY DEF n
        <5>3. layers # << >> => P(v) \cap layers[n] # {}
          BY <4>1 DEF OrderInv, P, n
        <5>4. QED
          BY <5>1, <5>2, <5>3
      <4>4. QED
        BY <1>3, <4>1, <4>2, <4>3
    <3>3. QED
      BY <1>2, <3>1, <3>2
  <2>2. \A v \in frontier' : P(v) \cap layers'[Len(layers')] # {}
    BY <1>3, <1>10
  <2>3. QED
    BY <1>3, <1>6, <2>1, <2>2 DEF OrderInv
<1>17. DisjointInv'
  <2>1. \A k \in 1..(n + 1) : layers'[k] # {}
    <3> SUFFICES ASSUME NEW k \in 1..(n + 1)
                 PROVE  layers'[k] # {}
      OBVIOUS
    <3>1. k \in 1..n \/ k = n + 1
      BY <1>2
    <3>2. QED
      BY <1>1, <1>2, <1>3, <3>1 DEF DisjointInv
  <2>2. \A k \in 1..n : layers[k] \cap frontier = {}
    BY <1>2, <1>5 DEF Placed
  <2>3. ASSUME NEW k \in 1..(n + 1), NEW m \in 1..(n + 1),
               layers'[k] \cap layers'[m] # {}
        PROVE  k = m
    <3>1. (k \in 1..n \/ k = n + 1) /\ (m \in 1..n \/ m = n + 1)
      BY <1>2
    <3>2. CASE k \in 1..n /\ m \in 1..n
      BY <1>2, <1>3, <2>3, <3>2 DEF DisjointInv
    <3>3. CASE k \in 1..n /\ m = n + 1
      BY <1>3, <2>2, <2>3, <3>3
    <3>4. CASE k = n + 1 /\ m \in 1..n
      BY <1>3, <2>2, <2>3, <3>4
    <3>5. QED
      BY <3>1, <3>2, <3>3, <3>4
  <2>4. QED
    BY <1>3, <2>1, <2>3 DEF DisjointInv
<1>18. NoCycleDetected'
  BY <1>1 DEF NoCycleDetected
<1>19. QED
  BY <1>13, <1>14, <1>15, <1>16, <1>17, <1>18

\* When the frontier is empty, every node is in a layer: otherwise one of the
\* rest would come first in the order, and all its predecessors be placed.
LEMMA NothingLeft ==
    ASSUME IInv, stage = "peel", frontier = {}
    PROVE  Placed = Nodes /\ remaining = 0
<1> USE DEF IInv
<1>1. frontier = {v \in Nodes \ Placed : Preds(v, edges) \subseteq Placed}
  BY DEF PeelInv
<1>2. Placed \subseteq Nodes
  <2>1. layers \in Seq(SUBSET Nodes)
    BY DEF TypeOK
  <2>2. \A k \in DOMAIN layers : layers[k] \in SUBSET Nodes
    BY <2>1, LenProperties, ElementOfSeq
  <2>3. QED
    BY <2>2 DEF Placed
<1>3. ASSUME Nodes \ Placed # {}
      PROVE  FALSE
  <2>1. PICK v \in Nodes \ Placed : \A u \in Nodes \ Placed : ~ Before(u, v)
    BY <1>3, FirstNode DEF TypeOK
  <2>2. PICK u \in Preds(v, edges) : u \notin Placed
    BY <1>1, <2>1
  <2>3. <<u, v>> \in edges
    BY <2>2 DEF Preds
  <2>4. u \in Nodes /\ Before(u, v)
    BY <2>3, EdgeMeaning
  <2>5. QED
    BY <2>1, <2>2, <2>4
<1>4. Placed = Nodes
  BY <1>2, <1>3
<1>5. remaining = NodeCount - NodeCount
  BY <1>4, NodeSets DEF PeelInv
<1>6. QED
  BY <1>4, <1>5, NodeCountAssumption

\* layers() returns its layers.
LEMMA FinishStep ==
    ASSUME IInv, FinishLayers
    PROVE  IInv'
<1> USE DEF IInv, FinishLayers, buildVars, layerVars
<1>1. remaining = 0 /\ stage' = "done"
  BY NothingLeft
<1>2. /\ \A v : Preds(v, edges)' = Preds(v, edges)
      /\ Placed' = Placed
  BY DEF Preds, Placed
<1>3. TypeOK' /\ NoCycleDetected'
  BY <1>1 DEF TypeOK, NoCycleDetected
<1>4. EdgesInv'
  <2>1. \A b \in Accounts : ChainEdges(b)' = ChainEdges(b)
    BY DEF ChainEdges, Writes, Touches, Before
  <2>2. edges' = UNION {ChainEdges(b)' : b \in Accounts \ byAccount'}
    BY <2>1 DEF EdgesInv
  <2>3. QED
    BY <2>2 DEF EdgesInv
<1>5. PeelInv'
  BY <1>1, <1>2 DEF PeelInv
<1>6. OrderInv' /\ DisjointInv'
  BY <1>2 DEF OrderInv, DisjointInv
<1>7. QED
  BY <1>3, <1>4, <1>5, <1>6

\* A step that changes nothing.
LEMMA StutterStep ==
    ASSUME IInv, UNCHANGED vars
    PROVE  IInv'
<1> USE DEF vars, buildVars, layerVars
<1>1. TypeOK' /\ NoCycleDetected'
  BY DEF IInv, TypeOK, NoCycleDetected
<1>2. EdgesInv' /\ PeelInv' /\ OrderInv' /\ DisjointInv'
  BY DEF IInv, EdgesInv, ChainEdges, Writes, Touches, Before, PeelInv,
         OrderInv, DisjointInv, Preds, Placed
<1>3. QED
  BY <1>1, <1>2 DEF IInv

\* The edges, counts and layers keep their relation through build() and
\* layers().
THEOREM InductiveInvariant == Spec => []IInv
<1>1. IInv /\ [Next]_vars => IInv'
  <2> SUFFICES ASSUME IInv, [Next]_vars
               PROVE  IInv'
    OBVIOUS
  <2>1. CASE \E a \in Accounts : Chain(a)
    BY <2>1, ChainStep
  <2>2. CASE StartLayers
    BY <2>2, StartStep
  <2>3. CASE PeelLayer
    BY <2>3, PeelStep
  <2>4. CASE FinishLayers
    BY <2>4, FinishStep
  <2>5. CASE Terminated \/ UNCHANGED vars
    BY <2>5, StutterStep DEF Terminated
  <2>6. QED
    BY <2>1, <2>2, <2>3, <2>4, <2>5 DEF Next
<1>2. QED
  BY <1>1, InvInit, PTL DEF Spec

-----------------------------------------------------------------------------
(* The properties.                                                         *)

\* Dag's fields and the locals of layers() keep their types: the counts that
\* the code takes down with saturating_sub never saturate.
THEOREM TypeCorrect == Spec => []TypeOK
<1>1. IInv => TypeOK
  BY DEF IInv
<1>2. QED
  BY <1>1, InductiveInvariant, PTL

\* layers() never fails: the chains of all accounts follow one total order.
THEOREM NoCycleDetectedCorrect == Spec => []NoCycleDetected
<1>1. IInv => NoCycleDetected
  BY DEF IInv
<1>2. QED
  BY <1>1, InductiveInvariant, PTL

\* When nothing remains, every node is placed.
LEMMA PartitionHolds == IInv => LayersPartition
<1> SUFFICES ASSUME IInv
             PROVE  LayersPartition
  OBVIOUS
<1>1. ASSUME stage = "done", NEW v \in Nodes
      PROVE  \E k \in DOMAIN layers : InLayer(v, k)
  <2>1. Placed \in SUBSET Nodes
    <3>1. layers \in Seq(SUBSET Nodes)
      BY DEF IInv, TypeOK
    <3>2. \A k \in DOMAIN layers : layers[k] \in SUBSET Nodes
      BY <3>1, LenProperties, ElementOfSeq
    <3>3. QED
      BY <3>2 DEF Placed
  <2>2. 0 = NodeCount - Cardinality(Placed)
    BY <1>1 DEF IInv, PeelInv
  <2>3. Cardinality(Placed) \in Nat
    BY <2>1, NodeSets
  <2>4. Cardinality(Placed) = NodeCount
    BY <2>2, <2>3, NodeCountAssumption
  <2>5. Placed = Nodes
    BY <2>1, <2>4, NodeSets
  <2>6. QED
    BY <2>5 DEF Placed, InLayer
<1>2. QED
  BY <1>1 DEF IInv, DisjointInv, LayersPartition

\* Every intent is in one layer in the end, and never in two, and there is no
\* cycle.
THEOREM LayersPartitionCorrect == Spec => []LayersPartition
  BY PartitionHolds, InductiveInvariant, PTL

\* Once the chains are complete, a layer comes after the predecessors of its
\* nodes.
LEMMA OrderHolds == IInv => WritesComeFirst
<1> SUFFICES ASSUME IInv, stage # "build",
                    NEW a \in Accounts, NEW u \in Nodes, NEW v \in Nodes,
                    Writes(u, a), Touches(v, a), Before(u, v),
                    NEW m \in DOMAIN layers, InLayer(v, m)
             PROVE  \E k \in 1..(m - 1) : InLayer(u, k)
  BY DEF WritesComeFirst
<1>1. <<u, v>> \in ChainEdges(a)
  BY DEF ChainEdges
<1>2. <<u, v>> \in edges
  BY <1>1 DEF IInv, EdgesInv
<1>3. u \in Preds(v, edges)
  BY <1>2 DEF Preds
<1>4. QED
  BY <1>3 DEF IInv, OrderInv, InLayer

\* A writer of an account is in an earlier layer than each intent that names
\* the account and comes after it in the order.
THEOREM WritesComeFirstCorrect == Spec => []WritesComeFirst
  BY OrderHolds, InductiveInvariant, PTL

\* The predecessor in the layer before writes an account of both.
LEMMA WaitsHold == IInv => WaitsAreJustified
<1> SUFFICES ASSUME IInv, NEW k \in DOMAIN layers, k > 1, NEW v \in layers[k]
             PROVE  \E u \in layers[k - 1], a \in Accounts :
                        /\ Touches(u, a) /\ Touches(v, a) /\ Before(u, v)
                        /\ \E w \in Nodes : Writes(w, a)
  BY DEF WaitsAreJustified
<1>1. PICK u \in layers[k - 1] : u \in Preds(v, edges)
  BY DEF IInv, OrderInv
<1>2. <<u, v>> \in edges /\ u \in Nodes
  BY <1>1 DEF Preds
<1>3. PICK a \in Accounts : Writes(u, a) /\ Touches(v, a) /\ Before(u, v)
  BY <1>2, EdgeMeaning DEF IInv
<1>4. Touches(u, a)
  BY <1>3 DEF Writes, Touches
<1>5. QED
  BY <1>2, <1>3, <1>4

\* An intent of a later layer waits for one of the layer before, over an account
\* that somebody writes.
THEOREM WaitsAreJustifiedCorrect == Spec => []WaitsAreJustified
  BY WaitsHold, InductiveInvariant, PTL

\* What the run dag_conflict_free leaves of the module's documentation: two
\* intents of a layer that conflict on an account are a reader and a writer, and
\* the reader is ranked first.
OnlyReadersAhead ==
    \A k \in DOMAIN layers : \A u, v \in layers[k] : \A a \in Accounts :
        (Conflicts(u, v, a) /\ Before(u, v)) => ~ Writes(u, a) /\ Writes(v, a)

\* A writer ranked first would be in a layer before.
THEOREM LayerConflictsAreReadersAhead == Spec => []OnlyReadersAhead
<1>1. IInv => OnlyReadersAhead
  <2> SUFFICES ASSUME IInv, NEW k \in DOMAIN layers,
                      NEW u \in layers[k], NEW v \in layers[k], NEW a \in Accounts,
                      Conflicts(u, v, a), Before(u, v), Writes(u, a)
               PROVE  FALSE
    BY DEF OnlyReadersAhead, Conflicts
  <2>1. layers \in Seq(SUBSET Nodes) /\ k \in 1 .. Len(layers) /\ layers[k] \subseteq Nodes
    <3>1. layers \in Seq(SUBSET Nodes)
      BY DEF IInv, TypeOK
    <3>2. QED
      BY <3>1, LenProperties, ElementOfSeq
  <2>2. stage # "build"
    BY <2>1 DEF IInv, PeelInv
  <2>3. PICK j \in 1 .. (k - 1) : u \in layers[j]
    BY <2>1, <2>2, OrderHolds DEF WritesComeFirst, InLayer, Conflicts
  <2>4. j \in DOMAIN layers /\ j # k
    BY <2>1, <2>3
  <2>5. layers[j] \cap layers[k] # {}
    BY <2>3
  <2>6. QED
    BY <2>4, <2>5 DEF IInv, DisjointInv
<1>2. QED
  BY <1>1, InductiveInvariant, PTL

=============================================================================
