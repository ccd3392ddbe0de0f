-------------------------------- MODULE Dag --------------------------------
(***************************************************************************)
(* The planner's dependency graph, bundler/src/dag/mod.rs: Dag::build adds *)
(* edges account by account, in whatever order the hash map yields them,   *)
(* and Dag::layers peels the graph into the layers that the driver sends   *)
(* one after the other.                                                    *)
(***************************************************************************)
EXTENDS Integers, Sequences, FiniteSets

CONSTANTS
    NodeCount,      \* number of intents
    Accounts,       \* account keys
    Priorities      \* priorities of intents, a set of u8 values

ASSUME NodeCountAssumption == NodeCount \in Nat
ASSUME PrioritiesAssumption == Priorities \subseteq 0..255

\* A node is the index of its intent.
Nodes == 0..(NodeCount - 1)

\* AccessKind; "None" when the intent does not name the account.  An intent
\* names an account at most once (accesses_from_ix merges and escalates).
Access == {"None", "ReadOnly", "Writable"}

Intent == [priority : Priorities, access : [Accounts -> Access]]

VARIABLES
    intents,        \* Dag.nodes, the input
    byAccount,      \* accounts with a writer that build has not looked at yet
    edges,          \* Dag.edge_set; edges and rev_edges list the same pairs
    conflicts,      \* Dag.conflicts
    stage,          \* "build", "peel", "done" or "CycleDetected"
    indeg,          \* layers(): predecessors that are in no layer yet
    frontier,       \* layers(): the next layer
    layers,         \* layers(): the layers so far
    remaining       \* layers(): how many nodes are in none of them

buildVars == <<byAccount, edges, conflicts>>
layerVars == <<indeg, frontier, layers, remaining>>
vars == <<intents, buildVars, stage, layerVars>>

Touches(v, a) == intents[v].access[a] # "None"
Writes(v, a) == intents[v].access[a] = "Writable"

\* AccountAccess::conflicts, for the accesses of two intents to one account.
Conflicts(u, v, a) ==
    Touches(u, a) /\ Touches(v, a) /\ (Writes(u, a) \/ Writes(v, a))

\* Faulty variant of the next definition: without the index in the key,
\* intents of one priority precede each other.
BeforeUnstable(u, v) ==
    u # v /\ intents[u].priority >= intents[v].priority

\* The sort key: priority descending, then index ascending.
Before(u, v) ==
    \/ intents[u].priority > intents[v].priority
    \/ intents[u].priority = intents[v].priority /\ u < v

Preds(v, E) == {u \in Nodes : <<u, v>> \in E}

Init ==
    /\ intents \in [Nodes -> Intent]
    /\ byAccount = {a \in Accounts : \E v \in Nodes : Writes(v, a)}
    /\ edges = {}
    /\ conflicts = {}
    /\ stage = "build"
    /\ indeg = [v \in Nodes |-> 0]
    /\ frontier = {}
    /\ layers = << >>
    /\ remaining = NodeCount

-----------------------------------------------------------------------------
(* Faulty variants of the definitions below, used to show that a property  *)
(* can fail.                                                               *)

\* Every intent whose count is zero is taken again.
UnlockedAgain(F, deg) == {v \in Nodes : deg[v] = 0}

\* Any visited successor is unlocked, whatever its count.
UnlockedEarly(F, deg) == {v \in Nodes : Preds(v, edges) \cap F # {}}

\* The chain of an account links a writer to the later writers only.
ChainEdgesWriters(a) ==
    {e \in Nodes \X Nodes :
        Writes(e[1], a) /\ Writes(e[2], a) /\ Before(e[1], e[2])}

-----------------------------------------------------------------------------
(* Dag::build                                                              *)

\* From each writer of an account to every later participant.
ChainEdges(a) ==
    {e \in Nodes \X Nodes :
        Writes(e[1], a) /\ Touches(e[2], a) /\ Before(e[1], e[2])}

\* One round of the loop over by_account: an edge that is there already is
\* not added again, nor is its conflict recorded.
Chain(a) ==
    /\ stage = "build"
    /\ a \in byAccount
    /\ byAccount' = byAccount \ {a}
    /\ edges' = edges \cup ChainEdges(a)
    /\ conflicts' = conflicts \cup {<<a, e>> : e \in ChainEdges(a) \ edges}
    /\ UNCHANGED <<intents, stage, layerVars>>

-----------------------------------------------------------------------------
(* Dag::layers                                                             *)

\* The indegrees are counted and the nodes that have none are the frontier.
StartLayers ==
    /\ stage = "build"
    /\ byAccount = {}
    /\ stage' = "peel"
    /\ indeg' = [v \in Nodes |-> Cardinality(Preds(v, edges))]
    /\ frontier' = {v \in Nodes : Preds(v, edges) = {}}
    /\ UNCHANGED <<intents, buildVars, layers, remaining>>

\* The successors of F whose count has come down to zero.
Unlocked(F, deg) == {v \in Nodes : Preds(v, edges) \cap F # {} /\ deg[v] = 0}

\* Faulty variant of the next definition: a layer takes one node of the
\* frontier, as topo_order's queue does, and leaves the others waiting.
PeelOne ==
    /\ stage = "peel"
    /\ frontier # {}
    /\ LET v == CHOOSE n \in frontier : \A m \in frontier : n <= m
       IN  /\ indeg' = [w \in Nodes |->
                           indeg[w] - Cardinality(Preds(w, edges) \cap {v})]
           /\ frontier' = (frontier \ {v}) \cup Unlocked({v}, indeg')
           /\ layers' = Append(layers, {v})
    /\ remaining' = remaining - 1
    /\ UNCHANGED <<intents, buildVars, stage>>

\* The frontier becomes a layer; the counts of its successors go down, once
\* for every edge.
PeelLayer ==
    /\ stage = "peel"
    /\ frontier # {}
    /\ indeg' = [v \in Nodes |->
                    indeg[v] - Cardinality(Preds(v, edges) \cap frontier)]
    /\ frontier' = Unlocked(frontier, indeg')
    /\ layers' = Append(layers, frontier)
    /\ remaining' = remaining - Cardinality(frontier)
    /\ UNCHANGED <<intents, buildVars, stage>>

FinishLayers ==
    /\ stage = "peel"
    /\ frontier = {}
    /\ stage' = IF remaining = 0 THEN "done" ELSE "CycleDetected"
    /\ UNCHANGED <<intents, buildVars, layerVars>>

Terminated ==
    /\ stage \in {"done", "CycleDetected"}
    /\ UNCHANGED vars

Next ==
    \/ \E a \in Accounts : Chain(a)
    \/ StartLayers
    \/ PeelLayer
    \/ FinishLayers
    \/ Terminated

Spec == Init /\ [][Next]_vars

-----------------------------------------------------------------------------
(* Correctness properties.                                                 *)

\* The fields of Dag and the locals of layers() have their types; a count is
\* never negative (the code's saturating_sub never saturates).
TypeOK ==
    /\ intents \in [Nodes -> Intent]
    /\ byAccount \subseteq Accounts
    /\ edges \subseteq Nodes \X Nodes
    /\ conflicts \subseteq Accounts \X (Nodes \X Nodes)
    /\ stage \in {"build", "peel", "done", "CycleDetected"}
    /\ indeg \in [Nodes -> 0..NodeCount]
    /\ frontier \subseteq Nodes
    /\ layers \in Seq(SUBSET Nodes)
    /\ remaining \in 0..NodeCount

InLayer(v, k) == v \in layers[k]

\* DagError::CycleDetected: "this should not happen with total-order
\* chaining".  Whatever the accounts and priorities, the union of the chains
\* has no cycle, and peeling never stops early.
NoCycleDetected == stage # "CycleDetected"

\* The driver sends every intent once: peeling never stops early, layers are
\* disjoint, none is empty, and at the end every intent is in one.
LayersPartition ==
    /\ NoCycleDetected
    /\ \A k \in DOMAIN layers : layers[k] # {}
    /\ \A k, m \in DOMAIN layers : layers[k] \cap layers[m] # {} => k = m
    /\ stage = "done" => \A v \in Nodes : \E k \in DOMAIN layers : InLayer(v, k)

\* Running the layers one after the other, a writer of an account goes before
\* every lower-ranked intent that names the account, reader or writer; so
\* two writers of an account are never in one layer.
WritesComeFirst ==
    \A a \in Accounts, u, v \in Nodes :
        (Writes(u, a) /\ Touches(v, a) /\ Before(u, v) /\ stage # "build")
            => \A m \in DOMAIN layers :
                  InLayer(v, m) => \E k \in 1..(m - 1) : InLayer(u, k)

\* "While allowing pure R/R sets to remain unconstrained" (the module's
\* documentation), over all layers: an intent of a later layer shares with one
\* that is ranked before it, and is in the layer just before, an account that
\* somebody writes.  So a set of intents that only read what they share never
\* waits within itself, and no intent is held back by a count that came down
\* too late.  The chain over all participants, which that documentation
\* describes and build does not add, would keep this too.
WaitsAreJustified ==
    \A k \in DOMAIN layers : k > 1 =>
        \A v \in layers[k] :
            \E u \in layers[k - 1], a \in Accounts :
                /\ Touches(u, a) /\ Touches(v, a) /\ Before(u, v)
                /\ \E w \in Nodes : Writes(w, a)

\* The module's documentation: "If any are Writable, we sort those
\* participating intents by the order key and create a chain of edges along
\* that order.  This enforces a safe sequencing for W/W and R/W hazards", and
\* layers are "of concurrently-safe nodes": two intents of a layer never
\* conflict on an account.
LayersAreConflictFree ==
    \A k \in DOMAIN layers : \A u, v \in layers[k] :
        u # v => \A a \in Accounts : ~ Conflicts(u, v, a)

=============================================================================
