------------------------------ MODULE Planning ------------------------------
(***************************************************************************)
(* From intents to messages, as run_er_once of rollup_cli.rs composes it:  *)
(* the dependency graph of the intents gives layers (Dag), each layer is   *)
(* cut into chunks and small chunks are joined (ChunkPlanner), one layer   *)
(* after the other, and build_v0_message (bundler/src/serializer.rs) makes *)
(* a message of every plan or refuses it.  How the plans of a layer are    *)
(* sent is the matter of LayerPipeline; here it is one step.  With --mode  *)
(* compare a baseline follows that sends the intents one by one            *)
(* (run_baseline_once); with --mode baseline-only nothing else is done.    *)
(***************************************************************************)
EXTENDS Dag, ChunkPlanner, Functions

CONSTANTS
    Payer,      \* the account that pays for the transactions
    Batches     \* the intents and options of the runs to consider

\* RunMode
Modes == {"er", "baseline", "compare"}

Batch ==
    [mode : Modes,
     footprints : [Nodes -> Footprints],
     priorities : [Nodes -> Priorities],
     opts : Options]

ASSUME PlanningAssumption ==
    /\ Payer \in Keys
    /\ Batches \subseteq Batch
    /\ \A fp \in Footprints : AccountsOf(fp) \subseteq Accounts

VARIABLES
    mode,       \* the mode of the run
    footprints, \* the instructions of the intents, by node
    sent,       \* for each layer so far, its messages in order
    baseline    \* where the baseline is: how many intents it has sent, and
                \* whether it goes on or why it gave up

runVars == <<mode, footprints>>
planningVars == <<vars, plannerVars, runVars, sent, baseline>>

\* UserIntent::new takes the accesses from the instruction: the program is
\* none of them, and one writable meta of an account makes it writable.
AccessesOf(fp) ==
    [a \in Accounts |->
        IF a \in fp.writes THEN "Writable"
        ELSE IF a \in AccountsOf(fp) THEN "ReadOnly"
        ELSE "None"]

\* Between two layers nothing is being planned.
Idle ==
    /\ layer = <<>>
    /\ phase = "done"
    /\ next = 1
    /\ acc = Empty
    /\ chunks = <<>>
    /\ head = NoPlan
    /\ plans = <<>>

PlanningInit ==
    \E b \in Batches :
        /\ mode = b.mode
        /\ footprints = b.footprints
        /\ opts = b.opts
        /\ intents = [v \in Nodes |->
                        [priority |-> b.priorities[v],
                         access |-> AccessesOf(b.footprints[v])]]
        /\ Init
        /\ Idle
        /\ sent = <<>>
        /\ baseline = [count |-> 0, state |-> "running"]

-----------------------------------------------------------------------------
(* Faulty variants.                                                        *)

\* The layers are taken from the last one on.
LayerInTurnBackwards == layers[Len(layers) - Len(sent)]

\* Positions in the layer are taken for indices of intents.
NodesOfPositions(plan) == [k \in DOMAIN plan.nodes |-> plan.nodes[k] - 1]

-----------------------------------------------------------------------------
(* The layers in turn.                                                     *)

LayerInTurn == layers[Len(sent) + 1]

\* A layer lists its nodes in ascending order (the frontier is a BTreeSet).
InOrder(L) ==
    [k \in 1..Cardinality(L) |-> CHOOSE v \in L : Cardinality({u \in L : u < v}) = k - 1]

\* chunk_layer_with is called for the next layer.
BeginLayer ==
    /\ stage = "done" /\ mode # "baseline"
    /\ layer = <<>>
    /\ Len(sent) < Len(layers)
    /\ layer' = [i \in DOMAIN InOrder(LayerInTurn) |->
                    footprints[InOrder(LayerInTurn)[i]]]
    /\ phase' = "pack"
    /\ UNCHANGED <<vars, opts, next, acc, chunks, head, plans, runVars, sent, baseline>>

\* The indices of a plan's intents.
NodesOfPlan(plan) ==
    [k \in DOMAIN plan.nodes |-> InOrder(LayerInTurn)[plan.nodes[k]]]

\* The version, and the two compute-budget instructions that are put first:
\* program, no accounts and data of 5 and of 9 bytes, with their lengths.
AddedBytes == 1 + (3 + 5) + (3 + 9)

\* What MessageV0::try_compile makes of instructions without lookup tables:
\* each key once, with the payer and the compute-budget program.
CompiledBytes(keys, bytes) ==
    BaseBytes + AddedBytes + KeyBytes * (Cardinality(keys \cup {Payer}) + 1) + bytes

\* Whether build_v0_message accepts the plan, as long as no lookup table takes
\* keys out of the message.
Builds(plan) ==
    /\ plan.nodes # <<>>
    /\ CompiledBytes(UnionOfKeys(NodesOf(plan)),
                     MapThenSumSet(LAMBDA i : layer[i].bytes, NodesOf(plan)))
          <= opts.maxMessage

BuildsAlone(fp) == CompiledBytes(Range(fp.keys), fp.bytes) <= opts.maxMessage

\* All plans of the layer are built and sent; a plan that cannot be built
\* fails by itself.
SendLayer ==
    /\ phase = "done"
    /\ layer # <<>>
    /\ sent' = Append(sent,
                [p \in DOMAIN plans |->
                    [nodes |-> NodesOfPlan(plans[p]), built |-> Builds(plans[p])]])
    /\ layer' = <<>>
    /\ next' = 1
    /\ chunks' = <<>>
    /\ head' = NoPlan
    /\ plans' = <<>>
    /\ UNCHANGED <<vars, opts, phase, acc, runVars, baseline>>

-----------------------------------------------------------------------------
(* The run.                                                                *)

GraphStep ==
    /\ (\E a \in Accounts : Chain(a)) \/ StartLayers \/ PeelLayer \/ FinishLayers
    /\ UNCHANGED <<plannerVars, runVars, sent, baseline>>

PlanStep ==
    /\ TooLarge \/ AddToChunk \/ StartChunk \/ FinishPacking \/ MergeNext \/ CloseHead
    /\ UNCHANGED <<vars, runVars, sent, baseline>>

LayersSent == stage = "done" /\ layer = <<>> /\ Len(sent) = Len(layers)

\* The layers are all sent, or an intent was too large (or the graph had a
\* cycle) and the run is given up, with its baseline.
RollupOver == stage = "CycleDetected" \/ phase = "failed" \/ LayersSent

-----------------------------------------------------------------------------
(* run_baseline_once.                                                      *)

BaselineTurn ==
    /\ baseline.state = "running" /\ baseline.count < NodeCount
    /\ \/ mode = "baseline" /\ stage = "done"
       \/ mode = "compare" /\ LayersSent

\* The intents as they came, each in a message of its own and with no tables.
BaselineSends ==
    /\ BaselineTurn
    /\ baseline' = IF BuildsAlone(footprints[baseline.count])
                   THEN [baseline EXCEPT !.count = @ + 1]
                   ELSE [baseline EXCEPT !.state = "refused"]
    /\ UNCHANGED <<vars, plannerVars, runVars, sent>>

\* Any error of lease, simulation or submission ends the baseline, and with it
\* the command: no report is printed, not even of the rollup.
BaselineFails ==
    /\ BaselineTurn
    /\ baseline' = [baseline EXCEPT !.state = "failed"]
    /\ UNCHANGED <<vars, plannerVars, runVars, sent>>

Over ==
    /\ RollupOver \/ (mode = "baseline" /\ stage = "done")
    /\ ~ BaselineTurn
    /\ UNCHANGED planningVars

PlanningNext ==
    \/ GraphStep \/ BeginLayer \/ PlanStep \/ SendLayer
    \/ BaselineSends \/ BaselineFails \/ Over

PlanningSpec == PlanningInit /\ [][PlanningNext]_planningVars

-----------------------------------------------------------------------------
(* Correctness properties.                                                 *)

\* Where an intent is sent: layer, message and place in the message.
PlacesOf(v) ==
    {x \in (1..NodeCount) \X (1..NodeCount) \X (1..NodeCount) :
        /\ x[1] \in DOMAIN sent
        /\ x[2] \in DOMAIN sent[x[1]]
        /\ x[3] \in DOMAIN sent[x[1]][x[2]].nodes
        /\ sent[x[1]][x[2]].nodes[x[3]] = v}

\* Through graph, layers, chunks and merging no intent is lost or sent twice:
\* each one is in one place of one message when the run is over, unless it was
\* given up.  And a writer of an account goes before every lower-ranked intent
\* that names the account, in an earlier layer, so that no two messages that
\* may be sent concurrently, and no two places of a message, write one account.
SentOnceInOrder ==
    /\ \A v \in Nodes :
          /\ Cardinality(PlacesOf(v)) <= 1
          /\ (LayersSent /\ mode # "baseline") => PlacesOf(v) # {}
    /\ \A a \in Accounts, u, v \in Nodes :
          (Writes(u, a) /\ Touches(v, a) /\ Before(u, v)) =>
              \A y \in PlacesOf(v) : \E x \in PlacesOf(u) : x[1] < y[1]

\* TxBudget refined as its documentation asks of the caller: what the planner
\* may fill leaves room, within what SafetyMargins allows a message, for what
\* build_v0_message adds.  A merged plan is held to maxMessage itself, and what
\* is added must fit where its second overhead and the slacks were counted.
RefinedBudget ==
    /\ ~ opts.alt
    /\ opts.maxBytes - opts.slack + AddedBytes + 2 * KeyBytes <= opts.maxMessage
    /\ opts.merge => AddedBytes + 2 * KeyBytes <= BaseBytes + 2 * opts.slack

\* Under a refined budget the planner and the serializer agree: no chunk that
\* is planned, nor any that is merged, is refused as too large, and so the
\* baseline of a comparison is not given up for an intent that the rollup has
\* sent.  (The command line leaves TxBudget as it is, and a chunk may be
\* refused in every attempt; but whatever the budget, an intent that was built
\* in a chunk without lookup tables is built alone.)
RefinedBudgetBuilds ==
    \A m \in DOMAIN sent : \A p \in DOMAIN sent[m] :
        /\ RefinedBudget => sent[m][p].built
        /\ (~ opts.alt /\ sent[m][p].built /\ baseline.state = "refused") =>
              baseline.count \notin Range(sent[m][p].nodes)

=============================================================================
