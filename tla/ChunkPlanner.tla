---------------------------- MODULE ChunkPlanner ----------------------------
(***************************************************************************)
(* How a layer becomes chunks: chunk_layer_with                            *)
(* (bundler/src/chunking/mod.rs) packs the intents of a layer, in order,   *)
(* into chunks within the budgets of a transaction, and                    *)
(* merge_small_chunk_plans (bundler/src/pipeline/rollup.rs) joins          *)
(* neighbouring small chunks for the rollup.  One step treats one intent,  *)
(* or one chunk.                                                           *)
(***************************************************************************)
EXTENDS Integers, Sequences, FiniteSets, FiniteSetsExt

CONSTANTS
    Keys,       \* account keys
    Actors,
    Footprints, \* the intents to consider
    MaxLayer,   \* intents in a layer
    Options     \* the budgets and policies to consider

\* The program and the accounts of the instruction, those that it writes, its
\* compiled bytes and its CU estimate.
Footprint ==
    [keys : Seq(Keys), writes : SUBSET Keys, bytes : Nat, cu : Nat, actor : Actors]

\* TxBudget, AltPolicy, the rollup's min_cu_threshold, and what SafetyMargins
\* allows a merged chunk.
OptionRecord ==
    [maxBytes : Nat, slack : Nat, maxKeys : Nat, maxInstrs : Nat, maxCu : Nat,
     alt : BOOLEAN, reserve : Nat, maxAlt : Nat, tableBytes : Nat,
     merge : BOOLEAN, minCu : Nat, chunkCu : Nat, maxMessage : Nat]

KeysOf(fp) == {fp.keys[p] : p \in DOMAIN fp.keys}

\* UserIntent.accesses leaves the program out.
AccountsOf(fp) == {fp.keys[p] : p \in DOMAIN fp.keys \ {1}}

\* UserIntent::new takes the accesses from the instruction, so that an intent
\* writes none but its accounts.
ASSUME PlannerAssumption ==
    /\ Footprints \subseteq Footprint
    /\ \A fp \in Footprints : fp.keys # <<>> /\ fp.writes \subseteq AccountsOf(fp)
    /\ MaxLayer \in Nat
    /\ Options \subseteq OptionRecord

VARIABLES
    opts,
    layer,   \* the intents of the layer; an intent is named by its position
    phase,
    next,    \* the next intent, then the next chunk
    acc,     \* ChunkAccumulator
    chunks,  \* what chunk_layer_with returns
    head,    \* the plan that chunks are being merged into
    plans    \* what is sent

plannerVars == <<opts, layer, phase, next, acc, chunks, head, plans>>

\* BASE_MESSAGE_OVERHEAD and the lengths of three vectors of less than 128
\* entries each.
BaseBytes == 35 + 3
KeyBytes == 32
IndexBytes == 1
ER_SMALL_MESSAGE_BYTES == 400

Lesser(a, b) == IF a <= b THEN a ELSE b

-----------------------------------------------------------------------------
(* An intent alone.                                                        *)

\* message_unique_len and alt_unique_len; a repeated key counts again.
MessageUnique(fp) ==
    IF opts.alt THEN Lesser(Len(fp.keys), opts.reserve) ELSE Len(fp.keys)

AltUnique(fp) == Len(fp.keys) - MessageUnique(fp)

-----------------------------------------------------------------------------
(* Faulty variants.                                                        *)

\* The bytes of the instruction are forgotten.
SelfBytesOfKeys(fp) == KeyBytes * MessageUnique(fp) + IndexBytes * AltUnique(fp)

\* The instruction that is to be added is not counted.
HasRoomLate(a) == Len(a.nodes) <= opts.maxInstrs

\* The access map holds what the first chunk accesses and is not brought up to
\* date.
IndependentOfFirst(p, c) ==
    \A i \in {p.nodes[k] : k \in DOMAIN chunks[p.index].nodes},
       j \in {c.nodes[k] : k \in DOMAIN c.nodes} :
        AccountsOf(layer[i]) \cap AccountsOf(layer[j])
            \cap (layer[i].writes \cup layer[j].writes) = {}

\* The last chunk is forgotten.
AllButLastChunk == chunks

-----------------------------------------------------------------------------
(* The size of an intent alone.                                            *)

SelfBytes(fp) ==
    KeyBytes * MessageUnique(fp) + fp.bytes + IndexBytes * AltUnique(fp)

\* size_if_only_this
AloneBytes(fp) ==
    BaseBytes + opts.slack + SelfBytes(fp)
        + (IF AltUnique(fp) > 0 THEN opts.tableBytes ELSE 0)

FitsInEmpty(fp) ==
    /\ AloneBytes(fp) <= opts.maxBytes
    /\ MessageUnique(fp) <= opts.maxKeys
    /\ AltUnique(fp) <= opts.maxAlt
    /\ 1 <= opts.maxInstrs
    /\ fp.cu <= opts.maxCu

-----------------------------------------------------------------------------
(* The accumulator.                                                        *)

Empty ==
    [nodes |-> <<>>, message |-> {}, alt |-> {}, cu |-> 0,
     bytes |-> BaseBytes + opts.slack]

HasRoom(a) == Len(a.nodes) + 1 <= opts.maxInstrs

\* deltas_for takes all new keys for message keys, or all for keys of a
\* lookup table, as the message stands before the first of them.
CanAdd(a, fp) ==
    LET new == Cardinality({p \in DOMAIN fp.keys :
                                fp.keys[p] \notin a.message \cup a.alt})
        full == opts.alt /\ Cardinality(a.message) >= opts.reserve
        newAlt == IF full THEN new ELSE 0
        tables == IF a.alt = {} /\ newAlt > 0 THEN opts.tableBytes ELSE 0
    IN  /\ a.bytes + SelfBytes(fp) + tables <= opts.maxBytes
        /\ Cardinality(a.message) + new - newAlt <= opts.maxKeys
        /\ Cardinality(a.alt) + newAlt <= opts.maxAlt
        /\ HasRoom(a)
        /\ a.cu + fp.cu <= opts.maxCu

\* The new keys that go into the message, in the order of the instruction,
\* while there is room.
Kept(a, fp) ==
    LET new == KeysOf(fp) \ (a.message \cup a.alt)
        first(k) == CHOOSE p \in DOMAIN fp.keys :
                        /\ fp.keys[p] = k
                        /\ \A q \in DOMAIN fp.keys : fp.keys[q] = k => p <= q
        earlier(k) == {j \in new : first(j) < first(k)}
    IN  {k \in new : opts.alt =>
            Cardinality(a.message) + Cardinality(earlier(k)) < opts.reserve}

\* add: the keys are in before deltas_for is asked for the bytes, so that it
\* finds none new and never counts the tables.
Added(a, i) ==
    LET fp == layer[i]
        kept == Kept(a, fp)
    IN  [nodes |-> Append(a.nodes, i),
         message |-> a.message \cup kept,
         alt |-> a.alt \cup (KeysOf(fp) \ (a.message \cup kept)),
         cu |-> a.cu + fp.cu,
         bytes |-> a.bytes + SelfBytes(fp)]

Planned(a) == [nodes |-> a.nodes, cu |-> a.cu, bytes |-> a.bytes]

-----------------------------------------------------------------------------
(* Initial states.                                                         *)

\* Dag never puts two writers of an account into one layer.
NoTwoWriters(l) ==
    \A i, j \in DOMAIN l : i # j => l[i].writes \cap l[j].writes = {}

NoPlan == [index |-> 0, nodes |-> <<>>, cu |-> 0, bytes |-> 0, merged |-> <<>>]

PlannerInit ==
    /\ opts \in Options
    /\ \E n \in 1..MaxLayer : layer \in [1..n -> Footprints]
    /\ NoTwoWriters(layer)
    /\ phase = "pack"
    /\ next = 1
    /\ acc = Empty
    /\ chunks = <<>>
    /\ head = NoPlan
    /\ plans = <<>>

-----------------------------------------------------------------------------
(* chunk_layer_with.                                                       *)

Packing == phase = "pack" /\ next <= Len(layer)

\* The layer, and with it the run, is given up.
TooLarge ==
    /\ Packing /\ ~ FitsInEmpty(layer[next])
    /\ phase' = "failed"
    /\ UNCHANGED <<opts, layer, next, acc, chunks, head, plans>>

\* Faulty: the test for an empty accumulator is dropped.
NeedsSplitWhenEmpty(a, fp) == ~ CanAdd(a, fp)

\* Faulty: a negation is dropped.
NeedsSplitInverted(a, fp) == CanAdd(a, fp) /\ a.nodes # <<>>

NeedsSplit(a, fp) == ~ CanAdd(a, fp) /\ a.nodes # <<>>

AddToChunk ==
    /\ Packing /\ FitsInEmpty(layer[next])
    /\ ~ NeedsSplit(acc, layer[next])
    /\ acc' = Added(acc, next)
    /\ next' = next + 1
    /\ UNCHANGED <<opts, layer, phase, chunks, head, plans>>

\* take_planned_chunk and reset.
StartChunk ==
    /\ Packing /\ FitsInEmpty(layer[next])
    /\ NeedsSplit(acc, layer[next])
    /\ chunks' = Append(chunks, Planned(acc))
    /\ acc' = Added(Empty, next)
    /\ next' = next + 1
    /\ UNCHANGED <<opts, layer, phase, head, plans>>

AllChunks == IF acc.nodes = <<>> THEN chunks ELSE Append(chunks, Planned(acc))

\* A ChunkPlan that stands for chunk i alone.
PlanOf(list, i) ==
    [index |-> i, nodes |-> list[i].nodes, cu |-> list[i].cu,
     bytes |-> list[i].bytes, merged |-> <<>>]

\* The layer is sent as it is, or is merged first.
FinishPacking ==
    /\ phase = "pack" /\ next = Len(layer) + 1
    /\ chunks' = AllChunks
    /\ IF opts.merge /\ AllChunks # <<>>
       THEN /\ phase' = "merge"
            /\ head' = PlanOf(AllChunks, 1)
            /\ next' = 2
            /\ UNCHANGED plans
       ELSE /\ phase' = "done"
            /\ plans' = [i \in DOMAIN AllChunks |-> PlanOf(AllChunks, i)]
            /\ UNCHANGED <<head, next>>
    /\ acc' = Empty
    /\ UNCHANGED <<opts, layer>>

-----------------------------------------------------------------------------
(* merge_small_chunk_plans.                                                *)

Small(c) == c.cu < opts.minCu /\ c.bytes <= ER_SMALL_MESSAGE_BYTES

SameActor(p, c) == layer[p.nodes[1]].actor = layer[c.nodes[1]].actor

\* can_merge_intents: none of the two accesses what the other writes.
Independent(p, c) ==
    \A i \in {p.nodes[k] : k \in DOMAIN p.nodes},
       j \in {c.nodes[k] : k \in DOMAIN c.nodes} :
        AccountsOf(layer[i]) \cap AccountsOf(layer[j])
            \cap (layer[i].writes \cup layer[j].writes) = {}

FitsMerged(p, c) ==
    p.cu + c.cu <= opts.chunkCu /\ p.bytes + c.bytes <= opts.maxMessage

\* Whether the head is small is asked of its first chunk only.
Mergeable(p, c) ==
    /\ Small(chunks[p.index]) /\ Small(c)
    /\ SameActor(p, c) /\ Independent(p, c) /\ FitsMerged(p, c)

MergeNext ==
    /\ phase = "merge" /\ next <= Len(chunks)
    /\ Mergeable(head, chunks[next])
    /\ head' = [head EXCEPT !.nodes = @ \o chunks[next].nodes,
                            !.cu = @ + chunks[next].cu,
                            !.bytes = @ + chunks[next].bytes,
                            !.merged = Append(@, next)]
    /\ next' = next + 1
    /\ UNCHANGED <<opts, layer, phase, acc, chunks, plans>>

CloseHead ==
    /\ phase = "merge"
    /\ next <= Len(chunks) => ~ Mergeable(head, chunks[next])
    /\ plans' = Append(plans, head)
    /\ IF next <= Len(chunks)
       THEN /\ head' = PlanOf(chunks, next)
            /\ next' = next + 1
            /\ UNCHANGED phase
       ELSE phase' = "done" /\ UNCHANGED <<head, next>>
    /\ UNCHANGED <<opts, layer, acc, chunks>>

PlannerTerminated == phase \in {"done", "failed"} /\ UNCHANGED plannerVars

PlannerNext ==
    \/ TooLarge \/ AddToChunk \/ StartChunk \/ FinishPacking
    \/ MergeNext \/ CloseHead
    \/ PlannerTerminated

PlannerSpec == PlannerInit /\ [][PlannerNext]_plannerVars

-----------------------------------------------------------------------------
(* Correctness properties.                                                 *)

NodesOf(c) == {c.nodes[k] : k \in DOMAIN c.nodes}

UnionOfKeys(nodes) == UNION {KeysOf(layer[i]) : i \in nodes}

\* The accumulator and the lists of chunks and plans have their types; no
\* chunk is empty, though the code would send an empty one without complaint.
PlannerTypeOK ==
    /\ opts \in Options
    /\ layer \in Seq(Footprints)
    /\ phase \in {"pack", "merge", "done", "failed"}
    /\ next \in Nat \ {0}
    /\ acc \in [nodes : Seq(Nat), message : SUBSET Keys, alt : SUBSET Keys,
                cu : Nat, bytes : Nat]
    /\ chunks \in Seq([nodes : Seq(Nat) \ {<<>>}, cu : Nat, bytes : Nat])
    /\ head \in [index : Nat, nodes : Seq(Nat), cu : Nat, bytes : Nat,
                 merged : Seq(Nat)]
    /\ plans \in Seq([index : Nat, nodes : Seq(Nat) \ {<<>>}, cu : Nat,
                      bytes : Nat, merged : Seq(Nat)])

\* Whatever is split and merged, every intent of a layer that is sent is in
\* one place of one plan, and the plans keep the order of the layer, within a
\* plan and from one plan to the next.
EveryIntentPlanned ==
    phase = "done" =>
        /\ UNION {NodesOf(plans[p]) : p \in DOMAIN plans} = DOMAIN layer
        /\ \A p, q \in DOMAIN plans :
              \A i \in DOMAIN plans[p].nodes, j \in DOMAIN plans[q].nodes :
                 (p < q \/ (p = q /\ i < j)) => plans[p].nodes[i] < plans[q].nodes[j]

\* The message that holds the intents, each key once.
MessageBytes(nodes) ==
    LET keys == Cardinality(UnionOfKeys(nodes))
        inMessage == IF opts.alt THEN Lesser(keys, opts.reserve) ELSE keys
    IN  BaseBytes + KeyBytes * inMessage + IndexBytes * (keys - inMessage)
          + (IF keys > inMessage THEN opts.tableBytes ELSE 0)
          + MapThenSumSet(LAMBDA i : layer[i].bytes, nodes)

\* What a chunk really comes to, computed from its intents, is within every
\* budget, although deltas_for may misjudge where the keys of an intent go and
\* add never counts the lookup tables: the slack, if as wide as they are, pays
\* for them.  (Keys that deltas_for takes for message keys and add puts into a
\* table are not held to max_alt_keys, which max_message_keys must rule out.)
\* Merged chunks are within what SafetyMargins allows a message: each brought
\* an overhead and a slack, and only one is needed.
BudgetsKept ==
    /\ \A c \in DOMAIN chunks :
          LET nodes == NodesOf(chunks[c])
              keys == Cardinality(UnionOfKeys(nodes))
              inMessage == IF opts.alt THEN Lesser(keys, opts.reserve) ELSE keys
          IN  /\ Cardinality(nodes) <= opts.maxInstrs
              /\ inMessage <= opts.maxKeys
              /\ opts.maxKeys <= opts.reserve + opts.maxAlt
                    => keys - inMessage <= opts.maxAlt
              /\ MapThenSumSet(LAMBDA i : layer[i].cu, nodes) <= opts.maxCu
              /\ opts.tableBytes <= opts.slack => MessageBytes(nodes) <= opts.maxBytes
    /\ \A p \in DOMAIN plans :
          plans[p].merged # <<>> /\ opts.tableBytes <= BaseBytes + 2 * opts.slack
              => MessageBytes(NodesOf(plans[p])) <= opts.maxMessage

\* Chunks of a layer run in no order, and a layer may hold a reader and a
\* writer of one account.  Chunks that are merged, which fixes an order for
\* them, have no such pair across them.
MergedPartsIndependent ==
    \A p \in DOMAIN plans :
        LET parts == {plans[p].index} \cup {plans[p].merged[k] : k \in DOMAIN plans[p].merged}
        IN  \A a, b \in parts : a # b =>
                \A i \in NodesOf(chunks[a]), j \in NodesOf(chunks[b]) :
                    AccountsOf(layer[i]) \cap layer[j].writes = {}

\* The budgets of the command line: a merged chunk may have no more bytes or
\* CU than a planned one, and meets those limits before any other.
RoomyBudget ==
    /\ opts.maxMessage <= opts.maxBytes
    /\ opts.chunkCu <= opts.maxCu
    /\ opts.maxMessage <= KeyBytes * opts.maxKeys
    /\ opts.maxMessage <= KeyBytes * opts.maxInstrs
    /\ opts.alt => opts.maxMessage < KeyBytes * opts.reserve + BaseBytes + opts.slack

\* Packing is as tight as merging could make it: under such budgets two
\* neighbouring chunks that could be merged would have been packed as one, and
\* --er-merge-small-intents merges nothing.
PackingIsTight ==
    RoomyBudget => \A p \in DOMAIN plans : plans[p].merged = <<>>

\* debug_assert!(cur.can_add(fp)) before add: the accumulator that an intent
\* which fits by itself is added to, emptied if need be, can take it.
AssertionHolds ==
    [][(AddToChunk \/ StartChunk) =>
          CanAdd(IF NeedsSplit(acc, layer[next]) THEN Empty ELSE acc, layer[next])]_plannerVars

=============================================================================
