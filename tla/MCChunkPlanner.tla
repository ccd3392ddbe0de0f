--------------------------- MODULE MCChunkPlanner ---------------------------
(***************************************************************************)
(* Model checking of ChunkPlanner alone, for one instruction with many     *)
(* accounts.  MCPlanning checks the planner's other properties.            *)
(***************************************************************************)
EXTENDS ChunkPlanner

Intent(keys, writes, bytes, cu, actor) ==
    [keys |-> keys, writes |-> writes, bytes |-> bytes, cu |-> cu, actor |-> actor]

\* rollup_cli with --enable-alt and --er-merge-small-intents; CU are in
\* thousands.
CommandLine ==
    [maxBytes |-> 1456, slack |-> 64, maxKeys |-> 48, maxInstrs |-> 60, maxCu |-> 1200,
     alt |-> TRUE, reserve |-> 32, maxAlt |-> 64, tableBytes |-> 34,
     merge |-> TRUE, minCu |-> 1000, chunkCu |-> 1000, maxMessage |-> 1103]

\* An instruction with a program and 49 accounts.
ManyAccounts == {Intent([k \in 1..50 |-> k], {}, 52, 25, "x"),
                 Intent(<<1, 2>>, {2}, 10, 25, "x")}

FiftyKeys == 1..50

CommandLineOnly == {CommandLine}

=============================================================================
