----------------------------- MODULE MCPlanning -----------------------------
(***************************************************************************)
(* Model checking of Planning, and with it of Dag and ChunkPlanner.        *)
(***************************************************************************)
EXTENDS Planning

Instr(keys, writes, bytes, cu, actor) ==
    [keys |-> keys, writes |-> writes, bytes |-> bytes, cu |-> cu, actor |-> actor]

\* Key 0 is a program, key 1 the payer.  Readers and writers of the accounts
\* 1 and 2, in small intents of one actor.
TwoAccounts ==
    {Instr(<<0, 1>>, {}, 10, 25, "x"), Instr(<<0, 1>>, {1}, 10, 25, "x"),
     Instr(<<0, 2>>, {2}, 10, 25, "x"),
     Instr(<<0, 1, 2>>, {1, 2}, 11, 25, "x")}

\* Intents that read or write the accounts 1 to 3, one of another actor, one
\* with a repeated key, one with many keys, one with much data, one too large
\* for most budgets.
Mixed ==
    {Instr(<<0, 1>>, {1}, 10, 25, "x"),
     Instr(<<0, 1, 2>>, {2}, 10, 25, "x"),
     Instr(<<0, 2, 3>>, {}, 12, 25, "x"),
     Instr(<<0, 3>>, {3}, 10, 25, "y"),
     Instr(<<0, 4, 1, 4>>, {4}, 14, 60, "x"),
     Instr(<<0, 5, 6, 7, 8>>, {}, 20, 25, "x"),
     Instr(<<0, 5>>, {5}, 500, 25, "x"),
     Instr(<<0, 1, 5, 6, 7, 8>>, {}, 900, 25, "x")}

SomeFootprints == TwoAccounts \cup Mixed

\* CU are in thousands.
Narrow ==
    [maxBytes |-> 1200, slack |-> 64, maxKeys |-> 48, maxInstrs |-> 2, maxCu |-> 100,
     alt |-> FALSE, reserve |-> 32, maxAlt |-> 64, tableBytes |-> 34,
     merge |-> FALSE, minCu |-> 0, chunkCu |-> 1000, maxMessage |-> 1103]

\* Refined as TxBudget asks: 1103 = 1082 - 64 + 21 + 64.
Refined == [Narrow EXCEPT !.maxBytes = 1082, !.maxInstrs = 30, !.maxCu = 1200]

\* Few keys in the message.
WithTables ==
    [Narrow EXCEPT !.maxBytes = 500, !.maxInstrs = 30, !.maxCu = 1200,
                   !.alt = TRUE, !.reserve = 3, !.maxKeys = 4, !.maxAlt = 3]

\* One instruction per chunk, then merged; small, but refined.
Merging ==
    [Narrow EXCEPT !.maxBytes = 539, !.maxInstrs = 1, !.maxCu = 1200,
                   !.merge = TRUE, !.minCu = 50, !.maxMessage = 560]

\* rollup_cli with --enable-alt and --er-merge-small-intents.
CommandLine ==
    [Narrow EXCEPT !.maxBytes = 1456, !.maxInstrs = 60, !.maxCu = 1200,
                   !.alt = TRUE, !.merge = TRUE, !.minCu = 1000]

AllOptions == {Narrow, Refined, WithTables, Merging, CommandLine}

\* Mixed intents of one priority under all options, compared with a baseline;
\* all sorts of graphs under one; and baselines alone.
SomeBatches ==
    [mode : {"compare"}, footprints : [Nodes -> Mixed], priorities : [Nodes -> {0}],
     opts : AllOptions]
    \cup
    [mode : {"er"}, footprints : [Nodes -> TwoAccounts],
     priorities : [Nodes -> Priorities], opts : {Merging}]
    \cup
    [mode : {"baseline"}, footprints : [Nodes -> {f \in Mixed : f.bytes > 20}],
     priorities : [Nodes -> {0}], opts : {Narrow}]

=============================================================================
