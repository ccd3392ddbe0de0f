------------------------------ MODULE FeeSender -----------------------------
(***************************************************************************)
(* What simulate_build_and_send_with_report (bundler/src/sender.rs) does   *)
(* about fees: a price from the oracle (bundler/src/fee.rs,                *)
(* fee_oracles/recent.rs), a simulation, and a CU limit from the window of *)
(* recent simulations.  The tasks of a layer share the oracle's state and  *)
(* the window; between the critical sections on each of them they          *)
(* interleave.  Prices are in micro-lamports per CU.                       *)
(***************************************************************************)
EXTENDS Integers, Sequences, FiniteSets, FiniteSetsExt

CONSTANTS
    Tasks,
    Quotes,      \* what the percentile of recent fees may be
    Consumed,    \* the units that a simulation may report
    Slack,       \* added to the units for safety
    Percent,     \* added too, in percent of the units
    WindowCap,   \* CuStats.cap
    FeeOptions   \* the command lines to consider

\* The recent-fees oracle or the basic one; max_cu_limit, which fits an u32;
\* the bounds of the price, which nobody compares with each other; and the
\* hysteresis, in bps.
FeeOptionRecord ==
    [recent : BOOLEAN, maxCu : Nat, minPrice : Nat, maxPrice : Nat, hysteresis : Nat]

\* What is asked of the constants; ChunkAttempt assumes it.
FeeParameters ==
    /\ Quotes \subseteq Nat /\ Consumed \subseteq Nat
    /\ Slack \in Nat /\ Percent \in Nat /\ WindowCap \in Nat \ {0}
    /\ FeeOptions \subseteq FeeOptionRecord

VARIABLES
    feeOpts,
    window,     \* CuStats.window
    ema,        \* OracleState.ema_price, a negative number for None
    lastOutput, \* OracleState.last_output, the same
    fee         \* where each task is, and its plan

feeVars == <<feeOpts, window, ema, lastOutput, fee>>

None == -1

FeeIdle == [pc |-> "idle", quote |-> 0, price |-> 0, used |-> 0, limit |-> 0]

FeeInit ==
    /\ feeOpts \in FeeOptions
    /\ window = <<>>
    /\ ema = None
    /\ lastOutput = None
    /\ fee = [t \in Tasks |-> FeeIdle]

Lower(a, b) == IF a <= b THEN a ELSE b
Higher(a, b) == IF a >= b THEN a ELSE b

-----------------------------------------------------------------------------
(* Faulty variants.                                                        *)

\* Nothing is dropped from a full window.
RecordedAll(samples, used) == Append(samples, used)

\* The task's own simulation is expected to be in the window.
TargetOfWindow(t, p95) == p95

\* The change is measured against the smoothed price.
KeepsPriceOfEma(candidate) ==
    lastOutput # None /\ Higher(ema, candidate) > 0
        /\ ((Higher(ema, candidate) - Lower(ema, candidate)) * 10000)
              \div Higher(ema, candidate) < feeOpts.hysteresis

-----------------------------------------------------------------------------

\* FeeOracle::clamp, of the price.
Clamp(price) == Lower(Higher(price, feeOpts.minPrice), feeOpts.maxPrice)

InvertedBounds == feeOpts.minPrice > feeOpts.maxPrice

\* CuStats::p95, for the samples in order: the one at the rank that 95 percent
\* of them come to, rounded up.
P95(samples) ==
    LET rank == Higher(1, (Len(samples) * 95 + 99) \div 100)
        atMost(v) == {i \in DOMAIN samples : samples[i] <= v}
    IN  Min({v \in {samples[i] : i \in DOMAIN samples} : Cardinality(atMost(v)) >= rank})

\* CuStats::record
Recorded(samples, used) ==
    Append(IF Len(samples) = WindowCap THEN Tail(samples) ELSE samples, used)

\* The p95 of the window may be of other chunks.
Target(t, p95) == Higher(p95, fee[t].used)

\* apply_safety_with_cap
WithSafety(cu) == Lower(cu + Slack + (cu * Percent) \div 100, feeOpts.maxCu)

Put(t, state) == fee' = [fee EXCEPT ![t] = state]

-----------------------------------------------------------------------------
(* The steps of a task.                                                    *)

\* The basic oracle answers with its floor, the other asks for the recent fees
\* first.
Suggest(t) ==
    /\ fee[t].pc = "idle"
    /\ IF feeOpts.recent
       THEN Put(t, [FeeIdle EXCEPT !.pc = "fetch"])
       ELSE Put(t, [FeeIdle EXCEPT !.pc = "simulate", !.price = Clamp(feeOpts.minPrice)])
    /\ UNCHANGED <<feeOpts, window, ema, lastOutput>>

\* f64::clamp and u64::clamp panic, the former with the oracle's mutex held;
\* what it leaves in the poisoned state nobody reads.
PanicOnBounds(t) ==
    /\ fee[t].pc = "fetch" /\ InvertedBounds
    /\ Put(t, [fee[t] EXCEPT !.pc = "panicked"])
    /\ UNCHANGED <<feeOpts, window, ema, lastOutput>>

\* get_recent_prioritization_fees fails or has nothing to say.
FetchNoFees(t) ==
    /\ fee[t].pc = "fetch" /\ ~ InvertedBounds
    /\ Put(t, [fee[t] EXCEPT !.pc = "simulate", !.price = feeOpts.minPrice])
    /\ UNCHANGED <<feeOpts, window, ema, lastOutput>>

FetchFees(t) ==
    /\ fee[t].pc = "fetch" /\ ~ InvertedBounds
    /\ \E q \in Quotes : Put(t, [fee[t] EXCEPT !.pc = "price", !.quote = q])
    /\ UNCHANGED <<feeOpts, window, ema, lastOutput>>

\* A moving average lies between what it was and what it is told.
Averages(quote) ==
    IF ema = None THEN {quote} ELSE Lower(ema, quote)..Higher(ema, quote)

\* A change that is small, in bps of the greater price, is not followed.
KeepsPrice(candidate) ==
    /\ lastOutput # None
    /\ LET bigger == Higher(candidate, lastOutput)
           smaller == Lower(candidate, lastOutput)
           bps == IF bigger = 0 THEN 0 ELSE ((bigger - smaller) * 10000) \div bigger
       IN  bps < feeOpts.hysteresis

\* pick_price_with_ema, under the lock on the oracle's state.
PickPrice(t) ==
    /\ fee[t].pc = "price"
    /\ \E e \in Averages(fee[t].quote) :
          LET candidate == Clamp(e)
              price == IF KeepsPrice(candidate) THEN lastOutput ELSE candidate
          IN  /\ ema' = e
              /\ lastOutput' = price
              /\ Put(t, [fee[t] EXCEPT !.pc = "simulate", !.price = price])
    /\ UNCHANGED <<feeOpts, window>>

\* The node simulates with the oracle's limit and reports no more than that.
\* (A report without units, for which the code puts 200000, is left out.)
Simulate(t) ==
    /\ fee[t].pc = "simulate"
    /\ \E used \in {u \in Consumed : u <= feeOpts.maxCu} :
          Put(t, [fee[t] EXCEPT !.pc = "record", !.used = used])
    /\ UNCHANGED <<feeOpts, window, ema, lastOutput>>

\* A build or a simulation that fails.
SimulateFails(t) ==
    /\ fee[t].pc = "simulate"
    /\ Put(t, [fee[t] EXCEPT !.pc = "failed"])
    /\ UNCHANGED <<feeOpts, window, ema, lastOutput>>

Record(t) ==
    /\ fee[t].pc = "record"
    /\ window' = Recorded(window, fee[t].used)
    /\ Put(t, [fee[t] EXCEPT !.pc = "tighten"])
    /\ UNCHANGED <<feeOpts, ema, lastOutput>>

\* The window may have moved on, or start_scope may have emptied it.
Tighten(t) ==
    /\ fee[t].pc = "tighten"
    /\ LET p95 == IF window = <<>> THEN fee[t].used ELSE P95(window)
       IN  Put(t, [fee[t] EXCEPT !.pc = "ready", !.limit = WithSafety(Target(t, p95)),
                                 !.price = Clamp(@)])
    /\ UNCHANGED <<feeOpts, window, ema, lastOutput>>

FeeStep(t) ==
    \/ Suggest(t) \/ PanicOnBounds(t) \/ FetchNoFees(t) \/ FetchFees(t)
    \/ PickPrice(t) \/ Simulate(t) \/ SimulateFails(t) \/ Record(t) \/ Tighten(t)

-----------------------------------------------------------------------------
(* Correctness properties.                                                 *)

FeeTypeOK ==
    /\ feeOpts \in FeeOptions
    /\ window \in Seq(Consumed) /\ Len(window) <= WindowCap
    /\ ema \in Nat \cup {None}
    /\ lastOutput \in Nat \cup {None}
    /\ fee \in [Tasks -> [pc : {"idle", "fetch", "price", "simulate", "record",
                                "tighten", "ready", "failed", "panicked"},
                          quote : Nat, price : Nat, used : Nat, limit : Nat]]

\* Whatever other tasks put into the window between a task's two looks at it,
\* the limit that the task sends covers what its simulation used.  With the
\* safety added it stays within the limit that the oracle allows.
LimitCoversUse ==
    \A t \in Tasks : fee[t].pc = "ready" =>
        fee[t].used <= fee[t].limit /\ fee[t].limit <= feeOpts.maxCu

\* hysteresis_bps, "ignore reprices below this threshold": in whatever order
\* tasks report the fees they fetched, the price moves by that much or stays.
PriceHysteresis ==
    [][lastOutput # None /\ lastOutput' # lastOutput =>
          LET bigger == Higher(lastOutput, lastOutput')
              smaller == Lower(lastOutput, lastOutput')
          IN  (bigger - smaller) * 10000 >= feeOpts.hysteresis * bigger]_feeVars

=============================================================================
