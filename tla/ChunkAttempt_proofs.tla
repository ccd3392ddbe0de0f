------------------------- MODULE ChunkAttempt_proofs -------------------------
(***************************************************************************)
(* Proofs about ChunkAttempt and the components it is made of, OccCapture, *)
(* AltManager and FeeSender: for any tasks and chunks, any layers,         *)
(* attempts and retries, any lookup tables and any fees.                   *)
(***************************************************************************)
EXTENDS ChunkAttempt, FiniteSetTheorems, WellFoundedInduction, TLAPS

-----------------------------------------------------------------------------
(* The invariant.                                                          *)

\* The fetches that one attempt may make.
Most == IF MaxRetries = 0 THEN 1 ELSE MaxRetries

\* What a capture has seen of its keys, if anything.
Seen == {<<>>} \cup UNION {[S -> 0..MaxSlot] : S \in SUBSET Keys}

\* The types of the task's own state, of the captures, the tables and the fees.
TaskTypes ==
    /\ layer \in 1..Layers
    /\ plan \in [Tasks -> [1..Layers -> Chunks]]
    /\ attempt \in [Tasks -> 1..MaxAttempts]
    /\ outcome \in [Tasks -> {"running", "sent", "failed"}]

\* The locals of a capture, and what the captures share.
CaptureRecord ==
    [pc : {"idle", "latest", "fetch", "backoff", "ok", "failed"},
     targets : SUBSET Keys, attempt : Nat, latest : 0..MaxSlot, seen : Seen,
     error : Occ!Errors \cup {"none"}]

CaptureTypes ==
    /\ fetcher \in {"rpc", "other"} /\ slot \in 0..MaxSlot
    /\ occ \in [Tasks -> CaptureRecord]
    /\ fetches \in [Tasks -> Nat] /\ refused \subseteq Tasks

\* A capture counts its fetches; one that was refused is over, and so is the
\* chunk after it.
CaptureInv(t) ==
    /\ occ[t].seen = <<>> \/ occ[t].seen \in [occ[t].targets -> 0..MaxSlot]
    /\ occ[t].attempt <= Most
    /\ occ[t].pc = "idle" => occ[t].attempt = 0
    /\ occ[t].pc = "backoff" => occ[t].attempt < MaxRetries
    /\ fetches[t] <= attempt[t] * Most
    /\ Running(t) => fetches[t] <= (attempt[t] - 1) * Most + occ[t].attempt
    /\ t \in refused => ~ Running(t) \/ (occ[t].pc = "failed" /\ Occ!Fatal(occ[t].error))

\* What is offloaded of the chunk of t is of the accounts it uses; a resolution
\* is of just that.
TableInv(t) ==
    LET metas == ChunkOf(t).metas
        usage == Alt!UsageOf(metas)
        keys == alt[t].keys
        result == alt[t].result
    IN  /\ keys \subseteq DOMAIN usage
        /\ \A k \in keys : ~ usage[k].signer
        /\ Cardinality(keys) <= MaxAlt
        /\ alt[t].pc = "resolved" =>
              /\ result.offloaded = keys /\ keys \subseteq result.tables
              /\ result.writable = Cardinality({k \in keys : usage[k].writable})
              /\ result.readonly = Cardinality({k \in keys : ~ usage[k].writable})

\* The result is of just the keys of which the cache's key is made.
Filed(key, result) ==
    LET keys == {k \in Keys : \E w \in BOOLEAN : <<k, w>> \in key}
    IN  /\ result.offloaded = keys /\ result.tables = keys
        /\ result.writable = Cardinality({k \in keys : <<k, TRUE>> \in key})
        /\ result.readonly = Cardinality({k \in keys : <<k, TRUE>> \notin key})

\* The synthetic tables in the cache are those of the keys they are filed under.
CacheInv ==
    catalog = <<>> => \A key \in DOMAIN altCache : Filed(key, altCache[key].resolution)

\* No sample of the window is more than a simulation may have used.
WindowInv == \A i \in DOMAIN window : window[i] <= feeOpts.maxCu

\* A simulation used no more than the oracle's limit, nor more than what is sent.
FeeInv(t) ==
    /\ fee[t].used <= feeOpts.maxCu
    /\ fee[t].pc = "record" => fee[t].used \in Consumed
    /\ fee[t].pc = "ready" =>
          fee[t].used <= fee[t].limit /\ fee[t].limit <= feeOpts.maxCu

\* Between its attempts a task holds nothing.
RestInv(t) ==
    ~ Running(t) => occ[t] = Occ!Idle /\ alt[t] = Alt!AltIdle /\ fee[t] = Fees!FeeIdle

\* Tables and fees are for those whose accounts are captured.
StageInv(t) == alt[t].pc # "idle" \/ fee[t].pc # "idle" => occ[t].pc = "ok"

\* All of them.
TaskInv(t) ==
    CaptureInv(t) /\ TableInv(t) /\ FeeInv(t) /\ RestInv(t) /\ StageInv(t)

\* The inductive invariant.
IInv ==
    /\ TaskTypes /\ CaptureTypes /\ Alt!AltTypeOK /\ Fees!FeeTypeOK
    /\ CacheInv /\ WindowInv
    /\ \A t \in Tasks : TaskInv(t)

-----------------------------------------------------------------------------
(* Numbers and finite sets.                                                *)

\* What the assumption says of the constants, one by one.
LEMMA ConstantTypes ==
    /\ Chunks \subseteq Chunk /\ Layers \in Nat \ {0} /\ MaxAttempts \in Nat \ {0}
    /\ PerScope \in BOOLEAN
    /\ MaxSlotDrift \in Nat /\ MaxRetries \in Nat /\ MaxSlot \in Nat
    /\ Payer \in Keys /\ IsFiniteSet(Keys) /\ MaxAlt \in Nat \ {0}
    /\ Reserve \in Nat /\ IndexByte \in Nat /\ Ttl \in Nat
    /\ Catalogs \subseteq Seq(SUBSET Keys)
    /\ Quotes \subseteq Nat /\ Consumed \subseteq Nat
    /\ Slack \in Nat /\ Percent \in Nat /\ WindowCap \in Nat \ {0}
    /\ FeeOptions \subseteq Fees!FeeOptionRecord
<1>1. Alt!IsFiniteSet(Keys) <=> IsFiniteSet(Keys)
  BY DEF Alt!IsFiniteSet, IsFiniteSet
<1>2. QED
  BY <1>1, AttemptAssumption
     DEF Occ!CaptureParameters, Alt!AltParameters, Fees!FeeParameters

\* The components count with the same cardinality.
LEMMA SameCardinality ==
    \A S : Fees!Cardinality(S) = Cardinality(S) /\ Alt!Cardinality(S) = Cardinality(S)
BY Zenon DEF Fees!Cardinality, Alt!Cardinality, Cardinality

\* A set of naturals that is not empty has a least element.
LEMMA LeastNatural ==
    ASSUME NEW S \in SUBSET Nat, S # {}
    PROVE  \E m \in S : \A k \in S : m <= k
<1> DEFINE Less == OpToRel(<, Nat)
<1>1. Less = {ss \in Nat \X Nat : ss[1] < ss[2]}
  BY DEF OpToRel
<1> HIDE DEF Less
<1>2. IsWellFoundedOn(Less, Nat)
  BY NatLessThanWellFounded DEF Less
<1>3. PICK m \in S : \A k \in S : ~ (<<k, m>> \in Less)
  BY <1>2, WFMin
<1>4. ASSUME NEW k \in S
      PROVE  m <= k
  <2>1. k \in Nat /\ m \in Nat /\ <<k, m>> \in Nat \X Nat
    OBVIOUS
  <2>2. ~ (k < m)
    BY <1>1, <1>3, <2>1
  <2>3. QED
    BY <2>1, <2>2
<1>5. QED
  BY <1>4

\* One with a bound has a greatest.
LEMMA GreatestNatural ==
    ASSUME NEW S \in SUBSET Nat, S # {}, NEW b \in Nat, \A k \in S : k <= b
    PROVE  \E m \in S : \A k \in S : k <= m
<1> DEFINE U == {m \in Nat : \A k \in S : k <= m}
<1>1. b \in U
  OBVIOUS
<1>2. PICK m \in U : \A k \in U : m <= k
  BY <1>1, LeastNatural
<1>3. m \in S
  <2> SUFFICES ASSUME m \notin S
               PROVE  FALSE
    OBVIOUS
  <2>1. \A k \in S : k < m
    BY <1>2
  <2>2. PICK k \in S : TRUE
    OBVIOUS
  <2>3. m - 1 \in Nat
    BY <2>1, <2>2
  <2>4. \A l \in S : l <= m - 1
    BY <2>1
  <2>5. m - 1 \in U
    BY <2>3, <2>4
  <2>6. QED
    BY <1>2, <2>5
<1>4. QED
  BY <1>2, <1>3

-----------------------------------------------------------------------------
(* Fees.                                                                   *)

\* The percentile of a window that is not empty is one of its samples: the rank
\* is at most the number of samples, so that the greatest of them qualifies.
LEMMA PercentileIsSample ==
    ASSUME NEW samples \in Seq(Consumed), samples # <<>>, NEW b \in Nat,
           \A i \in DOMAIN samples : samples[i] <= b
    PROVE  Fees!P95(samples) \in Nat
<1> DEFINE values == {samples[i] : i \in DOMAIN samples}
           rank == Fees!Higher(1, (Len(samples) * 95 + 99) \div 100)
           atMost(v) == {i \in DOMAIN samples : samples[i] <= v}
           high == {v \in values : Fees!Cardinality(atMost(v)) >= rank}
<1>1. /\ DOMAIN samples = 1..Len(samples) /\ Len(samples) \in Nat
      /\ Len(samples) >= 1 /\ values \in SUBSET Nat /\ samples[1] \in values
  <2>1. DOMAIN samples = 1..Len(samples) /\ Len(samples) \in Nat /\ Len(samples) >= 1
    OBVIOUS
  <2>2. \A i \in 1..Len(samples) : samples[i] \in Nat
    <3>1. \A i \in 1..Len(samples) : samples[i] \in Consumed
      BY <2>1
    <3>2. Consumed \subseteq Nat
      BY ConstantTypes
    <3>3. QED
      BY <3>1, <3>2
  <2>3. QED
    BY <2>1, <2>2
<1>2. rank <= Len(samples)
  BY <1>1 DEF Fees!Higher
<1>3. PICK m \in values : \A v \in values : v <= m
  <2>1. values \in SUBSET Nat /\ values # {} /\ \A v \in values : v <= b
    BY <1>1
  <2> HIDE DEF values
  <2>2. QED
    BY <2>1, GreatestNatural
<1>4. atMost(m) = 1..Len(samples)
  BY <1>1, <1>3
<1>5. Fees!Cardinality(atMost(m)) = Len(samples)
  <2>1. \A n \in Nat : n >= 1 => Cardinality(1..n) = n
    BY FS_Interval
  <2>2. Cardinality(1..Len(samples)) = Len(samples)
    BY <1>1, <2>1
  <2>3. Fees!Cardinality(1..Len(samples)) = Cardinality(1..Len(samples))
    BY SameCardinality
  <2> HIDE DEF atMost
  <2>4. QED
    BY <1>4, <2>2, <2>3
<1>6. m \in high
  BY <1>2, <1>3, <1>5
<1>7. \E v \in high : \A w \in high : v <= w
  BY <1>1, <1>6, LeastNatural
<1>8. Fees!P95(samples) = Fees!Min(high)
  BY DEF Fees!P95
<1>9. Fees!Min(high) \in high
  BY <1>7 DEF Fees!Min
<1>10. QED
  BY <1>1, <1>8, <1>9

\* Clamping and adding safety give numbers; the safety never takes away from
\* what the simulation used, unless the oracle's limit does.
LEMMA FeeNumbers ==
    ASSUME Fees!FeeTypeOK
    PROVE  /\ feeOpts.minPrice \in Nat /\ feeOpts.maxPrice \in Nat
           /\ feeOpts.maxCu \in Nat /\ feeOpts.hysteresis \in Nat
           /\ \A price \in Nat : Fees!Clamp(price) \in Nat
           /\ \A cu \in Nat :
                 /\ Fees!WithSafety(cu) \in Nat
                 /\ Fees!WithSafety(cu) <= feeOpts.maxCu
                 /\ cu <= feeOpts.maxCu => cu <= Fees!WithSafety(cu)
<1>1. /\ feeOpts.minPrice \in Nat /\ feeOpts.maxPrice \in Nat
      /\ feeOpts.maxCu \in Nat /\ feeOpts.hysteresis \in Nat
  BY ConstantTypes DEF Fees!FeeTypeOK, Fees!FeeOptionRecord
<1>2. ASSUME NEW price \in Nat
      PROVE  Fees!Clamp(price) \in Nat
  BY <1>1 DEF Fees!Clamp, Fees!Lower, Fees!Higher
<1>3. ASSUME NEW cu \in Nat
      PROVE  /\ Fees!WithSafety(cu) \in Nat
             /\ Fees!WithSafety(cu) <= feeOpts.maxCu
             /\ cu <= feeOpts.maxCu => cu <= Fees!WithSafety(cu)
  <2>1. cu * Percent \in Nat /\ Slack \in Nat
    BY ConstantTypes
  <2>2. (cu * Percent) \div 100 \in Nat
    BY <2>1
  <2>3. QED
    BY <1>1, <2>1, <2>2 DEF Fees!WithSafety, Fees!Lower
<1>4. QED
  BY <1>1, <1>2, <1>3

\* The condition under which hysteresis lets a price go, without the division.
LEMMA ChangeInBps ==
    ASSUME NEW change \in Nat, NEW bigger \in Nat \ {0}, NEW h \in Nat,
           ~ ((change * 10000) \div bigger < h)
    PROVE  change * 10000 >= h * bigger
<1> DEFINE x == change * 10000
           q == x \div bigger
<1>1. x \in Nat /\ q \in Nat /\ q >= h
  OBVIOUS
<1>2. x >= q * bigger
  OBVIOUS
<1> HIDE DEF x, q
<1>3. q * bigger >= h * bigger
  BY <1>1
<1>4. x >= h * bigger
  BY <1>1, <1>2, <1>3
<1>5. QED
  BY <1>4 DEF x

\* What hysteresis asks of a step.
PriceMove ==
    lastOutput # Fees!None /\ lastOutput' # lastOutput =>
        LET bigger == Fees!Higher(lastOutput, lastOutput')
            smaller == Fees!Lower(lastOutput, lastOutput')
        IN  (bigger - smaller) * 10000 >= feeOpts.hysteresis * bigger

\* The fee step of t changes no other task's.
FeeFrame(t) ==
    /\ feeOpts' = feeOpts
    /\ \A u \in Tasks \ {t} : fee'[u] = fee[u]

\* The price of the recent-fees oracle moves by the hysteresis or not at all.
LEMMA PickPriceStep ==
    ASSUME Fees!FeeTypeOK, WindowInv, NEW t \in Tasks, FeeInv(t), Fees!PickPrice(t)
    PROVE  Fees!FeeTypeOK' /\ WindowInv' /\ FeeInv(t)' /\ FeeFrame(t) /\ PriceMove
<1>1. PICK e \in Fees!Averages(fee[t].quote) :
        LET candidate == Fees!Clamp(e)
            price == IF Fees!KeepsPrice(candidate) THEN lastOutput ELSE candidate
        IN  /\ ema' = e
            /\ lastOutput' = price
            /\ Fees!Put(t, [fee[t] EXCEPT !.pc = "simulate", !.price = price])
  BY DEF Fees!PickPrice
<1> DEFINE candidate == Fees!Clamp(e)
           price == IF Fees!KeepsPrice(candidate) THEN lastOutput ELSE candidate
<1>2. e \in Nat /\ candidate \in Nat
  <2>1. fee[t].quote \in Nat /\ ema \in Nat \cup {-1}
    BY DEF Fees!FeeTypeOK, Fees!None
  <2>2. e \in Nat
    BY <2>1 DEF Fees!Averages, Fees!None, Fees!Lower, Fees!Higher
  <2>3. QED
    BY <2>2, FeeNumbers
<1>3. Fees!KeepsPrice(candidate) => lastOutput \in Nat
  BY DEF Fees!KeepsPrice, Fees!FeeTypeOK
<1>4. /\ ema' = e /\ lastOutput' = price /\ price \in Nat
      /\ fee' = [fee EXCEPT ![t] = [fee[t] EXCEPT !.pc = "simulate", !.price = price]]
      /\ feeOpts' = feeOpts /\ window' = window
  BY <1>1, <1>2, <1>3 DEF Fees!Put, Fees!PickPrice
<1>5. PriceMove
  <2> SUFFICES ASSUME lastOutput # Fees!None, lastOutput' # lastOutput
               PROVE  (Fees!Higher(lastOutput, lastOutput')
                         - Fees!Lower(lastOutput, lastOutput')) * 10000
                      >= feeOpts.hysteresis * Fees!Higher(lastOutput, lastOutput')
    BY DEF PriceMove
  <2>1. lastOutput \in Nat /\ lastOutput' = candidate /\ ~ Fees!KeepsPrice(candidate)
    BY <1>4 DEF Fees!FeeTypeOK
  <2> DEFINE bigger == Fees!Higher(candidate, lastOutput)
             smaller == Fees!Lower(candidate, lastOutput)
  <2>2. /\ bigger \in Nat \ {0} /\ smaller \in Nat /\ bigger - smaller \in Nat
        /\ bigger = Fees!Higher(lastOutput, candidate)
        /\ smaller = Fees!Lower(lastOutput, candidate)
    BY <1>2, <2>1 DEF Fees!Higher, Fees!Lower
  <2>3. ~ (((bigger - smaller) * 10000) \div bigger < feeOpts.hysteresis)
    BY <2>1, <2>2 DEF Fees!KeepsPrice
  <2>4. (bigger - smaller) * 10000 >= feeOpts.hysteresis * bigger
    <3> HIDE DEF bigger, smaller
    <3>1. QED
      BY <2>2, <2>3, FeeNumbers, ChangeInBps
  <2>5. QED
    BY <2>1, <2>2, <2>4
<1> HIDE DEF price
<1>6. Fees!FeeTypeOK'
  BY <1>2, <1>4 DEF Fees!FeeTypeOK
<1>7. WindowInv' /\ FeeInv(t)' /\ FeeFrame(t)
  BY <1>4 DEF Fees!FeeTypeOK, WindowInv, FeeInv, FeeFrame
<1>8. QED
  BY <1>5, <1>6, <1>7

\* A recorded sample pushes the oldest out of a full window.
LEMMA RecordStep ==
    ASSUME Fees!FeeTypeOK, WindowInv, NEW t \in Tasks, FeeInv(t), Fees!Record(t)
    PROVE  Fees!FeeTypeOK' /\ WindowInv' /\ FeeInv(t)' /\ FeeFrame(t) /\ PriceMove
<1> DEFINE used == fee[t].used
           kept == IF Len(window) = WindowCap THEN Tail(window) ELSE window
<1>1. /\ window' = Append(kept, used)
      /\ fee' = [fee EXCEPT ![t] = [fee[t] EXCEPT !.pc = "tighten"]]
      /\ UNCHANGED <<feeOpts, ema, lastOutput>>
  BY DEF Fees!Record, Fees!Recorded, Fees!Put
<1>2. used \in Consumed /\ used <= feeOpts.maxCu
  BY DEF Fees!Record, FeeInv
<1>3. /\ kept \in Seq(Consumed) /\ Len(kept) < WindowCap
      /\ \A i \in DOMAIN kept : kept[i] <= feeOpts.maxCu
  <2>1. /\ window \in Seq(Consumed) /\ Len(window) \in Nat /\ Len(window) <= WindowCap
        /\ WindowCap \in Nat \ {0}
        /\ \A i \in 1..Len(window) : window[i] <= feeOpts.maxCu
    BY ConstantTypes DEF Fees!FeeTypeOK, WindowInv
  <2>2. CASE Len(window) = WindowCap
    <3>1. window # <<>>
      BY <2>1, <2>2
    <3>2. /\ Tail(window) \in Seq(Consumed) /\ Len(Tail(window)) = Len(window) - 1
          /\ \A i \in 1..Len(Tail(window)) : Tail(window)[i] = window[i + 1]
      BY <2>1, <3>1
    <3>3. \A i \in 1..Len(Tail(window)) : i + 1 \in 1..Len(window)
      BY <2>1, <3>2
    <3>4. QED
      BY <2>1, <2>2, <3>2, <3>3
  <2>3. CASE Len(window) # WindowCap
    BY <2>1, <2>3
  <2>4. QED
    BY <2>2, <2>3
<1> HIDE DEF used, kept
<1>4. window' \in Seq(Consumed) /\ Len(window') <= WindowCap
  BY <1>1, <1>2, <1>3, ConstantTypes
<1>5. \A i \in DOMAIN window' : window'[i] <= feeOpts.maxCu
  BY <1>1, <1>2, <1>3
<1>6. Fees!FeeTypeOK'
  BY <1>1, <1>4 DEF Fees!FeeTypeOK
<1>7. WindowInv' /\ FeeInv(t)' /\ FeeFrame(t)
  BY <1>1, <1>5 DEF Fees!FeeTypeOK, WindowInv, FeeInv, FeeFrame
<1>8. PriceMove
  BY <1>1 DEF PriceMove
<1>9. QED
  BY <1>6, <1>7, <1>8

\* The limit that is sent covers the simulation, whatever the window says.
LEMMA TightenStep ==
    ASSUME Fees!FeeTypeOK, WindowInv, NEW t \in Tasks, FeeInv(t), Fees!Tighten(t)
    PROVE  Fees!FeeTypeOK' /\ WindowInv' /\ FeeInv(t)' /\ FeeFrame(t) /\ PriceMove
<1> DEFINE used == fee[t].used
           p95 == IF window = <<>> THEN used ELSE Fees!P95(window)
           target == Fees!Target(t, p95)
           limit == Fees!WithSafety(target)
           price == Fees!Clamp(fee[t].price)
<1>1. /\ fee' = [fee EXCEPT ![t] = [fee[t] EXCEPT !.pc = "ready", !.limit = limit,
                                                !.price = price]]
      /\ UNCHANGED <<feeOpts, window, ema, lastOutput>>
  BY DEF Fees!Tighten, Fees!Put
<1>2. used \in Nat /\ used <= feeOpts.maxCu /\ price \in Nat
  BY FeeNumbers DEF Fees!FeeTypeOK, FeeInv
<1>3. p95 \in Nat
  <2>1. window \in Seq(Consumed) /\ feeOpts.maxCu \in Nat
    BY FeeNumbers DEF Fees!FeeTypeOK
  <2>2. QED
    BY <1>2, <2>1, PercentileIsSample DEF WindowInv
<1> HIDE DEF p95, price
<1>4. target \in Nat /\ used <= target
  BY <1>2, <1>3 DEF Fees!Target, Fees!Higher
<1>5. limit \in Nat /\ limit <= feeOpts.maxCu /\ used <= limit
  <2>1. limit \in Nat /\ limit <= feeOpts.maxCu
    BY <1>4, FeeNumbers
  <2>2. CASE target <= feeOpts.maxCu
    BY <1>2, <1>4, <2>1, <2>2, FeeNumbers
  <2>3. CASE ~ (target <= feeOpts.maxCu)
    <3>1. (target * Percent) \div 100 \in Nat /\ Slack \in Nat
      BY <1>4, ConstantTypes
    <3>2. target + Slack + (target * Percent) \div 100 > feeOpts.maxCu
      BY <1>4, <2>3, <3>1, FeeNumbers
    <3>3. limit = feeOpts.maxCu
      BY <1>4, <3>1, <3>2, FeeNumbers DEF Fees!WithSafety, Fees!Lower
    <3>4. QED
      BY <1>2, <2>1, <3>3
  <2>4. QED
    BY <2>2, <2>3
<1> HIDE DEF target, limit
<1>6. Fees!FeeTypeOK'
  BY <1>1, <1>2, <1>5 DEF Fees!FeeTypeOK
<1>7. WindowInv' /\ FeeInv(t)' /\ FeeFrame(t)
  BY <1>1, <1>5 DEF Fees!FeeTypeOK, WindowInv, FeeInv, FeeFrame
<1>8. PriceMove
  BY <1>1 DEF PriceMove
<1>9. QED
  BY <1>6, <1>7, <1>8

\* A fee step of a task.
LEMMA FeeStep ==
    ASSUME Fees!FeeTypeOK, WindowInv, NEW t \in Tasks, FeeInv(t), Fees!FeeStep(t)
    PROVE  Fees!FeeTypeOK' /\ WindowInv' /\ FeeInv(t)' /\ FeeFrame(t) /\ PriceMove
<1>1. CASE Fees!PickPrice(t)
  BY <1>1, PickPriceStep
<1>2. CASE Fees!Record(t)
  BY <1>2, RecordStep
<1>3. CASE Fees!Tighten(t)
  BY <1>3, TightenStep
<1>4. ASSUME NEW s \in [pc : {"fetch", "price", "simulate", "record", "failed", "panicked"},
                        quote : Nat, price : Nat, used : Nat, limit : Nat],
             Fees!Put(t, s), s.used <= feeOpts.maxCu,
             s.pc = "record" => s.used \in Consumed,
             UNCHANGED <<feeOpts, window, ema, lastOutput>>
      PROVE  Fees!FeeTypeOK' /\ WindowInv' /\ FeeInv(t)' /\ FeeFrame(t) /\ PriceMove
  <2>1. Fees!FeeTypeOK'
    BY <1>4 DEF Fees!FeeTypeOK, Fees!Put
  <2>2. WindowInv' /\ FeeInv(t)' /\ FeeFrame(t)
    BY <1>4 DEF Fees!FeeTypeOK, Fees!Put, WindowInv, FeeInv, FeeFrame
  <2>3. PriceMove
    BY <1>4 DEF PriceMove
  <2>4. QED
    BY <2>1, <2>2, <2>3
<1> DEFINE Case(s) ==
      /\ s \in [pc : {"fetch", "price", "simulate", "record", "failed", "panicked"},
                quote : Nat, price : Nat, used : Nat, limit : Nat]
      /\ Fees!Put(t, s) /\ s.used <= feeOpts.maxCu
      /\ s.pc = "record" => s.used \in Consumed
      /\ UNCHANGED <<feeOpts, window, ema, lastOutput>>
<1>5. fee[t] \in [pc : {"idle", "fetch", "price", "simulate", "record", "tighten",
                        "ready", "failed", "panicked"},
                  quote : Nat, price : Nat, used : Nat, limit : Nat]
      /\ fee[t].used <= feeOpts.maxCu
  BY DEF Fees!FeeTypeOK, FeeInv
<1>6. CASE Fees!Suggest(t)
  <2>1. Fees!FeeIdle.used <= feeOpts.maxCu /\ Fees!Clamp(feeOpts.minPrice) \in Nat
    BY FeeNumbers DEF Fees!FeeIdle
  <2>2. \/ Case([Fees!FeeIdle EXCEPT !.pc = "fetch"])
        \/ Case([Fees!FeeIdle EXCEPT !.pc = "simulate",
                                     !.price = Fees!Clamp(feeOpts.minPrice)])
    BY <1>6, <2>1 DEF Fees!Suggest, Fees!FeeIdle
  <2>3. QED
    BY <1>4, <2>2
<1>7. CASE Fees!PanicOnBounds(t)
  <2>1. Case([fee[t] EXCEPT !.pc = "panicked"])
    BY <1>5, <1>7 DEF Fees!PanicOnBounds
  <2>2. QED
    BY <1>4, <2>1
<1>8. CASE Fees!FetchNoFees(t)
  <2>1. Case([fee[t] EXCEPT !.pc = "simulate", !.price = feeOpts.minPrice])
    BY <1>5, <1>8, FeeNumbers DEF Fees!FetchNoFees
  <2>2. QED
    BY <1>4, <2>1
<1>9. CASE Fees!FetchFees(t)
  <2>1. PICK q \in Quotes : Fees!Put(t, [fee[t] EXCEPT !.pc = "price", !.quote = q])
    BY <1>9 DEF Fees!FetchFees
  <2>2. Case([fee[t] EXCEPT !.pc = "price", !.quote = q])
    BY <1>5, <1>9, <2>1, ConstantTypes DEF Fees!FetchFees
  <2>3. QED
    BY <1>4, <2>2
<1>10. CASE Fees!Simulate(t)
  <2>1. PICK used \in {u \in Consumed : u <= feeOpts.maxCu} :
          Fees!Put(t, [fee[t] EXCEPT !.pc = "record", !.used = used])
    BY <1>10 DEF Fees!Simulate
  <2>2. Case([fee[t] EXCEPT !.pc = "record", !.used = used])
    BY <1>5, <1>10, <2>1, ConstantTypes DEF Fees!Simulate
  <2>3. QED
    BY <1>4, <2>2
<1>11. CASE Fees!SimulateFails(t)
  <2>1. Case([fee[t] EXCEPT !.pc = "failed"])
    BY <1>5, <1>11 DEF Fees!SimulateFails
  <2>2. QED
    BY <1>4, <2>1
<1>12. QED
  BY <1>1, <1>2, <1>3, <1>6, <1>7, <1>8, <1>9, <1>10, <1>11 DEF Fees!FeeStep

-----------------------------------------------------------------------------
(* Captures.                                                               *)

\* One attempt more is worth one attempt's fetches more.
LEMMA OneAttemptMore ==
    ASSUME NEW n \in Nat
    PROVE  /\ n * Most \in Nat /\ (n - 1) * Most \in Int /\ Most \in Nat \ {0}
           /\ (n - 1) * Most + Most = n * Most
<1>1. Most \in Nat \ {0}
  BY ConstantTypes DEF Most
<1> HIDE DEF Most
<1>2. QED
  BY <1>1

\* The state of an idle task, and the accounts a chunk captures.
LEMMA CaptureFacts ==
    /\ Occ!Idle \in CaptureRecord
    /\ Occ!Idle.pc = "idle" /\ Occ!Idle.attempt = 0 /\ Occ!Idle.seen = <<>>
    /\ \A t \in Tasks : TaskTypes => ChunkOf(t).targets \in SUBSET Keys
<1>1. 0 \in 0..MaxSlot
  BY ConstantTypes
<1>2. Occ!Idle \in CaptureRecord
  BY <1>1 DEF Occ!Idle, CaptureRecord, Seen
<1>3. ASSUME NEW t \in Tasks, TaskTypes
      PROVE  ChunkOf(t).targets \in SUBSET Keys
  <2>1. plan[t][layer] \in Chunks
    BY <1>3 DEF TaskTypes
  <2>2. plan[t][layer] \in Chunk
    BY <2>1, ConstantTypes
  <2>3. QED
    BY <2>2 DEF ChunkOf, Chunk
<1>4. QED
  BY <1>2, <1>3 DEF Occ!Idle

\* The capture of t goes on as s.
Becomes(t, s) ==
    /\ s \in CaptureRecord
    /\ occ' = [occ EXCEPT ![t] = s]
    /\ s.seen = <<>> \/ s.seen \in [s.targets -> 0..MaxSlot]
    /\ s.pc # "idle"
    /\ s.pc = "backoff" => s.attempt < MaxRetries
    /\ UNCHANGED <<fetcher, slot>>

\* A capture of t begins another fetch, or goes on with the one it has.
Fetches(t, s) == s.attempt = occ[t].attempt + 1 /\ Occ!CountFetch(t)
Same(t, s) == s.attempt = occ[t].attempt /\ fetches' = fetches

\* What the steps of a capture do: only the first and those after a backoff
\* fetch, and what is refused fails for good.
LEMMA CaptureEffect ==
    ASSUME TaskTypes, CaptureTypes, NEW t \in Tasks, CaptureInv(t),
           Occ!Start(t, ChunkOf(t).targets) \/ Occ!CaptureStep(t)
    PROVE  \E s \in CaptureRecord :
              /\ Becomes(t, s)
              /\ Fetches(t, s) \/ Same(t, s)
              /\ s.attempt <= Most
              /\ \/ refused' = refused /\ occ[t].pc # "failed"
                 \/ /\ refused' = refused \cup {t} /\ fetches' = fetches
                    /\ s.pc = "failed" /\ Occ!Fatal(s.error)
<1> USE DEF Occ!Become
<1>1. /\ occ[t] \in CaptureRecord /\ occ[t].attempt <= Most
      /\ occ[t].seen = <<>> \/ occ[t].seen \in [occ[t].targets -> 0..MaxSlot]
      /\ occ[t].attempt \in Nat /\ Most \in Nat /\ Most >= 1 /\ MaxRetries \in Nat
  BY ConstantTypes DEF CaptureTypes, CaptureInv, CaptureRecord, Most
<1>2. CASE Occ!Start(t, ChunkOf(t).targets)
  <2>1. occ[t].attempt = 0 /\ occ[t].pc = "idle" /\ UNCHANGED <<fetcher, slot, refused>>
    BY <1>2 DEF Occ!Start, CaptureInv
  <2>2. CASE ChunkOf(t).targets = {}
    <3> DEFINE s == [Occ!Idle EXCEPT !.pc = "ok"]
    <3>1. /\ s \in CaptureRecord /\ s.pc = "ok" /\ s.attempt = 0 /\ s.seen = <<>>
      BY CaptureFacts DEF CaptureRecord
    <3>2. occ' = [occ EXCEPT ![t] = s] /\ fetches' = fetches
      BY <1>2, <2>2 DEF Occ!Start
    <3>3. QED
      BY <1>1, <2>1, <3>1, <3>2 DEF Becomes, Same
  <2>3. CASE ChunkOf(t).targets # {}
    <3> DEFINE s == [Occ!Idle EXCEPT !.pc = Occ!FirstCall, !.targets = ChunkOf(t).targets,
                                     !.attempt = 1]
    <3>1. Occ!FirstCall \in {"latest", "fetch"}
      BY DEF Occ!FirstCall
    <3>2. /\ s \in CaptureRecord /\ s.pc = Occ!FirstCall /\ s.attempt = 1
          /\ s.seen = <<>>
      BY <3>1, CaptureFacts DEF CaptureRecord
    <3>3. occ' = [occ EXCEPT ![t] = s] /\ Occ!CountFetch(t)
      BY <1>2, <2>3 DEF Occ!Start
    <3> HIDE DEF s
    <3>4. Becomes(t, s)
      BY <2>1, <3>1, <3>2, <3>3 DEF Becomes
    <3>5. Fetches(t, s) /\ s.attempt <= Most
      BY <1>1, <2>1, <3>2, <3>3 DEF Fetches
    <3>6. QED
      BY <2>1, <3>2, <3>4, <3>5
  <2>4. QED
    BY <2>2, <2>3
<1>3. CASE Occ!ReadLatest(t)
  <2>1. PICK l \in 0..slot : Occ!Become(t, [occ[t] EXCEPT !.pc = "fetch", !.latest = l])
    BY <1>3 DEF Occ!ReadLatest
  <2> DEFINE s == [occ[t] EXCEPT !.pc = "fetch", !.latest = l]
  <2>2. l \in 0..MaxSlot
    BY ConstantTypes DEF CaptureTypes
  <2>3. /\ s \in CaptureRecord /\ s.pc = "fetch" /\ s.attempt = occ[t].attempt
        /\ s.seen = occ[t].seen /\ s.targets = occ[t].targets
    BY <1>1, <2>2 DEF CaptureRecord
  <2>4. QED
    BY <1>1, <1>3, <2>1, <2>3 DEF Becomes, Same, Occ!ReadLatest
<1>4. CASE Occ!FetchMany(t)
  <2>1. PICK f \in Occ!Answers(t) :
          occ' = [occ EXCEPT ![t] =
              IF Occ!Drift(f) <= MaxSlotDrift
              THEN [occ[t] EXCEPT !.pc = "ok", !.seen = f]
              ELSE IF Occ!LastFetch(t)
                   THEN [occ[t] EXCEPT !.pc = "failed", !.error = "drift"]
                   ELSE [occ[t] EXCEPT !.pc = "backoff"]]
    BY <1>4 DEF Occ!FetchMany
  <2>2. f \in [occ[t].targets -> 0..MaxSlot] /\ f \in Seen
    <3>1. f \in [occ[t].targets -> 0..slot] /\ 0..slot \subseteq 0..MaxSlot
      BY ConstantTypes DEF Occ!Answers, CaptureTypes
    <3>2. f \in [occ[t].targets -> 0..MaxSlot] /\ occ[t].targets \in SUBSET Keys
      BY <1>1, <3>1 DEF CaptureRecord
    <3>3. QED
      BY <3>2 DEF Seen
  <2> DEFINE ok == [occ[t] EXCEPT !.pc = "ok", !.seen = f]
             failed == [occ[t] EXCEPT !.pc = "failed", !.error = "drift"]
             backoff == [occ[t] EXCEPT !.pc = "backoff"]
  <2>3. /\ ok \in CaptureRecord /\ ok.pc = "ok" /\ ok.attempt = occ[t].attempt
        /\ ok.seen = f /\ ok.targets = occ[t].targets
    BY <1>1, <2>2 DEF CaptureRecord
  <2>4. /\ failed \in CaptureRecord /\ failed.pc = "failed"
        /\ failed.attempt = occ[t].attempt
        /\ failed.seen = occ[t].seen /\ failed.targets = occ[t].targets
    BY <1>1 DEF CaptureRecord, Occ!Errors
  <2>5. /\ backoff \in CaptureRecord /\ backoff.pc = "backoff"
        /\ backoff.attempt = occ[t].attempt
        /\ backoff.seen = occ[t].seen /\ backoff.targets = occ[t].targets
    BY <1>1 DEF CaptureRecord
  <2>6. ~ Occ!LastFetch(t) => occ[t].attempt < MaxRetries
    BY <1>1 DEF Occ!LastFetch
  <2>7. /\ occ[t].pc = "fetch" /\ UNCHANGED <<fetcher, slot, fetches, refused>>
    BY <1>4 DEF Occ!FetchMany
  <2> HIDE DEF ok, failed, backoff
  <2>8. \E s \in {ok, failed, backoff} :
          /\ occ' = [occ EXCEPT ![t] = s]
          /\ s = backoff => ~ Occ!LastFetch(t)
    BY <2>1, <2>3, <2>4, <2>5 DEF ok, failed, backoff
  <2>9. QED
    BY <1>1, <2>2, <2>3, <2>4, <2>5, <2>6, <2>7, <2>8 DEF Becomes, Same
<1>5. CASE Occ!FetchFails(t)
  <2>1. PICK e \in Occ!Faults :
          /\ occ' = [occ EXCEPT ![t] =
                IF Occ!Fatal(e)
                THEN [occ[t] EXCEPT !.pc = "failed", !.error = e]
                ELSE IF Occ!LastFetch(t)
                     THEN [occ[t] EXCEPT !.pc = "failed", !.error = "exhausted"]
                     ELSE [occ[t] EXCEPT !.pc = "backoff"]]
          /\ refused' = IF e = "transient" THEN refused ELSE refused \cup {t}
    BY <1>5 DEF Occ!FetchFails
  <2> DEFINE fatal == [occ[t] EXCEPT !.pc = "failed", !.error = e]
             failed == [occ[t] EXCEPT !.pc = "failed", !.error = "exhausted"]
             backoff == [occ[t] EXCEPT !.pc = "backoff"]
  <2>2. /\ fatal \in CaptureRecord /\ fatal.pc = "failed" /\ fatal.error = e
        /\ fatal.attempt = occ[t].attempt
        /\ fatal.seen = occ[t].seen /\ fatal.targets = occ[t].targets
    BY <1>1 DEF CaptureRecord, Occ!Errors
  <2>3. /\ failed \in CaptureRecord /\ failed.pc = "failed"
        /\ failed.attempt = occ[t].attempt
        /\ failed.seen = occ[t].seen /\ failed.targets = occ[t].targets
    BY <1>1 DEF CaptureRecord, Occ!Errors
  <2>4. /\ backoff \in CaptureRecord /\ backoff.pc = "backoff"
        /\ backoff.attempt = occ[t].attempt
        /\ backoff.seen = occ[t].seen /\ backoff.targets = occ[t].targets
    BY <1>1 DEF CaptureRecord
  <2>5. ~ Occ!LastFetch(t) => occ[t].attempt < MaxRetries
    BY <1>1 DEF Occ!LastFetch
  <2>6. e = "transient" <=> ~ Occ!Fatal(e)
    BY DEF Occ!Fatal, Occ!Faults
  <2>7. occ[t].pc \in {"latest", "fetch"} /\ UNCHANGED <<fetcher, slot, fetches>>
    BY <1>5 DEF Occ!FetchFails
  <2> HIDE DEF fatal, failed, backoff
  <2>8. CASE Occ!Fatal(e)
    <3>1. occ' = [occ EXCEPT ![t] = fatal] /\ refused' = refused \cup {t}
      BY <2>1, <2>6, <2>8 DEF fatal
    <3>2. QED
      BY <1>1, <2>2, <2>7, <2>8, <3>1 DEF Becomes, Same
  <2>9. CASE ~ Occ!Fatal(e)
    <3>1. /\ refused' = refused
          /\ \/ occ' = [occ EXCEPT ![t] = failed]
             \/ occ' = [occ EXCEPT ![t] = backoff] /\ ~ Occ!LastFetch(t)
      BY <2>1, <2>6, <2>9 DEF failed, backoff
    <3>2. QED
      BY <1>1, <2>3, <2>4, <2>5, <2>7, <3>1 DEF Becomes, Same
  <2>10. QED
    BY <2>8, <2>9
<1>6. CASE Occ!Retry(t)
  <2> DEFINE s == [occ[t] EXCEPT !.pc = Occ!FirstCall, !.attempt = @ + 1]
  <2>1. Occ!FirstCall \in {"latest", "fetch"}
    BY DEF Occ!FirstCall
  <2>2. occ[t].attempt < MaxRetries /\ occ[t].pc = "backoff"
    BY <1>6 DEF Occ!Retry, CaptureInv
  <2>3. occ[t].attempt + 1 <= Most /\ occ[t].attempt + 1 \in Nat
    BY <1>1, <2>2 DEF Most
  <2>4. s = [occ[t] EXCEPT !.pc = Occ!FirstCall, !.attempt = occ[t].attempt + 1]
    OBVIOUS
  <2>5. s \in CaptureRecord
    BY <1>1, <2>1, <2>3, <2>4 DEF CaptureRecord
  <2>6. /\ s.pc = Occ!FirstCall /\ s.attempt = occ[t].attempt + 1
        /\ s.seen = occ[t].seen /\ s.targets = occ[t].targets
    BY <1>1, <2>4 DEF CaptureRecord
  <2>7. occ' = [occ EXCEPT ![t] = s] /\ Occ!CountFetch(t) /\ UNCHANGED <<fetcher, slot, refused>>
    BY <1>6 DEF Occ!Retry
  <2> HIDE DEF s
  <2>8. Becomes(t, s)
    BY <1>1, <2>1, <2>5, <2>6, <2>7 DEF Becomes
  <2>9. Fetches(t, s) /\ s.attempt <= Most
    BY <2>3, <2>6, <2>7 DEF Fetches
  <2>10. QED
    BY <2>2, <2>5, <2>7, <2>8, <2>9
<1>7. QED
  BY <1>2, <1>3, <1>4, <1>5, <1>6 DEF Occ!CaptureStep

\* Outside of t nothing of the captures changes, and what was refused before is
\* not asked for again.
CaptureFrame(t) ==
    /\ fetcher' = fetcher /\ slot' = slot
    /\ \A u \in Tasks \ {t} :
          /\ occ'[u] = occ[u] /\ fetches'[u] = fetches[u]
          /\ u \in refused' <=> u \in refused
    /\ t \in refused => fetches'[t] = fetches[t]

\* A step of a capture keeps the count of its fetches.
LEMMA CaptureStep ==
    ASSUME TaskTypes, CaptureTypes, NEW t \in Tasks, CaptureInv(t), Capture(t)
    PROVE  CaptureTypes' /\ CaptureInv(t)' /\ CaptureFrame(t) /\ occ[t].pc # "ok"
<1>0. occ[t].pc # "ok"
  BY DEF Capture, Occ!Start, Occ!CaptureStep, Occ!ReadLatest, Occ!FetchMany,
         Occ!FetchFails, Occ!Retry
<1>1. /\ Running(t) /\ UNCHANGED <<layer, plan, attempt, outcome>>
      /\ Occ!Start(t, ChunkOf(t).targets) \/ Occ!CaptureStep(t)
  BY DEF Capture, taskVars
<1>2. PICK s \in CaptureRecord :
        /\ Becomes(t, s)
        /\ Fetches(t, s) \/ Same(t, s)
        /\ s.attempt <= Most
        /\ \/ refused' = refused /\ occ[t].pc # "failed"
           \/ /\ refused' = refused \cup {t} /\ fetches' = fetches
              /\ s.pc = "failed" /\ Occ!Fatal(s.error)
  BY <1>1, CaptureEffect
<1>3. /\ occ'[t] = s /\ Running(t)' /\ UNCHANGED <<fetcher, slot>>
      /\ s.attempt \in Nat /\ occ[t].attempt \in Nat /\ fetches[t] \in Nat
      /\ attempt[t] \in Nat /\ attempt'[t] = attempt[t]
      /\ \A u \in Tasks \ {t} : occ'[u] = occ[u]
  BY <1>1, <1>2, ConstantTypes
     DEF Becomes, CaptureTypes, CaptureRecord, TaskTypes, Running
<1>4. t \in refused => occ[t].pc = "failed"
  BY <1>1 DEF CaptureInv
<1>5. CaptureTypes'
  <2>1. occ' \in [Tasks -> CaptureRecord]
    BY <1>2 DEF Becomes, CaptureTypes
  <2>2. fetches' \in [Tasks -> Nat]
    BY <1>2 DEF Fetches, Same, Occ!CountFetch, CaptureTypes
  <2>3. refused' \subseteq Tasks
    BY <1>2 DEF CaptureTypes
  <2>4. QED
    BY <1>3, <2>1, <2>2, <2>3 DEF CaptureTypes
<1>6. CaptureFrame(t)
  BY <1>2, <1>3, <1>4 DEF CaptureFrame, CaptureTypes, Fetches, Same, Occ!CountFetch
<1>7. fetches'[t] - fetches[t] = s.attempt - occ[t].attempt
  BY <1>2, <1>3 DEF CaptureTypes, Fetches, Same, Occ!CountFetch
<1>8. fetches[t] <= (attempt[t] - 1) * Most + occ[t].attempt
  BY <1>1 DEF CaptureInv
<1>9. /\ fetches'[t] <= (attempt[t] - 1) * Most + s.attempt
      /\ fetches'[t] <= attempt[t] * Most
  <2>1. /\ (attempt[t] - 1) * Most \in Int /\ attempt[t] * Most \in Nat /\ Most \in Nat
        /\ (attempt[t] - 1) * Most + Most = attempt[t] * Most
    BY <1>3, OneAttemptMore
  <2>2. s.attempt <= Most /\ fetches'[t] \in Nat
    BY <1>2, <1>5 DEF CaptureTypes
  <2> DEFINE a == (attempt[t] - 1) * Most
             b == attempt[t] * Most
  <2> HIDE DEF a, b
  <2>3. a \in Int /\ b \in Nat /\ a + Most = b
    BY <2>1 DEF a, b
  <2>4. fetches'[t] <= a + s.attempt
    BY <1>3, <1>7, <1>8, <2>2, <2>3 DEF a
  <2>5. fetches'[t] <= b
    BY <1>3, <2>1, <2>2, <2>3, <2>4
  <2>6. QED
    BY <2>4, <2>5 DEF a, b
<1>10. t \in refused' => occ'[t].pc = "failed" /\ Occ!Fatal(occ'[t].error)
  BY <1>2, <1>3, <1>4
<1>11. CaptureInv(t)'
  <2>1. /\ s.seen = <<>> \/ s.seen \in [s.targets -> 0..MaxSlot]
        /\ s.pc # "idle" /\ s.attempt <= Most
        /\ s.pc = "backoff" => s.attempt < MaxRetries
    BY <1>2 DEF Becomes
  <2>2. Occ!Fatal(occ'[t].error) <=> Occ!Fatal(occ[t].error)'
    BY DEF Occ!Fatal
  <2>3. QED
    BY <1>3, <1>9, <1>10, <2>1, <2>2 DEF CaptureInv, Most
<1>12. QED
  BY <1>0, <1>5, <1>6, <1>11

-----------------------------------------------------------------------------
(* Lookup tables.                                                          *)

\* The accounts of a chunk.
LEMMA ChunkMetas ==
    ASSUME TaskTypes, NEW t \in Tasks
    PROVE  ChunkOf(t).metas \in Seq([key : Keys, writable : BOOLEAN, signer : BOOLEAN])
<1>1. plan[t][layer] \in Chunks
  BY DEF TaskTypes
<1>2. plan[t][layer] \in Chunk
  BY <1>1, ConstantTypes
<1>3. QED
  BY <1>2 DEF ChunkOf, Chunk

\* How a chunk uses its keys.
LEMMA UsageFacts ==
    ASSUME NEW metas \in Seq([key : Keys, writable : BOOLEAN, signer : BOOLEAN])
    PROVE  LET usage == Alt!UsageOf(metas)
           IN  /\ DOMAIN usage \subseteq Keys /\ Payer \notin DOMAIN usage
               /\ \A k \in DOMAIN usage :
                     /\ usage[k].writable \in BOOLEAN
                     /\ usage[k].writable <=> \E m \in Alt!MetasOf(metas, k) : m.writable
                     /\ usage[k].signer <=> \E m \in Alt!MetasOf(metas, k) : m.signer
<1> DEFINE usage == Alt!UsageOf(metas)
<1>1. DOMAIN usage = {metas[i].key : i \in DOMAIN metas} \ {Payer}
  BY DEF Alt!UsageOf
<1>2. \A i \in DOMAIN metas : metas[i].key \in Keys
  <2>1. metas \in Seq(Alt!Meta)
    BY DEF Alt!Meta
  <2>2. \A i \in 1..Len(metas) : metas[i] \in Alt!Meta
    BY <2>1
  <2>3. DOMAIN metas = 1..Len(metas)
    BY <2>1
  <2>4. QED
    BY <2>2, <2>3 DEF Alt!Meta
<1>3. ASSUME NEW k \in DOMAIN usage
      PROVE  /\ usage[k].writable \in BOOLEAN
             /\ usage[k].writable <=> \E m \in Alt!MetasOf(metas, k) : m.writable
             /\ usage[k].signer <=> \E m \in Alt!MetasOf(metas, k) : m.signer
  <2>1. usage[k] = Alt!Usage(metas, k)
    BY <1>1, <1>3 DEF Alt!UsageOf
  <2>2. /\ usage[k].writable = \E m \in Alt!MetasOf(metas, k) : m.writable
        /\ usage[k].signer = \E m \in Alt!MetasOf(metas, k) : m.signer
    BY <2>1 DEF Alt!Usage
  <2> HIDE DEF usage
  <2>3. QED
    BY <2>2
<1>4. QED
  BY <1>1, <1>2, <1>3

\* A set of keys and the number of them.
LEMMA SomeKeys ==
    ASSUME NEW S \in SUBSET Keys
    PROVE  IsFiniteSet(S) /\ Cardinality(S) \in Nat
<1>1. IsFiniteSet(S)
  BY ConstantTypes, FS_Subset
<1>2. QED
  BY <1>1, FS_CardinalityType

\* Two disjoint sets of them.
LEMMA TwoParts ==
    ASSUME NEW S \in SUBSET Keys, NEW T \in SUBSET Keys, S \cap T = {}
    PROVE  Cardinality(S) + Cardinality(T) = Cardinality(S \cup T)
<1>1. /\ IsFiniteSet(S) /\ IsFiniteSet(T)
      /\ Cardinality(S) \in Nat /\ Cardinality(T) \in Nat
  BY SomeKeys
<1>2. Cardinality(S \cup T) = Cardinality(S) + Cardinality(T) - Cardinality(S \cap T)
  BY <1>1, FS_Union
<1>3. Cardinality(S \cap T) = 0
  BY FS_EmptySet, Zenon
<1>4. \A s, p, u, o : s \in Nat /\ p \in Nat /\ u = s + p - o /\ o = 0 => s + p = u
  OBVIOUS
<1>5. QED
  BY <1>1, <1>2, <1>3, <1>4

\* The least of two numbers.
LEMMA MinOfTwo ==
    ASSUME NEW a \in Int, NEW b \in Int
    PROVE  Alt!Min({a, b}) \in Int /\ Alt!Min({a, b}) <= b
<1>1. \E x \in {a, b} : \A y \in {a, b} : x <= y
  <2>1. CASE a <= b
    BY <2>1
  <2>2. CASE ~ (a <= b)
    BY <2>2
  <2>3. QED
    BY <2>1, <2>2
<1>2. Alt!Min({a, b}) \in {a, b} /\ \A y \in {a, b} : Alt!Min({a, b}) <= y
  BY <1>1 DEF Alt!Min
<1>3. QED
  BY <1>2

\* What is offloaded are keys that the chunk uses and that need not sign, and no
\* more than the policy allows.
LEMMA OffloadFacts ==
    ASSUME NEW metas \in Seq([key : Keys, writable : BOOLEAN, signer : BOOLEAN]),
           NEW off \in Alt!Offloads(Alt!UsageOf(metas))
    PROVE  /\ off \subseteq DOMAIN Alt!UsageOf(metas)
           /\ \A k \in off : ~ Alt!UsageOf(metas)[k].signer
           /\ Cardinality(off) <= MaxAlt
<1> DEFINE usage == Alt!UsageOf(metas)
           signers == {k \in DOMAIN usage : usage[k].signer}
           others == DOMAIN usage \ signers
           slots == Reserve - Alt!Cardinality(signers)
<1>1. DOMAIN usage \subseteq Keys
  BY UsageFacts
<1>2. off = {} \/ off \in Alt!Tails(usage, others, slots)
  BY DEF Alt!Offloads
<1>3. slots \in Int /\ Alt!Cardinality(others) \in Int /\ MaxAlt \in Nat
  BY <1>1, SomeKeys, SameCardinality, ConstantTypes
<1> HIDE DEF usage, slots
<1>4. CASE off = {}
  BY <1>3, <1>4, FS_EmptySet
<1>5. CASE off \in Alt!Tails(usage, others, slots)
  <2>1. off \in Alt!kSubset(Alt!Min({Alt!Cardinality(others) - slots, MaxAlt}), others)
    BY <1>5 DEF Alt!Tails
  <2>2. off \subseteq others
        /\ Alt!Cardinality(off) = Alt!Min({Alt!Cardinality(others) - slots, MaxAlt})
    BY <2>1 DEF Alt!kSubset
  <2>3. Cardinality(off) <= MaxAlt
    BY <1>3, <2>2, MinOfTwo, SameCardinality
  <2>4. QED
    BY <2>2, <2>3 DEF usage
<1>6. QED
  BY <1>2, <1>4, <1>5

\* The statistics of a resolution for some keys of a chunk.
Statistics(result, keys, usage) ==
    /\ result.offloaded = keys /\ keys \subseteq result.tables
    /\ result.writable = Cardinality({k \in keys : usage[k].writable})
    /\ result.readonly = Cardinality({k \in keys : ~ usage[k].writable})

\* A resolution of tables, with its statistics.
ResolutionRecord ==
    [tables : SUBSET Keys, offloaded : SUBSET Keys, writable : Nat, readonly : Nat]

\* A new resolution is of the keys it is made for.
LEMMA NewResolution ==
    ASSUME NEW keys \in SUBSET Keys, NEW tables \in SUBSET Keys, keys \subseteq tables,
           NEW usage
    PROVE  /\ Alt!Resolution(tables, keys, usage) \in ResolutionRecord
           /\ Statistics(Alt!Resolution(tables, keys, usage), keys, usage)
<1> DEFINE written == {k \in keys : usage[k].writable}
           read == {k \in keys : ~ usage[k].writable}
           r == Alt!Resolution(tables, keys, usage)
<1>1. Cardinality(written) \in Nat /\ Cardinality(read) \in Nat
  <2>1. written \in SUBSET Keys /\ read \in SUBSET Keys
    OBVIOUS
  <2> HIDE DEF written, read
  <2>2. QED
    BY <2>1, SomeKeys
<1>2. r = [tables |-> tables, offloaded |-> keys,
           writable |-> Alt!Cardinality(written), readonly |-> Alt!Cardinality(read)]
  BY DEF Alt!Resolution
<1>3. Alt!Cardinality(written) = Cardinality(written) /\ Alt!Cardinality(read) = Cardinality(read)
  BY SameCardinality
<1>4. /\ r.tables = tables /\ r.offloaded = keys
      /\ r.writable = Cardinality(written) /\ r.readonly = Cardinality(read)
      /\ r \in ResolutionRecord
  <2> HIDE DEF written, read, r
  <2>1. QED
    BY <1>1, <1>2, <1>3 DEF ResolutionRecord
<1>5. QED
  BY <1>4 DEF Statistics

\* No tables for no keys.
LEMMA NoResolution ==
    ASSUME NEW usage
    PROVE  Alt!NoTables \in ResolutionRecord /\ Statistics(Alt!NoTables, {}, usage)
<1>1. {k \in {} : usage[k].writable} = {} /\ {k \in {} : ~ usage[k].writable} = {}
  OBVIOUS
<1>2. Cardinality({}) = 0
  BY FS_EmptySet
<1>3. Alt!NoTables \in ResolutionRecord
  BY DEF Alt!NoTables, ResolutionRecord
<1>4. QED
  BY <1>1, <1>2, <1>3 DEF Alt!NoTables, Statistics

\* Each key that a catalog resolves is in the last table that has it, one of those
\* which are taken.
LEMMA TakenTables ==
    ASSUME catalog \in Catalogs, NEW off \in SUBSET Keys
    PROVE  /\ Alt!Resolvable(off) \subseteq off
           /\ Alt!TablesFor(off) \in SUBSET Keys
           /\ Alt!Resolvable(off) \subseteq Alt!TablesFor(off)
<1>1. /\ catalog \in Seq(SUBSET Keys) /\ Len(catalog) \in Nat
      /\ DOMAIN catalog = 1..Len(catalog)
      /\ \A i \in DOMAIN catalog : catalog[i] \subseteq Keys
  BY ConstantTypes
<1>2. ASSUME NEW k \in Alt!Resolvable(off)
      PROVE  Alt!LastTable(k) \in DOMAIN catalog /\ k \in catalog[Alt!LastTable(k)]
  <2> DEFINE S == {i \in DOMAIN catalog : k \in catalog[i]}
  <2>1. S # {} /\ S \in SUBSET Nat /\ \A i \in S : i <= Len(catalog)
    BY <1>1, <1>2 DEF Alt!Resolvable
  <2>2. Alt!LastTable(k) = Alt!Max(S)
    BY DEF Alt!LastTable
  <2>3. Alt!Max(S) \in S
    <3> HIDE DEF S
    <3>1. PICK m \in S : \A l \in S : l <= m
      BY <1>1, <2>1, GreatestNatural
    <3>2. \A l \in S : m >= l
      BY <2>1, <3>1
    <3>3. QED
      BY <3>2 DEF Alt!Max
  <2>4. QED
    BY <2>2, <2>3
<1>3. Alt!Resolvable(off) \subseteq off
  BY DEF Alt!Resolvable
<1>4. Alt!TablesFor(off) = UNION {catalog[Alt!LastTable(k)] : k \in Alt!Resolvable(off)}
  BY DEF Alt!TablesFor
<1>5. Alt!TablesFor(off) \in SUBSET Keys
  BY <1>1, <1>2, <1>4
<1>6. Alt!Resolvable(off) \subseteq Alt!TablesFor(off)
  BY <1>2, <1>4
<1>7. QED
  BY <1>3, <1>5, <1>6

\* Of a key of the cache the keys and the flags can be read back.
LEMMA KeysOfCacheKey ==
    ASSUME NEW keys \in SUBSET Keys, NEW usage,
           \A k \in keys : usage[k].writable \in BOOLEAN
    PROVE  LET key == Alt!CacheKey(keys, usage)
           IN  /\ {k \in Keys : \E w \in BOOLEAN : <<k, w>> \in key} = keys
               /\ {k \in keys : <<k, TRUE>> \in key} = {k \in keys : usage[k].writable}
               /\ {k \in keys : <<k, TRUE>> \notin key} = {k \in keys : ~ usage[k].writable}
<1> DEFINE key == Alt!CacheKey(keys, usage)
<1>1. \A k, w : <<k, w>> \in key <=> k \in keys /\ w = usage[k].writable
  BY DEF Alt!CacheKey
<1> HIDE DEF key
<1>2. {k \in Keys : \E w \in BOOLEAN : <<k, w>> \in key} = keys
  BY <1>1
<1>3. \A k \in keys : <<k, TRUE>> \in key <=> usage[k].writable
  BY <1>1, Zenon
<1>4. QED
  BY <1>2, <1>3 DEF key

\* A resolution of t ends, or goes on to make its table.
AltState == [pc : {"idle", "insert", "resolved"}, keys : SUBSET Keys,
             result : ResolutionRecord, hit : BOOLEAN]

\* Where a resolution of t stands agrees with the accounts of its chunk.
LEMMA NextResolution ==
    ASSUME Alt!AltTypeOK, TaskTypes, NEW t \in Tasks, NEW a \in AltState,
           alt' = [alt EXCEPT ![t] = a], UNCHANGED <<layer, plan>>,
           LET usage == Alt!UsageOf(ChunkOf(t).metas)
           IN  /\ a.keys \subseteq DOMAIN usage
               /\ \A k \in a.keys : ~ usage[k].signer
               /\ Cardinality(a.keys) <= MaxAlt
               /\ a.pc = "resolved" => Statistics(a.result, a.keys, usage)
    PROVE  /\ alt' \in [Tasks -> AltState] /\ TableInv(t)'
           /\ \A u \in Tasks \ {t} : alt'[u] = alt[u]
<1>1. alt \in [Tasks -> AltState]
  BY DEF Alt!AltTypeOK, AltState, ResolutionRecord
<1>2. /\ alt' \in [Tasks -> AltState] /\ alt'[t] = a
      /\ \A u \in Tasks \ {t} : alt'[u] = alt[u]
  BY <1>1
<1>3. Alt!UsageOf(ChunkOf(t).metas)' = Alt!UsageOf(ChunkOf(t).metas)
  BY DEF ChunkOf, Alt!UsageOf, Alt!Usage, Alt!MetasOf
<1>4. TableInv(t)'
  BY <1>2, <1>3 DEF TableInv, Statistics
<1>5. QED
  BY <1>2, <1>4

\* What is filed are resolutions.
CacheTypes ==
    \A k \in DOMAIN altCache :
        altCache[k].resolution \in ResolutionRecord /\ altCache[k].expires \in Nat

\* What is filed of a chunk is found again by those that use the keys alike.
LEMMA FiledIsOwn ==
    ASSUME NEW keys \in SUBSET Keys, NEW usage,
           \A k \in keys : usage[k].writable \in BOOLEAN, NEW result
    PROVE  /\ Filed(Alt!CacheKey(keys, usage), result) => Statistics(result, keys, usage)
           /\ Statistics(result, keys, usage) /\ result.tables = keys
                => Filed(Alt!CacheKey(keys, usage), result)
<1> DEFINE key == Alt!CacheKey(keys, usage)
<1>1. /\ {k \in Keys : \E w \in BOOLEAN : <<k, w>> \in key} = keys
      /\ {k \in keys : <<k, TRUE>> \in key} = {k \in keys : usage[k].writable}
      /\ {k \in keys : <<k, TRUE>> \notin key} = {k \in keys : ~ usage[k].writable}
  BY KeysOfCacheKey
<1> HIDE DEF key
<1>2. QED
  BY <1>1 DEF Filed, Statistics, key

\* An entry is added to the cache, or one is taken out of it.
LEMMA CacheChanges ==
    ASSUME CacheTypes, CacheInv, slot \in Nat, UNCHANGED catalog,
           NEW key,
           \/ altCache' = Alt!Without(altCache, key)
           \/ \E result \in ResolutionRecord :
                 /\ catalog = <<>> => Filed(key, result)
                 /\ altCache' = Alt!With(altCache, key, result)
           \/ altCache' = altCache
    PROVE  CacheTypes' /\ CacheInv'
<1>1. CASE altCache' = Alt!Without(altCache, key)
  <2>1. /\ DOMAIN altCache' \subseteq DOMAIN altCache
        /\ \A k \in DOMAIN altCache' : altCache'[k] = altCache[k]
    BY <1>1 DEF Alt!Without
  <2>2. QED
    BY <2>1 DEF CacheTypes, CacheInv
<1>2. ASSUME NEW result \in ResolutionRecord, catalog = <<>> => Filed(key, result),
             altCache' = Alt!With(altCache, key, result)
      PROVE  CacheTypes' /\ CacheInv'
  <2>1. slot + Ttl \in Nat
    BY ConstantTypes
  <2>2. DOMAIN altCache' = DOMAIN altCache \cup {key}
    BY <1>2 DEF Alt!With
  <2>3. altCache'[key].resolution = result /\ altCache'[key].expires = slot + Ttl
    BY <1>2 DEF Alt!With
  <2>4. \A k \in DOMAIN altCache : k # key => altCache'[k] = altCache[k]
    BY <1>2 DEF Alt!With
  <2>5. CacheTypes'
    BY <1>2, <2>1, <2>2, <2>3, <2>4 DEF CacheTypes
  <2>6. CacheInv'
    BY <1>2, <2>2, <2>3, <2>4 DEF CacheInv
  <2>7. QED
    BY <2>5, <2>6
<1>3. CASE altCache' = altCache
  BY <1>3 DEF CacheTypes, CacheInv
<1>4. QED
  BY <1>1, <1>2, <1>3

\* A step of a resolution: whatever the cache has, the task gets what is of its
\* own chunk.
LEMMA TableStep ==
    ASSUME TaskTypes, CaptureTypes, Alt!AltTypeOK, CacheInv, NEW t \in Tasks, TableInv(t),
           Resolve(t)
    PROVE  /\ Alt!AltTypeOK' /\ CacheInv' /\ TableInv(t)'
           /\ \A u \in Tasks \ {t} : alt'[u] = alt[u]
<1> DEFINE metas == ChunkOf(t).metas
           usage == Alt!UsageOf(metas)
           Legal(keys) == /\ keys \subseteq DOMAIN usage
                          /\ \A k \in keys : ~ usage[k].signer
                          /\ Cardinality(keys) <= MaxAlt
<1>1. UNCHANGED <<layer, plan, catalog>> /\ Alt!ResolveStep(t, metas)
  BY DEF Resolve, taskVars, Alt!ResolveStep, Alt!ResolveNothing, Alt!ResolveByCatalog,
         Alt!Lookup, Alt!Insert
<1>2. /\ CacheTypes /\ slot \in Nat /\ catalog \in Catalogs
      /\ alt \in [Tasks -> AltState]
  BY ConstantTypes
     DEF Alt!AltTypeOK, AltState, ResolutionRecord, CacheTypes, CaptureTypes
<1>3. /\ metas \in Seq([key : Keys, writable : BOOLEAN, signer : BOOLEAN])
      /\ DOMAIN usage \in SUBSET Keys
      /\ \A k \in DOMAIN usage : usage[k].writable \in BOOLEAN
  BY ChunkMetas, UsageFacts
<1>4. \A off \in Alt!Offloads(usage) : Legal(off)
  BY <1>3, OffloadFacts
<1> HIDE DEF usage, metas
<1>5. ASSUME NEW a \in AltState, alt' = [alt EXCEPT ![t] = a], Legal(a.keys),
             a.pc = "resolved" => Statistics(a.result, a.keys, usage),
             NEW key,
             \/ altCache' = Alt!Without(altCache, key)
             \/ \E result \in ResolutionRecord :
                   /\ catalog = <<>> => Filed(key, result)
                   /\ altCache' = Alt!With(altCache, key, result)
             \/ altCache' = altCache
      PROVE  /\ Alt!AltTypeOK' /\ CacheInv' /\ TableInv(t)'
             /\ \A u \in Tasks \ {t} : alt'[u] = alt[u]
  <2>1. CacheTypes' /\ CacheInv'
    BY <1>1, <1>2, <1>5, CacheChanges
  <2>2. /\ alt' \in [Tasks -> AltState] /\ TableInv(t)'
        /\ \A u \in Tasks \ {t} : alt'[u] = alt[u]
    BY <1>1, <1>5, NextResolution DEF usage, metas
  <2>3. Alt!AltTypeOK'
    BY <1>1, <1>2, <2>1, <2>2 DEF Alt!AltTypeOK, AltState, ResolutionRecord, CacheTypes
  <2>4. QED
    BY <2>1, <2>2, <2>3
<1>6. CASE Alt!ResolveNothing(t, metas) \/ Alt!ResolveByCatalog(t, metas)
  <2>1. ASSUME Alt!Resolved(t, {}, Alt!NoTables, FALSE), altCache' = altCache
        PROVE  /\ Alt!AltTypeOK' /\ CacheInv' /\ TableInv(t)'
               /\ \A u \in Tasks \ {t} : alt'[u] = alt[u]
    <3> DEFINE a == [pc |-> "resolved", keys |-> {}, result |-> Alt!NoTables, hit |-> FALSE]
    <3>1. a \in AltState /\ a.keys = {} /\ a.result = Alt!NoTables
      BY NoResolution DEF AltState
    <3>2. Legal({}) /\ Statistics(Alt!NoTables, {}, usage)
      BY NoResolution, FS_EmptySet, ConstantTypes
    <3>3. alt' = [alt EXCEPT ![t] = a]
      BY <2>1 DEF Alt!Resolved
    <3> HIDE DEF a
    <3>4. QED
      BY <1>5, <2>1, <3>1, <3>2, <3>3
  <2>2. ASSUME NEW off \in Alt!Offloads(usage), catalog # <<>>,
               Alt!Resolved(t, Alt!Resolvable(off),
                   Alt!Resolution(Alt!TablesFor(off), Alt!Resolvable(off), usage), FALSE),
               altCache' = Alt!With(altCache, {<<k>> : k \in Alt!Resolvable(off)},
                   Alt!Resolution(Alt!TablesFor(off), Alt!Resolvable(off), usage))
        PROVE  /\ Alt!AltTypeOK' /\ CacheInv' /\ TableInv(t)'
               /\ \A u \in Tasks \ {t} : alt'[u] = alt[u]
    <3> DEFINE keys == Alt!Resolvable(off)
               result == Alt!Resolution(Alt!TablesFor(off), keys, usage)
               a == [pc |-> "resolved", keys |-> keys, result |-> result, hit |-> FALSE]
    <3>1. /\ off \in SUBSET Keys /\ keys \in SUBSET Keys /\ keys \subseteq off
          /\ Alt!TablesFor(off) \in SUBSET Keys /\ keys \subseteq Alt!TablesFor(off)
      <4>1. off \in SUBSET Keys
        BY <1>3, <1>4
      <4>2. QED
        BY <1>2, <4>1, TakenTables
    <3>2. result \in ResolutionRecord /\ Statistics(result, keys, usage)
      BY <3>1, NewResolution
    <3>3. Legal(keys)
      <4>1. IsFiniteSet(off) /\ Cardinality(off) \in Nat /\ Cardinality(keys) \in Nat
        BY <3>1, SomeKeys
      <4>2. Cardinality(keys) <= Cardinality(off)
        BY <3>1, <4>1, FS_Subset
      <4>3. Cardinality(off) <= MaxAlt
        BY <1>4
      <4>4. Cardinality(keys) <= MaxAlt
        BY <4>1, <4>2, <4>3, ConstantTypes
      <4>5. QED
        BY <1>4, <3>1, <4>4
    <3>4. a \in AltState /\ a.keys = keys /\ a.result = result
      BY <3>1, <3>2 DEF AltState
    <3>5. alt' = [alt EXCEPT ![t] = a]
      BY <2>2 DEF Alt!Resolved
    <3>6. altCache' = Alt!With(altCache, {<<k>> : k \in keys}, result)
      BY <2>2
    <3> HIDE DEF a, result
    <3>7. QED
      BY <1>5, <2>2, <3>2, <3>3, <3>4, <3>5, <3>6
  <2>3. CASE Alt!ResolveNothing(t, metas)
    BY <2>1, <2>3 DEF Alt!ResolveNothing
  <2>4. CASE Alt!ResolveByCatalog(t, metas)
    <3>1. /\ catalog # <<>>
          /\ \E off \in Alt!Offloads(usage) \ {{}} :
                LET keys == Alt!Resolvable(off)
                    resolution == Alt!Resolution(Alt!TablesFor(off), keys, usage)
                IN  IF keys = {}
                    THEN Alt!Resolved(t, {}, Alt!NoTables, FALSE) /\ UNCHANGED altCache
                    ELSE /\ Alt!Resolved(t, keys, resolution, FALSE)
                         /\ altCache' = Alt!With(altCache, {<<k>> : k \in keys}, resolution)
      BY <2>4 DEF Alt!ResolveByCatalog, usage
    <3>2. QED
      BY <2>1, <2>2, <3>1
  <2>5. QED
    BY <1>6, <2>3, <2>4
<1>7. CASE Alt!Lookup(t, metas)
  <2>1. PICK off \in Alt!Offloads(usage) \ {{}} :
          LET key == Alt!CacheKey(off, usage)
          IN  IF key \in DOMAIN altCache /\ altCache[key].expires > slot
              THEN /\ Alt!Resolved(t, off, altCache[key].resolution, TRUE)
                   /\ UNCHANGED altCache
              ELSE /\ alt' = [alt EXCEPT ![t] =
                                [Alt!AltIdle EXCEPT !.pc = "insert", !.keys = off]]
                   /\ altCache' = Alt!Without(altCache, key)
    BY <1>7 DEF Alt!Lookup, usage
  <2> DEFINE key == Alt!CacheKey(off, usage)
             result == altCache[key].resolution
             hit == [pc |-> "resolved", keys |-> off, result |-> result, hit |-> TRUE]
             miss == [Alt!AltIdle EXCEPT !.pc = "insert", !.keys = off]
  <2>2. catalog = <<>> /\ Legal(off) /\ off \in SUBSET Keys
    BY <1>3, <1>4, <1>7 DEF Alt!Lookup
  <2>3. CASE key \in DOMAIN altCache /\ altCache[key].expires > slot
    <3>1. result \in ResolutionRecord /\ Filed(key, result)
      BY <1>2, <2>2, <2>3 DEF CacheTypes, CacheInv
    <3>2. Statistics(result, off, usage)
      BY <1>3, <2>2, <3>1, FiledIsOwn
    <3>3. hit \in AltState /\ hit.keys = off /\ hit.result = result
      BY <2>2, <3>1 DEF AltState
    <3>4. alt' = [alt EXCEPT ![t] = hit] /\ altCache' = altCache
      BY <2>1, <2>3 DEF Alt!Resolved
    <3> HIDE DEF hit, result
    <3>5. QED
      BY <1>5, <2>2, <3>2, <3>3, <3>4
  <2>4. CASE ~ (key \in DOMAIN altCache /\ altCache[key].expires > slot)
    <3>1. miss \in AltState /\ miss.keys = off /\ miss.pc = "insert"
      BY <2>2, NoResolution DEF AltState, Alt!AltIdle
    <3>2. alt' = [alt EXCEPT ![t] = miss] /\ altCache' = Alt!Without(altCache, key)
      BY <2>1, <2>4
    <3> HIDE DEF miss, key
    <3>3. QED
      BY <1>5, <2>2, <3>1, <3>2
  <2>5. QED
    BY <2>3, <2>4
<1>8. CASE Alt!Insert(t, metas)
  <2> DEFINE keys == alt[t].keys
             key == Alt!CacheKey(keys, usage)
             result == Alt!Resolution(keys, keys, usage)
             a == [pc |-> "resolved", keys |-> keys, result |-> result, hit |-> FALSE]
  <2>1. alt' = [alt EXCEPT ![t] = a] /\ altCache' = Alt!With(altCache, key, result)
    BY <1>8 DEF Alt!Insert, Alt!Resolved, usage
  <2>2. Legal(keys) /\ keys \in SUBSET Keys
    BY <1>2 DEF TableInv, usage, metas, AltState
  <2>3. result \in ResolutionRecord /\ Statistics(result, keys, usage)
    BY <2>2, NewResolution
  <2>4. result.tables = keys
    BY DEF Alt!Resolution
  <2>5. Filed(key, result)
    BY <1>3, <2>2, <2>3, <2>4, FiledIsOwn
  <2>6. a \in AltState /\ a.keys = keys /\ a.result = result
    BY <2>2, <2>3 DEF AltState
  <2> HIDE DEF a, result, key
  <2>7. QED
    BY <1>5, <2>1, <2>2, <2>3, <2>5, <2>6
<1>9. QED
  BY <1>1, <1>6, <1>7, <1>8 DEF Alt!ResolveStep

-----------------------------------------------------------------------------
(* The invariant is inductive.                                             *)

\* A task whose own state stays, in the same layer, keeps its part.
LEMMA OtherTask ==
    ASSUME NEW u \in Tasks, TaskInv(u),
           UNCHANGED <<layer, plan, feeOpts>>,
           UNCHANGED <<attempt[u], outcome[u], occ[u], fetches[u], alt[u], fee[u]>>,
           u \in refused' => u \in refused
    PROVE  TaskInv(u)'
<1>1. Running(u)' <=> Running(u)
  BY DEF Running
<1>2. CaptureInv(u)'
  BY <1>1 DEF TaskInv, CaptureInv, Occ!Fatal, Most
<1>3. Alt!UsageOf(ChunkOf(u).metas)' = Alt!UsageOf(ChunkOf(u).metas)
  BY DEF ChunkOf, Alt!UsageOf, Alt!Usage, Alt!MetasOf
<1>4. TableInv(u)'
  BY <1>3 DEF TaskInv, TableInv
<1>5. FeeInv(u)' /\ RestInv(u)' /\ StageInv(u)'
  BY <1>1 DEF TaskInv, FeeInv, RestInv, StageInv
<1>6. QED
  BY <1>2, <1>4, <1>5 DEF TaskInv

\* What a task that holds nothing has.
LEMMA IdleFacts ==
    /\ Alt!AltIdle \in AltState /\ Alt!AltIdle.keys = {} /\ Alt!AltIdle.pc = "idle"
    /\ Fees!FeeIdle \in [pc : {"idle"}, quote : Nat, price : Nat, used : Nat, limit : Nat]
    /\ Fees!FeeIdle.pc = "idle" /\ Fees!FeeIdle.used = 0
<1>1. Alt!NoTables \in ResolutionRecord
  BY DEF Alt!NoTables, ResolutionRecord
<1>2. QED
  BY <1>1 DEF Alt!AltIdle, AltState, Fees!FeeIdle

\* Of no keys everything holds.
LEMMA IdleTables ==
    ASSUME NEW t, alt[t] = Alt!AltIdle
    PROVE  TableInv(t)
<1>1. Cardinality({}) <= MaxAlt
  BY ConstantTypes, FS_EmptySet
<1>2. alt[t].keys = {} /\ alt[t].pc # "resolved"
  BY IdleFacts
<1>3. QED
  BY <1>1, <1>2 DEF TableInv

\* A step of a capture.
LEMMA CaptureKeeps ==
    ASSUME IInv, NEW t \in Tasks, Capture(t)
    PROVE  IInv'
<1>1. /\ UNCHANGED <<layer, plan, attempt, outcome, catalog, altCache, alt,
                     feeOpts, window, ema, lastOutput, fee>>
      /\ Running(t)
  BY DEF Capture, taskVars, altVars, feeVars
<1>2. CaptureTypes' /\ CaptureInv(t)' /\ CaptureFrame(t) /\ occ[t].pc # "ok"
  BY CaptureStep DEF IInv, TaskInv
<1>3. ASSUME NEW u \in Tasks
      PROVE  TaskInv(u)'
  <2>1. TaskInv(u)
    BY DEF IInv
  <2>2. CASE u = t
    <3>1. Alt!UsageOf(ChunkOf(t).metas)' = Alt!UsageOf(ChunkOf(t).metas)
      BY <1>1 DEF ChunkOf, Alt!UsageOf, Alt!Usage, Alt!MetasOf
    <3>2. TableInv(t)'
      BY <1>1, <2>1, <2>2, <3>1 DEF TaskInv, TableInv
    <3>3. FeeInv(t)' /\ RestInv(t)' /\ StageInv(t)'
      BY <1>1, <1>2, <2>1, <2>2 DEF TaskInv, FeeInv, RestInv, StageInv, Running
    <3>4. QED
      BY <1>2, <2>2, <3>2, <3>3 DEF TaskInv
  <2>3. CASE u # t
    <3>1. UNCHANGED <<occ[u], fetches[u]>> /\ (u \in refused' => u \in refused)
      BY <1>2, <2>3 DEF CaptureFrame
    <3>2. QED
      BY <1>1, <2>1, <3>1, OtherTask
  <2>4. QED
    BY <2>2, <2>3
<1>4. TaskTypes' /\ Alt!AltTypeOK' /\ Fees!FeeTypeOK' /\ CacheInv' /\ WindowInv'
  BY <1>1 DEF IInv, TaskTypes, Alt!AltTypeOK, Fees!FeeTypeOK, CacheInv, WindowInv
<1>5. QED
  BY <1>2, <1>3, <1>4 DEF IInv

\* A step of a resolution.
LEMMA ResolveKeeps ==
    ASSUME IInv, NEW t \in Tasks, Resolve(t)
    PROVE  IInv'
<1>1. /\ UNCHANGED <<layer, plan, attempt, outcome, fetcher, slot, occ, fetches, refused,
                     feeOpts, window, ema, lastOutput, fee>>
      /\ Running(t) /\ occ[t].pc = "ok"
  BY DEF Resolve, taskVars, occVars, feeVars
<1>2. /\ Alt!AltTypeOK' /\ CacheInv' /\ TableInv(t)'
      /\ \A u \in Tasks \ {t} : alt'[u] = alt[u]
  BY TableStep DEF IInv, TaskInv
<1>3. ASSUME NEW u \in Tasks
      PROVE  TaskInv(u)'
  <2>1. TaskInv(u)
    BY DEF IInv
  <2>2. CASE u = t
    <3>1. CaptureInv(t)'
      BY <1>1, <2>1, <2>2 DEF TaskInv, CaptureInv, Running, Occ!Fatal, Most
    <3>2. FeeInv(t)' /\ RestInv(t)' /\ StageInv(t)'
      BY <1>1, <2>1, <2>2 DEF TaskInv, FeeInv, RestInv, StageInv, Running
    <3>3. QED
      BY <1>2, <2>2, <3>1, <3>2 DEF TaskInv
  <2>3. CASE u # t
    BY <1>1, <1>2, <2>1, <2>3, OtherTask
  <2>4. QED
    BY <2>2, <2>3
<1>4. TaskTypes' /\ CaptureTypes' /\ Fees!FeeTypeOK' /\ WindowInv'
  BY <1>1 DEF IInv, TaskTypes, CaptureTypes, Fees!FeeTypeOK, WindowInv
<1>5. QED
  BY <1>2, <1>3, <1>4 DEF IInv

\* A step of the pricing.
LEMMA PriceKeeps ==
    ASSUME IInv, NEW t \in Tasks, PriceAndSimulate(t)
    PROVE  IInv'
<1>1. /\ UNCHANGED <<layer, plan, attempt, outcome, fetcher, slot, occ, fetches, refused,
                     catalog, altCache, alt>>
      /\ Running(t) /\ alt[t].pc = "resolved" /\ Fees!FeeStep(t)
  BY DEF PriceAndSimulate, taskVars, occVars, altVars
<1>2. Fees!FeeTypeOK' /\ WindowInv' /\ FeeInv(t)' /\ FeeFrame(t)
  BY <1>1, FeeStep DEF IInv, TaskInv
<1>3. ASSUME NEW u \in Tasks
      PROVE  TaskInv(u)'
  <2>1. TaskInv(u)
    BY DEF IInv
  <2>2. CASE u = t
    <3>1. CaptureInv(t)'
      BY <1>1, <2>1, <2>2 DEF TaskInv, CaptureInv, Running, Occ!Fatal, Most
    <3>2. Alt!UsageOf(ChunkOf(t).metas)' = Alt!UsageOf(ChunkOf(t).metas)
      BY <1>1 DEF ChunkOf, Alt!UsageOf, Alt!Usage, Alt!MetasOf
    <3>3. TableInv(t)'
      BY <1>1, <2>1, <2>2, <3>2 DEF TaskInv, TableInv
    <3>4. RestInv(t)' /\ StageInv(t)'
      BY <1>1, <2>1, <2>2 DEF TaskInv, RestInv, StageInv, Running
    <3>5. QED
      BY <1>2, <2>2, <3>1, <3>3, <3>4 DEF TaskInv
  <2>3. CASE u # t
    <3>1. UNCHANGED <<feeOpts, fee[u]>>
      BY <1>2, <2>3 DEF FeeFrame
    <3>2. QED
      BY <1>1, <2>1, <3>1, OtherTask
  <2>4. QED
    BY <2>2, <2>3
<1>4. TaskTypes' /\ CaptureTypes' /\ Alt!AltTypeOK' /\ CacheInv'
  BY <1>1 DEF IInv, TaskTypes, CaptureTypes, Alt!AltTypeOK, CacheInv
<1>5. QED
  BY <1>2, <1>3, <1>4 DEF IInv

\* An attempt ends: the next one may begin, of a chunk that was not refused, or
\* the task returns.
LEMMA EndKeeps ==
    ASSUME IInv, NEW t \in Tasks, Running(t), Drop(t),
           \/ /\ attempt[t] < MaxAttempts /\ t \notin refused
              /\ attempt' = [attempt EXCEPT ![t] = @ + 1] /\ UNCHANGED outcome
           \/ /\ \E o \in {"sent", "failed"} : outcome' = [outcome EXCEPT ![t] = o]
              /\ UNCHANGED attempt
    PROVE  IInv'
<1>1. /\ UNCHANGED <<layer, plan, fetcher, slot, fetches, refused, catalog, altCache,
                     feeOpts, window, ema, lastOutput>>
      /\ occ' = [occ EXCEPT ![t] = Occ!Idle] /\ alt' = [alt EXCEPT ![t] = Alt!AltIdle]
      /\ fee' = [fee EXCEPT ![t] = Fees!FeeIdle]
  BY DEF Drop
<1>2. /\ TaskTypes /\ CaptureTypes /\ Alt!AltTypeOK /\ Fees!FeeTypeOK
      /\ CacheInv /\ WindowInv /\ TaskInv(t)
  BY DEF IInv
<1>3. /\ alt \in [Tasks -> AltState] /\ attempt \in [Tasks -> 1..MaxAttempts]
      /\ outcome \in [Tasks -> {"running", "sent", "failed"}]
      /\ occ \in [Tasks -> CaptureRecord] /\ MaxAttempts \in Nat
      /\ fetches[t] \in Nat /\ occ[t].attempt \in Nat
  BY <1>2, ConstantTypes
     DEF Alt!AltTypeOK, AltState, ResolutionRecord, TaskTypes, CaptureTypes, CaptureRecord
<1>4. TaskTypes'
  <2>1. attempt' \in [Tasks -> 1..MaxAttempts]
    BY <1>3
  <2>2. outcome' \in [Tasks -> {"running", "sent", "failed"}]
    BY <1>3
  <2>3. QED
    BY <1>1, <1>2, <2>1, <2>2 DEF TaskTypes
<1>5. CaptureTypes'
  BY <1>1, <1>2, CaptureFacts DEF CaptureTypes
<1>6. Alt!AltTypeOK' /\ CacheInv'
  <2>1. alt' \in [Tasks -> AltState]
    BY <1>1, <1>3, IdleFacts
  <2>2. QED
    BY <1>1, <1>2, <2>1 DEF Alt!AltTypeOK, AltState, ResolutionRecord, CacheInv
<1>7. Fees!FeeTypeOK' /\ WindowInv'
  BY <1>1, <1>2, IdleFacts DEF Fees!FeeTypeOK, WindowInv
<1>8. /\ occ'[t] = Occ!Idle /\ alt'[t] = Alt!AltIdle /\ fee'[t] = Fees!FeeIdle
      /\ \A u \in Tasks \ {t} :
            /\ occ'[u] = occ[u] /\ alt'[u] = alt[u] /\ fee'[u] = fee[u]
            /\ attempt'[u] = attempt[u] /\ outcome'[u] = outcome[u]
  <2>1. occ'[t] = Occ!Idle /\ \A u \in Tasks \ {t} : occ'[u] = occ[u]
    BY <1>1, <1>3
  <2>2. alt'[t] = Alt!AltIdle /\ \A u \in Tasks \ {t} : alt'[u] = alt[u]
    BY <1>1, <1>3
  <2>3. fee'[t] = Fees!FeeIdle /\ \A u \in Tasks \ {t} : fee'[u] = fee[u]
    BY <1>1, <1>2 DEF Fees!FeeTypeOK
  <2>4. \A u \in Tasks \ {t} : attempt'[u] = attempt[u] /\ outcome'[u] = outcome[u]
    BY <1>3
  <2>5. QED
    BY <2>1, <2>2, <2>3, <2>4
<1>9. TaskInv(t)'
  <2>1. TableInv(t)'
    <3>1. Cardinality({}) <= MaxAlt
      BY ConstantTypes, FS_EmptySet
    <3>2. alt'[t].keys = {} /\ alt'[t].pc # "resolved"
      BY <1>8, IdleFacts
    <3>3. QED
      BY <3>1, <3>2 DEF TableInv
  <2>2. FeeInv(t)' /\ RestInv(t)' /\ StageInv(t)'
    <3>1. feeOpts.maxCu \in Nat
      BY <1>2, FeeNumbers
    <3>2. QED
      BY <1>1, <1>8, <3>1, IdleFacts DEF FeeInv, RestInv, StageInv
  <2>3. /\ fetches[t] <= attempt'[t] * Most
        /\ Running(t)' => fetches[t] <= (attempt'[t] - 1) * Most
    <3>1. fetches[t] <= attempt[t] * Most
      BY <1>2 DEF TaskInv, CaptureInv
    <3>2. CASE attempt' = attempt
      <4>1. \E o \in {"sent", "failed"} : outcome' = [outcome EXCEPT ![t] = o]
        BY <1>3, <3>2
      <4>2. ~ Running(t)'
        BY <1>3, <4>1 DEF Running
      <4>3. QED
        BY <3>1, <3>2, <4>2
    <3>3. CASE attempt' = [attempt EXCEPT ![t] = @ + 1]
      <4> DEFINE n == attempt[t]
      <4>1. attempt'[t] = n + 1 /\ n \in Nat /\ n + 1 \in Nat /\ (n + 1) - 1 = n
        BY <1>3, <3>3
      <4> HIDE DEF n
      <4>2. /\ ((n + 1) - 1) * Most + Most = (n + 1) * Most /\ n * Most \in Nat
            /\ Most \in Nat /\ (n + 1) * Most \in Nat
        BY <4>1, OneAttemptMore
      <4>3. n * Most <= (n + 1) * Most
        BY <4>1, <4>2
      <4>4. fetches[t] <= n * Most
        BY <3>1 DEF n
      <4>5. QED
        BY <1>3, <4>1, <4>2, <4>3, <4>4
    <3>4. QED
      BY <3>2, <3>3
  <2>4. t \in refused' => ~ Running(t)'
    BY <1>1, <1>3 DEF Running
  <2>5. CaptureInv(t)'
    <3>1. Most \in Nat /\ (attempt'[t] - 1) * Most \in Int
      <4>1. attempt'[t] \in Nat
        BY <1>4 DEF TaskTypes
      <4>2. QED
        BY <4>1, OneAttemptMore
    <3>2. /\ occ'[t].seen = <<>> /\ occ'[t].attempt = 0 /\ occ'[t].pc = "idle"
      BY <1>8, CaptureFacts
    <3>3. fetches'[t] = fetches[t] /\ fetches'[t] \in Nat
      BY <1>1, <1>3
    <3>4. Running(t)' => fetches'[t] <= (attempt'[t] - 1) * Most + occ'[t].attempt
      <4> DEFINE a == (attempt'[t] - 1) * Most
      <4>1. a \in Int
        BY <3>1
      <4>2. Running(t)' => fetches'[t] <= a
        BY <2>3, <3>3
      <4> HIDE DEF a
      <4>3. Running(t)' => fetches'[t] <= a + occ'[t].attempt
        BY <3>2, <4>1, <4>2
      <4>4. QED
        BY <4>3 DEF a
    <3>5. Most' = Most
      BY DEF Most
    <3>6. fetches'[t] <= attempt'[t] * Most
      BY <2>3, <3>3
    <3>7. occ'[t].attempt <= Most
      BY <3>1, <3>2
    <3>8. QED
      BY <2>4, <3>2, <3>4, <3>5, <3>6, <3>7 DEF CaptureInv
  <2>6. QED
    BY <2>1, <2>2, <2>5 DEF TaskInv
<1>10. ASSUME NEW u \in Tasks
       PROVE  TaskInv(u)'
  <2>1. TaskInv(u)
    BY DEF IInv
  <2>2. CASE u = t
    BY <1>9, <2>2
  <2>3. CASE u # t
    BY <1>1, <1>8, <2>1, <2>3, OtherTask
  <2>4. QED
    BY <2>2, <2>3
<1>11. QED
  BY <1>4, <1>5, <1>6, <1>7, <1>10 DEF IInv

\* A task that holds nothing, is in the first of its attempts and has fetched
\* nothing for its chunk, of whatever layer.
LEMMA FreshTask ==
    ASSUME NEW t \in Tasks, feeOpts.maxCu \in Nat,
           occ[t] = Occ!Idle, alt[t] = Alt!AltIdle, fee[t] = Fees!FeeIdle,
           attempt[t] = 1, fetches[t] = 0, t \notin refused
    PROVE  TaskInv(t)
<1>1. TableInv(t)
  BY IdleTables
<1>2. FeeInv(t) /\ RestInv(t) /\ StageInv(t)
  BY IdleFacts DEF FeeInv, RestInv, StageInv
<1>3. CaptureInv(t)
  <2>1. Most \in Nat /\ 1 * Most = Most /\ (1 - 1) * Most = 0
    BY ConstantTypes DEF Most
  <2> HIDE DEF Most
  <2>2. QED
    BY <2>1, CaptureFacts DEF CaptureInv
<1>4. QED
  BY <1>1, <1>2, <1>3 DEF TaskInv

\* The next layer begins when all have returned, so that none holds anything of
\* its former chunk.
LEMMA NextLayerKeeps ==
    ASSUME IInv, NextLayer
    PROVE  IInv'
<1>1. /\ layer < Layers /\ layer' = layer + 1
      /\ attempt' = [t \in Tasks |-> 1] /\ outcome' = [t \in Tasks |-> "running"]
      /\ window' = IF PerScope THEN <<>> ELSE window
      /\ fetches' = [t \in Tasks |-> 0] /\ refused' = {}
      /\ UNCHANGED <<plan, fetcher, slot, occ, catalog, altCache, alt,
                     feeOpts, ema, lastOutput, fee>>
      /\ \A t \in Tasks : ~ Running(t)
  BY DEF NextLayer, altVars
<1>2. /\ TaskTypes /\ CaptureTypes /\ Alt!AltTypeOK /\ Fees!FeeTypeOK
      /\ CacheInv /\ WindowInv
  BY DEF IInv
<1>3. TaskTypes'
  BY <1>1, <1>2, ConstantTypes DEF TaskTypes
<1>4. CaptureTypes' /\ Alt!AltTypeOK' /\ CacheInv'
  BY <1>1, <1>2 DEF CaptureTypes, Alt!AltTypeOK, CacheInv
<1>5. Fees!FeeTypeOK' /\ WindowInv'
  <2>1. <<>> \in Seq(Consumed) /\ Len(<<>>) = 0 /\ DOMAIN <<>> = {} /\ WindowCap \in Nat
    BY ConstantTypes
  <2>2. window' = <<>> \/ window' = window
    BY <1>1
  <2>3. QED
    BY <1>1, <1>2, <2>1, <2>2 DEF Fees!FeeTypeOK, WindowInv
<1>6. ASSUME NEW t \in Tasks
      PROVE  TaskInv(t)'
  <2>1. occ[t] = Occ!Idle /\ alt[t] = Alt!AltIdle /\ fee[t] = Fees!FeeIdle
    BY <1>1 DEF IInv, TaskInv, RestInv
  <2>2. feeOpts.maxCu \in Nat
    BY <1>2, FeeNumbers
  <2>3. /\ occ'[t] = Occ!Idle /\ alt'[t] = Alt!AltIdle /\ fee'[t] = Fees!FeeIdle
        /\ attempt'[t] = 1 /\ fetches'[t] = 0 /\ t \notin refused'
        /\ (feeOpts.maxCu)' \in Nat
    BY <1>1, <2>1, <2>2
  <2>4. TableInv(t)'
    <3>1. Cardinality({}) <= MaxAlt
      BY ConstantTypes, FS_EmptySet
    <3>2. alt'[t].keys = {} /\ alt'[t].pc # "resolved"
      BY <2>3, IdleFacts
    <3>3. QED
      BY <3>1, <3>2 DEF TableInv
  <2>5. FeeInv(t)' /\ RestInv(t)' /\ StageInv(t)'
    BY <2>3, IdleFacts DEF FeeInv, RestInv, StageInv
  <2>6. CaptureInv(t)'
    <3>1. Most \in Nat /\ 1 * Most = Most /\ (1 - 1) * Most = 0
      BY ConstantTypes DEF Most
    <3>2. Most' = Most
      BY DEF Most
    <3> HIDE DEF Most
    <3>3. QED
      BY <2>3, <3>1, <3>2, CaptureFacts DEF CaptureInv
  <2>7. QED
    BY <2>4, <2>5, <2>6 DEF TaskInv
<1>7. QED
  BY <1>3, <1>4, <1>5, <1>6 DEF IInv

\* The clock ticks.
LEMMA TickKeeps ==
    ASSUME IInv, Tick
    PROVE  IInv'
<1>1. /\ slot < MaxSlot /\ slot' = slot + 1
      /\ UNCHANGED <<layer, plan, attempt, outcome, fetcher, occ, fetches, refused,
                     catalog, altCache, alt, feeOpts, window, ema, lastOutput, fee>>
  BY DEF Tick, Occ!Tick, taskVars, altVars, feeVars
<1>2. CaptureTypes'
  BY <1>1, ConstantTypes DEF IInv, CaptureTypes
<1>3. TaskTypes' /\ Alt!AltTypeOK' /\ Fees!FeeTypeOK' /\ CacheInv' /\ WindowInv'
  BY <1>1 DEF IInv, TaskTypes, Alt!AltTypeOK, Fees!FeeTypeOK, CacheInv, WindowInv
<1>4. ASSUME NEW u \in Tasks
      PROVE  TaskInv(u)'
  BY <1>1, OtherTask DEF IInv
<1>5. QED
  BY <1>2, <1>3, <1>4 DEF IInv

\* The initial states.
LEMMA InvInit == Init => IInv
<1> SUFFICES ASSUME Init
             PROVE  IInv
  OBVIOUS
<1>1. /\ layer = 1 /\ plan \in [Tasks -> [1..Layers -> Chunks]]
      /\ attempt = [t \in Tasks |-> 1] /\ outcome = [t \in Tasks |-> "running"]
      /\ fetcher \in {"rpc", "other"} /\ slot \in 0..MaxSlot
      /\ occ = [t \in Tasks |-> Occ!Idle]
      /\ fetches = [t \in Tasks |-> 0] /\ refused = {}
      /\ catalog \in Catalogs /\ altCache = <<>> /\ alt = [t \in Tasks |-> Alt!AltIdle]
      /\ feeOpts \in FeeOptions /\ window = <<>> /\ ema = -1 /\ lastOutput = -1
      /\ fee = [t \in Tasks |-> Fees!FeeIdle]
  BY DEF Init, Occ!OccInit, Alt!AltInit, Fees!FeeInit, Fees!None
<1>2. TaskTypes
  BY <1>1, ConstantTypes DEF TaskTypes
<1>3. CaptureTypes
  BY <1>1, CaptureFacts DEF CaptureTypes
<1>4. DOMAIN altCache = {}
  BY <1>1
<1>5. Alt!AltTypeOK /\ CacheInv
  BY <1>1, <1>4, IdleFacts DEF Alt!AltTypeOK, AltState, ResolutionRecord, CacheInv
<1>6. Fees!FeeTypeOK /\ WindowInv
  <2>1. <<>> \in Seq(Consumed) /\ Len(<<>>) = 0 /\ DOMAIN <<>> = {} /\ WindowCap \in Nat
    BY ConstantTypes
  <2>2. QED
    BY <1>1, <2>1, IdleFacts DEF Fees!FeeTypeOK, WindowInv, Fees!None
<1>7. ASSUME NEW t \in Tasks
      PROVE  TaskInv(t)
  <2>1. feeOpts.maxCu \in Nat
    BY <1>6, FeeNumbers
  <2>2. QED
    BY <1>1, <2>1, FreshTask
<1>8. QED
  BY <1>2, <1>3, <1>5, <1>6, <1>7 DEF IInv

\* Every step.
LEMMA InvStep == IInv /\ [Next]_vars => IInv'
<1> SUFFICES ASSUME IInv, [Next]_vars
             PROVE  IInv'
  OBVIOUS
<1>1. ASSUME NEW t \in Tasks, TaskStep(t)
      PROVE  IInv'
  <2>1. /\ TaskInv(t) /\ attempt[t] \in Nat
        /\ occ[t].pc # "failed" => t \notin refused \/ ~ Running(t)
    BY ConstantTypes DEF IInv, TaskInv, CaptureInv, TaskTypes
  <2>2. ASSUME NEW retriable \in BOOLEAN, AttemptFails(t, retriable), Running(t),
               retriable => t \notin refused
        PROVE  IInv'
    <3>1. /\ Drop(t)
          /\ \/ /\ attempt[t] < MaxAttempts /\ t \notin refused
                /\ attempt' = [attempt EXCEPT ![t] = @ + 1] /\ UNCHANGED outcome
             \/ /\ \E o \in {"sent", "failed"} : outcome' = [outcome EXCEPT ![t] = o]
                /\ UNCHANGED attempt
      BY <2>2 DEF AttemptFails
    <3>2. QED
      BY <2>2, <3>1, EndKeeps
  <2>3. CASE Capture(t)
    BY <2>3, CaptureKeeps
  <2>4. CASE Resolve(t)
    BY <2>4, ResolveKeeps
  <2>5. CASE PriceAndSimulate(t)
    BY <2>5, PriceKeeps
  <2>6. CASE CaptureFailed(t)
    <3>1. RetriableCapture(occ[t].error) \in BOOLEAN
          /\ (RetriableCapture(occ[t].error) => t \notin refused)
      BY <2>1, <2>6 DEF CaptureFailed, RetriableCapture, TaskInv, CaptureInv
    <3>2. QED
      BY <2>2, <2>6, <3>1 DEF CaptureFailed
  <2>7. CASE LeaseFailed(t)
    <3>1. t \notin refused
      BY <2>1, <2>7 DEF LeaseFailed, TaskInv, StageInv
    <3>2. QED
      BY <2>2, <2>7, <3>1 DEF LeaseFailed
  <2>8. CASE SendFailed(t)
    <3>1. t \notin refused
      BY <2>1, <2>8 DEF SendFailed, TaskInv, StageInv
    <3>2. QED
      BY <2>2, <2>8, <3>1 DEF SendFailed
  <2>9. CASE SendPanicked(t)
    BY <2>2, <2>9 DEF SendPanicked
  <2>10. CASE Sent(t)
    BY <2>10, EndKeeps DEF Sent
  <2>11. QED
    BY <1>1, <2>3, <2>4, <2>5, <2>6, <2>7, <2>8, <2>9, <2>10 DEF TaskStep
<1>2. CASE NextLayer
  BY <1>2, NextLayerKeeps
<1>3. CASE Tick
  BY <1>3, TickKeeps
<1>4. CASE UNCHANGED vars
  <2>1. UNCHANGED <<layer, plan, attempt, outcome, fetcher, slot, occ, fetches, refused,
                    catalog, altCache, alt, feeOpts, window, ema, lastOutput, fee>>
    BY <1>4 DEF vars, taskVars, occVars, altVars, feeVars
  <2>2. ASSUME NEW u \in Tasks
        PROVE  TaskInv(u)'
    BY <2>1, OtherTask DEF IInv
  <2>3. QED
    BY <2>1, <2>2
       DEF IInv, TaskTypes, CaptureTypes, Alt!AltTypeOK, Fees!FeeTypeOK, CacheInv, WindowInv
<1>5. QED
  BY <1>1, <1>2, <1>3, <1>4 DEF Next, Terminated

\* The invariant holds of every state.
THEOREM InductiveInvariant == Spec => []IInv
<1>1. QED
  BY InvInit, InvStep, PTL DEF Spec

-----------------------------------------------------------------------------
(* The theorems.                                                           *)

\* The state keeps its types: no attempt is one too many, no window too long, and
\* a snapshot is of the accounts it was asked for.
THEOREM TypeCorrect == Spec => []TypeOK
<1>1. IInv => TypeOK
  <2> SUFFICES ASSUME IInv
               PROVE  TypeOK
    OBVIOUS
  <2>1. ASSUME NEW t \in Tasks
        PROVE  /\ occ[t].pc \in {"idle", "latest", "fetch", "backoff", "ok", "failed"}
               /\ occ[t].targets \subseteq Keys /\ occ[t].attempt \in Nat
               /\ occ[t].latest \in 0..MaxSlot
               /\ occ[t].seen = <<>> \/ occ[t].seen \in [occ[t].targets -> 0..MaxSlot]
               /\ occ[t].error \in Occ!Errors \cup {"none"}
    <3>1. occ[t] \in CaptureRecord /\ CaptureInv(t)
      BY DEF IInv, CaptureTypes, TaskInv
    <3>2. QED
      BY <3>1 DEF CaptureRecord, CaptureInv
  <2>2. Occ!OccTypeOK
    BY <2>1 DEF IInv, CaptureTypes, Occ!OccTypeOK
  <2>3. QED
    BY <2>2 DEF IInv, TaskTypes, TypeOK
<1>2. QED
  BY <1>1, InductiveInvariant, PTL

\* The retries of the capture and those of the chunk multiply, and no more.
THEOREM FetchesAreBounded == Spec => []FetchesBounded
<1>1. IInv => FetchesBounded
  BY DEF IInv, TaskInv, CaptureInv, FetchesBounded, Most
<1>2. QED
  BY <1>1, InductiveInvariant, PTL

\* Neither of the loops asks again after an answer that no retry can change.
THEOREM RefusalIsFinal == Spec => FatalIsFinal
<1>1. ASSUME IInv, [Next]_vars, NEW t \in Tasks, t \in refused, layer' = layer
      PROVE  fetches'[t] = fetches[t]
  <2>1. ASSUME NEW u \in Tasks, Capture(u)
        PROVE  fetches'[t] = fetches[t]
    <3>1. TaskTypes /\ CaptureTypes /\ CaptureInv(u)
      BY <1>1 DEF IInv, TaskInv
    <3>2. CaptureFrame(u)
      BY <2>1, <3>1, CaptureStep
    <3>3. QED
      BY <1>1, <3>2 DEF CaptureFrame
  <2>2. ASSUME NEW u \in Tasks, TaskStep(u), ~ Capture(u)
        PROVE  fetches' = fetches
    BY <2>2 DEF TaskStep, Resolve, PriceAndSimulate, CaptureFailed, LeaseFailed,
                SendFailed, SendPanicked, Sent, AttemptFails, Drop, occVars
  <2>3. ~ NextLayer
    BY <1>1, ConstantTypes DEF NextLayer, IInv, TaskTypes
  <2>4. Tick \/ UNCHANGED vars => fetches' = fetches
    BY DEF Tick, Occ!Tick, vars, occVars
  <2>5. QED
    BY <1>1, <2>1, <2>2, <2>3, <2>4 DEF Next, Terminated
<1>2. IInv /\ [Next]_vars
        => [\A t \in Tasks :
              t \in refused /\ layer' = layer => fetches'[t] = fetches[t]]_vars
  BY <1>1
<1>3. QED
  BY <1>2, InductiveInvariant, PTL DEF Spec, FatalIsFinal

\* Whoever filled the cache, for whatever chunk, a resolution is of the keys and
\* the flags of the task's own chunk.
THEOREM ResolutionsAreOwn == Spec => []ResolutionIsOwn
<1>1. IInv => ResolutionIsOwn
  <2> SUFFICES ASSUME IInv, NEW t \in Tasks, alt[t].pc = "resolved"
               PROVE  /\ alt[t].result.offloaded = alt[t].keys
                      /\ alt[t].keys \subseteq alt[t].result.tables
                      /\ alt[t].result.writable =
                            Alt!Cardinality({k \in alt[t].keys :
                                \E m \in Alt!MetasOf(Metas[t], k) : m.writable})
                      /\ alt[t].result.writable + alt[t].result.readonly
                            = Alt!Cardinality(alt[t].keys)
    BY DEF ResolutionIsOwn, Alt!ResolutionIsOwn
  <2> DEFINE metas == ChunkOf(t).metas
             usage == Alt!UsageOf(metas)
             keys == alt[t].keys
             written == {k \in keys : usage[k].writable}
             read == {k \in keys : ~ usage[k].writable}
  <2>1. /\ TaskTypes /\ keys \subseteq DOMAIN usage /\ alt[t].result.offloaded = keys
        /\ keys \subseteq alt[t].result.tables
        /\ alt[t].result.writable = Cardinality(written)
        /\ alt[t].result.readonly = Cardinality(read)
    BY DEF IInv, TaskInv, TableInv
  <2>2. /\ Metas[t] = metas
        /\ metas \in Seq([key : Keys, writable : BOOLEAN, signer : BOOLEAN])
    BY <2>1, ChunkMetas DEF Metas
  <2>3. written = {k \in keys : \E m \in Alt!MetasOf(Metas[t], k) : m.writable}
    <3>1. \A k \in keys :
            usage[k].writable <=> \E m \in Alt!MetasOf(metas, k) : m.writable
      BY <2>1, <2>2, UsageFacts
    <3>2. QED
      BY <2>2, <3>1
  <2>4. keys \in SUBSET Keys
    BY <2>1, <2>2, UsageFacts
  <2>5. Cardinality(written) + Cardinality(read) = Cardinality(keys)
    <3>1. written \in SUBSET Keys /\ read \in SUBSET Keys
      BY <2>4
    <3>2. written \cup read = keys /\ written \cap read = {}
      OBVIOUS
    <3> HIDE DEF written, read, keys
    <3>3. QED
      BY <3>1, <3>2, TwoParts
  <2> HIDE DEF written, read
  <2>6. QED
    BY <2>1, <2>3, <2>5, SameCardinality
<1>2. QED
  BY <1>1, InductiveInvariant, PTL

\* No signer and no payer is left to a table, and never more than the policy allows.
THEOREM OffloadsAreSound == Spec => []OffloadIsSound
<1>1. IInv => OffloadIsSound
  <2> SUFFICES ASSUME IInv, NEW t \in Tasks
               PROVE  /\ Payer \notin alt[t].keys
                      /\ \A k \in alt[t].keys : \A m \in Alt!MetasOf(Metas[t], k) : ~ m.signer
                      /\ Alt!Cardinality(alt[t].keys) <= MaxAlt
    BY DEF OffloadIsSound, Alt!OffloadIsSound
  <2> DEFINE metas == ChunkOf(t).metas
             usage == Alt!UsageOf(metas)
  <2>1. /\ TaskTypes /\ alt[t].keys \subseteq DOMAIN usage
        /\ \A k \in alt[t].keys : ~ usage[k].signer
        /\ Cardinality(alt[t].keys) <= MaxAlt
    BY DEF IInv, TaskInv, TableInv
  <2>2. /\ Metas[t] = metas
        /\ metas \in Seq([key : Keys, writable : BOOLEAN, signer : BOOLEAN])
    BY <2>1, ChunkMetas DEF Metas
  <2>3. /\ Payer \notin DOMAIN usage
        /\ \A k \in DOMAIN usage :
              usage[k].signer <=> \E m \in Alt!MetasOf(metas, k) : m.signer
    BY <2>2, UsageFacts
  <2> HIDE DEF usage, metas
  <2>4. QED
    BY <2>1, <2>2, <2>3, SameCardinality
<1>2. QED
  BY <1>1, InductiveInvariant, PTL

\* Whatever others put into the window, the limit that is sent covers what the
\* task's simulation used and stays within the oracle's.
THEOREM LimitsCoverUse == Spec => []LimitCoversUse
<1>1. IInv => LimitCoversUse
  BY DEF IInv, TaskInv, FeeInv, LimitCoversUse, Fees!LimitCoversUse
<1>2. QED
  BY <1>1, InductiveInvariant, PTL

\* In whatever order tasks report the fees they fetched, the price moves by the
\* hysteresis or stays.
THEOREM PricesKeepHysteresis == Spec => PriceHysteresis
<1>1. IInv /\ [Next]_vars => PriceMove
  <2> SUFFICES ASSUME IInv, [Next]_vars
               PROVE  PriceMove
    OBVIOUS
  <2>1. ASSUME NEW u \in Tasks, PriceAndSimulate(u)
        PROVE  PriceMove
    BY <2>1, FeeStep DEF IInv, TaskInv, PriceAndSimulate
  <2>2. ASSUME NEW u \in Tasks, TaskStep(u), ~ PriceAndSimulate(u)
        PROVE  lastOutput' = lastOutput
    BY <2>2 DEF TaskStep, Capture, Resolve, CaptureFailed, LeaseFailed,
                SendFailed, SendPanicked, Sent, AttemptFails, Drop, feeVars
  <2>3. NextLayer \/ Tick \/ UNCHANGED vars => lastOutput' = lastOutput
    BY DEF NextLayer, Tick, vars, feeVars
  <2>4. QED
    BY <2>1, <2>2, <2>3 DEF Next, Terminated, PriceMove
<1>2. IInv /\ [Next]_vars
        => [lastOutput # Fees!None /\ lastOutput' # lastOutput =>
              LET bigger == Fees!Higher(lastOutput, lastOutput')
                  smaller == Fees!Lower(lastOutput, lastOutput')
              IN  (bigger - smaller) * 10000
                    >= feeOpts.hysteresis * bigger]_(Fees!feeVars)
  BY <1>1 DEF PriceMove
<1>3. QED
  BY <1>2, InductiveInvariant, PTL DEF Spec, PriceHysteresis, Fees!PriceHysteresis

=============================================================================
