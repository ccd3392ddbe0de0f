------------------------ MODULE ChunkPlanner_proofs ------------------------
(***************************************************************************)
(* Proofs about ChunkPlanner, for layers of any length, instructions of    *)
(* any size and any budgets and policies.                                  *)
(***************************************************************************)
EXTENDS ChunkPlanner, FiniteSetTheorems, WellFoundedInduction, TLAPS

-----------------------------------------------------------------------------
(* The invariant.                                                          *)

\* How many of some keys are in the message, and the bytes that some keys take.
InMessage(k) == IF opts.alt THEN Lesser(k, opts.reserve) ELSE k
KeyCost(k) == KeyBytes * InMessage(k) + IndexBytes * (k - InMessage(k))

\* The CU and the bytes of some intents of a layer.
CuIn(l, nodes) == MapThenSumSet(LAMBDA i : l[i].cu, nodes)
BytesIn(l, nodes) == MapThenSumSet(LAMBDA i : l[i].bytes, nodes)
SumCu(nodes) == CuIn(layer, nodes)
SumBytes(nodes) == BytesIn(layer, nodes)

\* The last intent in the first i chunks or plans of a list.
End(list, i) == IF i = 0 THEN 0 ELSE list[i].nodes[Len(list[i].nodes)]

\* Each chunk or plan goes on where the one before ends, intent by intent.
Chained(list) ==
    \A i \in DOMAIN list :
        \A k \in DOMAIN list[i].nodes : list[i].nodes[k] = End(list, i - 1) + k

\* A chunk or plan that would go on where a list ends.
GoesOn(list, nodes) ==
    \A k \in DOMAIN nodes : nodes[k] = End(list, Len(list)) + k

\* The intents of a chunk or plan need no more bytes than it is said to have,
\* with so many overheads.
BytesCover(c, overheads) ==
    overheads * (BaseBytes + opts.slack)
        + KeyCost(Cardinality(UnionOfKeys(NodesOf(c)))) + SumBytes(NodesOf(c))
      <= c.bytes

\* A chunk, or the accumulator once it is not empty, is within the budgets.
WithinBudget(c) ==
    LET keys == Cardinality(UnionOfKeys(NodesOf(c)))
    IN  /\ Len(c.nodes) <= opts.maxInstrs
        /\ InMessage(keys) <= opts.maxKeys
        /\ opts.maxKeys <= opts.reserve + opts.maxAlt => keys - InMessage(keys) <= opts.maxAlt
        /\ c.cu = SumCu(NodesOf(c)) /\ c.cu <= opts.maxCu
        /\ BytesCover(c, 1) /\ c.bytes <= opts.maxBytes

\* The accumulator's keys are those of its intents, the message being filled
\* before the tables; and every intent brought a key, if any goes there.
AccInv(a) ==
    LET keys == UnionOfKeys(NodesOf(a))
    IN  /\ a.message \cup a.alt = keys
        /\ a.message \cap a.alt = {}
        /\ Cardinality(a.message) = InMessage(Cardinality(keys))
        /\ IF a.nodes = <<>> THEN a = Empty ELSE WithinBudget(a)
        /\ (opts.alt => opts.reserve > 0) =>
              BaseBytes + opts.slack + KeyBytes * Len(a.nodes) <= a.bytes

\* Chunks that are made: one after the other, of the layer, within the budgets.
ChunksInv(list) ==
    /\ Chained(list)
    /\ \A c \in DOMAIN list :
          NodesOf(list[c]) \subseteq DOMAIN layer /\ WithinBudget(list[c])

\* The chunks that a plan joins.
PartsOf(p) == {p.index} \cup {p.merged[k] : k \in DOMAIN p.merged}

\* None of the intents of a chunk writes what one of the other accesses.
Apart(a, b) ==
    \A i \in NodesOf(a), j \in NodesOf(b) :
        AccountsOf(layer[i]) \cap layer[j].writes = {}

\* A plan holds the chunks it is made of, none of which is in another's way,
\* and says of itself no less than it is.
PlanInv(list, p) ==
    /\ \A a \in PartsOf(p) :
          a \in DOMAIN list /\ NodesOf(list[a]) \subseteq NodesOf(p)
    /\ \A a, b \in PartsOf(p) : a # b => Apart(list[a], list[b])
    /\ NodesOf(p) \subseteq DOMAIN layer
    /\ IF p.merged = <<>>
       THEN BytesCover(p, 1) /\ p.bytes <= opts.maxBytes
       ELSE opts.merge /\ BytesCover(p, 2) /\ p.bytes <= opts.maxMessage

\* How far packing and merging have come.
ProgressInv ==
    /\ phase = "pack" =>
          /\ GoesOn(chunks, acc.nodes)
          /\ next = End(chunks, Len(chunks)) + Len(acc.nodes) + 1
          /\ next <= Len(layer) + 1
    /\ phase \in {"merge", "done"} => End(chunks, Len(chunks)) = Len(layer)
    /\ phase \in {"pack", "failed"} => plans = <<>>
    /\ phase = "merge" =>
          /\ opts.merge /\ next \in 2 .. Len(chunks) + 1
          /\ head.nodes # <<>> /\ GoesOn(plans, head.nodes) /\ PlanInv(chunks, head)
          /\ End(plans, Len(plans)) + Len(head.nodes) = End(chunks, next - 1)
    /\ phase = "done" => End(plans, Len(plans)) = Len(layer)

\* The plans go on from each other, and each is sound.
PlansInv == Chained(plans) /\ \A p \in DOMAIN plans : PlanInv(chunks, plans[p])

\* Under a roomy budget neighbours do not fit together, so that the head has
\* taken no other chunk in.
Tight(list) == \A c \in 1 .. Len(list) - 1 : ~ FitsMerged(list[c], list[c + 1])

TightInv ==
    RoomyBudget =>
        /\ Tight(chunks)
        /\ phase = "pack" /\ chunks # <<>> => ~ FitsMerged(chunks[Len(chunks)], acc)
        /\ phase = "merge" => /\ head.merged = <<>>
                              /\ head.cu = chunks[next - 1].cu
                              /\ head.bytes = chunks[next - 1].bytes
        /\ \A p \in DOMAIN plans : plans[p].merged = <<>>

\* The invariant of the planner.
PlannerInv ==
    /\ PlannerTypeOK
    /\ AccInv(acc)
    /\ ChunksInv(chunks)
    /\ PlansInv
    /\ ProgressInv
    /\ TightInv

-----------------------------------------------------------------------------
(* Induction by the least counterexample.                                  *)

\* A set of naturals that is not empty has a least element.
LEMMA LeastOf ==
    ASSUME NEW S \in SUBSET Nat, S # {}
    PROVE  \E m \in S : \A k \in S : m <= k
<1> DEFINE Less == OpToRel(<, Nat)
<1>1. Less = {ss \in Nat \X Nat : ss[1] < ss[2]}
  BY DEF OpToRel
<1>2. PICK m \in S : \A k \in S : ~ (<<k, m>> \in Less)
  <2> HIDE DEF Less
  <2>1. IsWellFoundedOn(Less, Nat)
    BY NatLessThanWellFounded DEF Less
  <2>2. QED
    BY <2>1, WFMin
<1>3. ASSUME NEW k \in S
      PROVE  m <= k
  <2> HIDE DEF Less
  <2>1. k \in Nat /\ m \in Nat /\ <<k, m>> \in Nat \X Nat
    OBVIOUS
  <2>2. ~ (k < m)
    BY <1>1, <1>2, <2>1
  <2>3. QED
    BY <2>1, <2>2
<1>4. QED
  BY <1>3

\* A set of naturals up to a bound has a greatest element.
LEMMA GreatestOf ==
    ASSUME NEW S \in SUBSET Nat, S # {}, NEW b \in Nat, \A k \in S : k <= b
    PROVE  \E m \in S : \A k \in S : k <= m
<1> DEFINE U == {m \in Nat : \A k \in S : k <= m}
<1>1. b \in U
  OBVIOUS
<1>2. PICK m \in U : \A k \in U : m <= k
  BY <1>1, LeastOf
<1>3. m \in S
  <2> SUFFICES ASSUME m \notin S
               PROVE  FALSE
    OBVIOUS
  <2>1. \A k \in S : k < m
    BY <1>2
  <2>2. PICK k \in S : TRUE
    OBVIOUS
  <2>3. m - 1 \in Nat
    BY <2>1, <2>2
  <2>4. \A l \in S : l <= m - 1
    BY <2>1
  <2>5. m - 1 \in U
    BY <2>3, <2>4
  <2>6. QED
    BY <1>2, <2>5
<1>4. QED
  BY <1>2, <1>3

-----------------------------------------------------------------------------
(* Counting.                                                               *)

\* How many of a finite set stand on the first m places, if they are ranked by
\* distinct numbers: m, or all of them if there are fewer.
LEMMA FirstPlaces ==
    ASSUME NEW N, IsFiniteSet(N), NEW f, \A k \in N : f[k] \in Nat,
           \A j, k \in N : f[j] = f[k] => j = k, NEW m \in Nat
    PROVE  Cardinality({k \in N : Cardinality({j \in N : f[j] < f[k]}) < m}) =
              Lesser(Cardinality(N), m)
<1> DEFINE Places(S) == {k \in S : Cardinality({j \in S : f[j] < f[k]}) < m}
           Wrong(S) == Cardinality(Places(S)) # Lesser(Cardinality(S), m)
           Sizes == {n \in Nat : \E S \in SUBSET N : Cardinality(S) = n /\ Wrong(S)}
<1>1. \A S \in SUBSET N : IsFiniteSet(S) /\ Cardinality(S) \in Nat
  BY FS_Subset, FS_CardinalityType
<1>2. SUFFICES ASSUME Wrong(N)
               PROVE  FALSE
  OBVIOUS
<1>3. Cardinality(N) \in Sizes
  BY <1>1, <1>2
<1>4. PICK n \in Sizes : \A k \in Sizes : n <= k
  <2> Sizes \in SUBSET Nat /\ Sizes # {}
    BY <1>3
  <2> HIDE DEF Sizes
  <2> QED
    BY LeastOf
<1>5. PICK S \in SUBSET N : Cardinality(S) = n /\ Wrong(S)
  BY <1>4
<1>6. S # {}
  <2> SUFFICES ASSUME S = {}
               PROVE  FALSE
    OBVIOUS
  <2>1. Places(S) = {}
    OBVIOUS
  <2>2. Cardinality(S) = 0 /\ Cardinality(Places(S)) = 0
    BY <2>1, FS_EmptySet
  <2>3. QED
    BY <1>5, <2>2 DEF Lesser
<1>7. PICK last \in S : \A k \in S : f[k] <= f[last]
  <2> DEFINE Above(k) == {j \in S : f[k] < f[j]}
             Numbers == {r \in Nat : \E k \in S : Cardinality(Above(k)) = r}
  <2>1. \A k \in S : Cardinality(Above(k)) \in Nat
    <3> TAKE k \in S
    <3> Above(k) \in SUBSET N
      OBVIOUS
    <3> QED
      BY <1>1
  <2>2. PICK r \in Numbers : \A q \in Numbers : r <= q
    <3>1. Numbers \in SUBSET Nat /\ Numbers # {}
      <4>1. PICK k \in S : TRUE
        BY <1>6
      <4>2. Cardinality(Above(k)) \in Numbers
        BY <2>1
      <4>3. QED
        BY <4>2
    <3> HIDE DEF Numbers
    <3> QED
      BY <3>1, LeastOf
  <2>3. PICK k \in S : Cardinality(Above(k)) = r
    BY <2>2
  <2>4. Above(k) = {}
    <3> SUFFICES ASSUME NEW j \in S, f[k] < f[j]
                 PROVE  FALSE
      OBVIOUS
    <3>1. Above(j) \subseteq Above(k) /\ j \in Above(k) /\ j \notin Above(j)
      <4>1. \A i \in S : f[i] \in Nat
        OBVIOUS
      <4>2. QED
        BY <4>1
    <3>2. IsFiniteSet(Above(k)) /\ Above(k) \in SUBSET N
      <4>1. Above(k) \in SUBSET N
        OBVIOUS
      <4>2. QED
        BY <1>1, <4>1
    <3> HIDE DEF Above
    <3>3. /\ Cardinality(Above(j)) <= Cardinality(Above(k))
          /\ Cardinality(Above(j)) # Cardinality(Above(k))
      BY <3>1, <3>2, FS_Subset
    <3>4. Cardinality(Above(j)) \in Numbers
      BY <2>1
    <3>5. r <= Cardinality(Above(j)) /\ Cardinality(Above(j)) \in Nat
      BY <2>1, <2>2, <3>4
    <3>6. QED
      BY <2>1, <2>3, <3>3, <3>5
  <2>5. QED
    BY <2>4
<1> DEFINE R == S \ {last}
<1>8. R \in SUBSET N /\ Cardinality(R) = n - 1 /\ n - 1 \in Nat
  <2>1. IsFiniteSet(S) /\ R \in SUBSET N
    BY <1>1
  <2>2. Cardinality(R) = Cardinality(S) - 1
    BY <2>1, FS_RemoveElement
  <2>3. Cardinality(R) \in Nat
    BY <1>1, <2>1
  <2>4. QED
    BY <1>5, <2>1, <2>2, <2>3
<1>9. Cardinality(Places(R)) = Lesser(n - 1, m)
  <2>1. ~ (n - 1 \in Sizes)
    <3>1. n \in Nat /\ ~ (n <= n - 1)
      OBVIOUS
    <3> HIDE DEF Sizes
    <3>2. QED
      BY <1>4, <3>1
  <2>2. ~ Wrong(R)
    BY <1>8, <2>1
  <2>3. QED
    BY <1>8, <2>2
<1>10. \A k \in R : {j \in S : f[j] < f[k]} = {j \in R : f[j] < f[k]}
  BY <1>7
<1>11. {j \in S : f[j] < f[last]} = R
  BY <1>7
<1>12. Places(S) = IF n - 1 < m THEN Places(R) \cup {last} ELSE Places(R)
  <2>1. \A k \in R : k \in Places(S) <=> k \in Places(R)
    BY <1>10
  <2>2. last \in Places(S) <=> n - 1 < m
    BY <1>8, <1>11
  <2>3. Places(S) \subseteq S /\ Places(R) \subseteq R
    OBVIOUS
  <2> HIDE DEF Places
  <2>4. QED
    BY <2>1, <2>2, <2>3
<1>13. /\ IsFiniteSet(Places(R)) /\ last \notin Places(R)
       /\ Cardinality(Places(R)) \in Nat
  <2>1. Places(R) \in SUBSET N
    OBVIOUS
  <2>2. QED
    BY <1>1, <2>1
<1>14. Cardinality(Places(R) \cup {last}) = Cardinality(Places(R)) + 1
  <2> HIDE DEF Places
  <2> QED
    BY <1>13, FS_AddElement
<1>15. QED
  <2> HIDE DEF Places, R
  <2> QED
    BY <1>5, <1>8, <1>9, <1>12, <1>14 DEF Lesser

-----------------------------------------------------------------------------
(* Sums over sets of intents.                                              *)

\* What a sum is: it grows by the weight of whatever is added.
Additive(g, w, D) ==
    /\ g \in [SUBSET D -> Nat]
    /\ g[{}] = 0
    /\ \A T \in SUBSET D : \A x \in T : g[T] = w[x] + g[T \ {x}]

\* There is such a sum of weights over a finite set.
LEMMA SumExists ==
    ASSUME NEW D, IsFiniteSet(D), NEW w \in [D -> Nat]
    PROVE  \E g : Additive(g, w, D)
<1> DEFINE None(S) == ~ \E g : Additive(g, w, S)
           Sizes == {n \in Nat : \E S \in SUBSET D : Cardinality(S) = n /\ None(S)}
<1>1. \A S \in SUBSET D : IsFiniteSet(S) /\ Cardinality(S) \in Nat
  BY FS_Subset, FS_CardinalityType
<1>2. SUFFICES ASSUME None(D)
               PROVE  FALSE
  OBVIOUS
<1>3. Cardinality(D) \in Sizes
  <2> HIDE DEF None
  <2> QED
    BY <1>1, <1>2
<1>4. PICK n \in Sizes : \A k \in Sizes : n <= k
  <2> Sizes \in SUBSET Nat /\ Sizes # {}
    BY <1>3
  <2> HIDE DEF Sizes
  <2> QED
    BY LeastOf
<1>5. PICK S \in SUBSET D : Cardinality(S) = n /\ None(S)
  BY <1>4
<1>6. S # {}
  <2> SUFFICES ASSUME S = {}
               PROVE  FALSE
    OBVIOUS
  <2> DEFINE g == [T \in SUBSET S |-> 0]
  <2>1. g \in [SUBSET S -> Nat] /\ g[{}] = 0
    OBVIOUS
  <2>2. \A T \in SUBSET S : \A x \in T : FALSE
    OBVIOUS
  <2>3. Additive(g, w, S)
    <3> HIDE DEF g
    <3> QED
      BY <2>1, <2>2 DEF Additive
  <2>4. QED
    BY <1>5, <2>3
<1>7. PICK y \in S : TRUE
  BY <1>6
<1> DEFINE R == S \ {y}
<1>8. R \in SUBSET D /\ Cardinality(R) = n - 1 /\ n - 1 \in Nat
  <2>1. IsFiniteSet(S) /\ R \in SUBSET D
    BY <1>1
  <2>2. Cardinality(R) = Cardinality(S) - 1
    BY <2>1, FS_RemoveElement
  <2>3. Cardinality(R) \in Nat
    BY <1>1, <2>1
  <2>4. QED
    BY <1>5, <2>1, <2>2, <2>3
<1>9. PICK h : Additive(h, w, R)
  <2>1. ~ (n - 1 \in Sizes)
    <3>1. n \in Nat /\ ~ (n <= n - 1)
      OBVIOUS
    <3> HIDE DEF Sizes
    <3>2. QED
      BY <1>4, <3>1
  <2>2. ~ None(R)
    <3> HIDE DEF None
    <3> QED
      BY <1>8, <2>1
  <2>3. QED
    BY <2>2
<1> DEFINE g == [T \in SUBSET S |-> IF y \in T THEN w[y] + h[T \ {y}] ELSE h[T]]
<1>10. \A T \in SUBSET S : T \ {y} \in SUBSET R /\ (y \notin T => T \in SUBSET R)
  OBVIOUS
<1>11. \A x \in S : w[x] \in Nat
  BY <1>5
<1>12. \A T \in SUBSET R : h[T] \in Nat
  BY <1>9 DEF Additive
<1>13. g \in [SUBSET S -> Nat]
  <2>1. \A T \in SUBSET S : (IF y \in T THEN w[y] + h[T \ {y}] ELSE h[T]) \in Nat
    <3> HIDE DEF R
    <3> QED
      BY <1>7, <1>10, <1>11, <1>12
  <2>2. QED
    BY <2>1
<1>14. g[{}] = 0
  BY <1>9 DEF Additive
<1>15. ASSUME NEW T \in SUBSET S, NEW x \in T
       PROVE  g[T] = w[x] + g[T \ {x}]
  <2>1. CASE x = y
    BY <2>1
  <2>2. CASE x # y /\ y \notin T
    <3>1. T \in SUBSET R /\ y \notin T \ {x}
      BY <2>2
    <3>2. h[T] = w[x] + h[T \ {x}]
      BY <1>9, <3>1 DEF Additive
    <3>3. g[T] = h[T] /\ g[T \ {x}] = h[T \ {x}]
      BY <2>2
    <3>4. QED
      BY <3>2, <3>3
  <2>3. CASE x # y /\ y \in T
    <3>1. T \ {y} \in SUBSET R /\ x \in T \ {y} /\ y \in T \ {x}
      BY <2>3
    <3> DEFINE rest == (T \ {x}) \ {y}
    <3>2. rest \in SUBSET R /\ rest = (T \ {y}) \ {x}
      OBVIOUS
    <3>3. h[T \ {y}] = w[x] + h[rest]
      BY <1>9, <3>1, <3>2 DEF Additive
    <3>4. g[T] = w[y] + h[T \ {y}]
      BY <2>3
    <3>5. g[T \ {x}] = w[y] + h[rest]
      BY <3>1
    <3>6. w[y] \in Nat /\ w[x] \in Nat /\ h[rest] \in Nat
      BY <1>11, <1>12, <3>2
    <3> HIDE DEF g, rest
    <3>7. QED
      BY <3>3, <3>4, <3>5, <3>6
  <2>4. QED
    BY <2>1, <2>2, <2>3
<1>16. Additive(g, w, S)
  <2> HIDE DEF g
  <2> QED
    BY <1>13, <1>14, <1>15 DEF Additive
<1>17. QED
  <2> HIDE DEF g
  <2> QED
    BY <1>5, <1>16

\* The recursion by which MapThenFoldSet computes it.
FoldOf(F, w, S) ==
    F = [s \in SUBSET S |-> IF s = {} THEN 0
                            ELSE w[CHOOSE x \in s : TRUE]
                                   + F[s \ {CHOOSE x \in s : TRUE}]]

\* Whatever function satisfies the recursion has that sum.
LEMMA FoldIsSum ==
    ASSUME NEW D, IsFiniteSet(D), NEW w \in [D -> Nat], NEW g, Additive(g, w, D),
           NEW S \in SUBSET D, NEW F, FoldOf(F, w, S)
    PROVE  F[S] = g[S]
<1> DEFINE Sizes == {n \in Nat : \E T \in SUBSET S : Cardinality(T) = n /\ F[T] # g[T]}
<1>1. \A T \in SUBSET S : IsFiniteSet(T) /\ Cardinality(T) \in Nat
  BY FS_Subset, FS_CardinalityType
<1>2. SUFFICES ASSUME F[S] # g[S]
               PROVE  FALSE
  OBVIOUS
<1>3. Cardinality(S) \in Sizes
  BY <1>1, <1>2
<1>4. PICK n \in Sizes : \A k \in Sizes : n <= k
  <2> Sizes \in SUBSET Nat /\ Sizes # {}
    BY <1>3
  <2> HIDE DEF Sizes
  <2> QED
    BY LeastOf
<1>5. PICK T \in SUBSET S : Cardinality(T) = n /\ F[T] # g[T]
  BY <1>4
<1>6. T # {}
  BY <1>5 DEF Additive, FoldOf
<1> DEFINE x == CHOOSE x \in T : TRUE
<1>7. x \in T
  BY <1>6
<1>8. F[T] = w[x] + F[T \ {x}]
  BY <1>5, <1>6 DEF FoldOf
<1>9. g[T] = w[x] + g[T \ {x}]
  BY <1>7 DEF Additive
<1> HIDE DEF x
<1> DEFINE R == T \ {x}
<1>10. R \in SUBSET S /\ Cardinality(R) = n - 1 /\ n - 1 \in Nat
  <2>1. IsFiniteSet(T) /\ R \in SUBSET S
    BY <1>1
  <2>2. Cardinality(R) = Cardinality(T) - 1
    BY <1>7, <2>1, FS_RemoveElement
  <2>3. Cardinality(R) \in Nat
    BY <1>1, <2>1
  <2>4. QED
    BY <1>5, <2>1, <2>2, <2>3
<1>11. F[R] # g[R]
  BY <1>5, <1>8, <1>9
<1>12. n - 1 \in Sizes
  BY <1>10, <1>11
<1>13. n \in Nat /\ ~ (n <= n - 1)
  OBVIOUS
<1>14. QED
  <2> HIDE DEF Sizes
  <2> QED
    BY <1>4, <1>12, <1>13

\* Such a function exists.
LEMMA FoldExists ==
    ASSUME NEW D, NEW w \in [D -> Nat], NEW g, Additive(g, w, D), NEW S \in SUBSET D
    PROVE  FoldOf([s \in SUBSET S |-> g[s]], w, S)
<1> DEFINE first(s) == CHOOSE x \in s : TRUE
           G == [s \in SUBSET S |-> g[s]]
           H == [s \in SUBSET S |-> IF s = {} THEN 0 ELSE w[first(s)] + G[s \ {first(s)}]]
<1>1. ASSUME NEW s \in SUBSET S
      PROVE  G[s] = H[s]
  <2>1. CASE s = {}
    BY <2>1 DEF Additive
  <2>2. CASE s # {}
    <3>1. first(s) \in s
      BY <2>2
    <3>2. s \ {first(s)} \in SUBSET S
      OBVIOUS
    <3> HIDE DEF first
    <3>3. g[s] = w[first(s)] + g[s \ {first(s)}]
      BY <3>1 DEF Additive
    <3>4. QED
      BY <2>2, <3>2, <3>3
  <2>3. QED
    BY <2>1, <2>2
<1>2. G = H
  <2> HIDE DEF first
  <2> QED
    BY <1>1
<1>3. QED
  BY <1>2 DEF FoldOf

\* The sum of the bytes of intents grows by the bytes of whatever is added.
LEMMA BytesAdditive ==
    ASSUME NEW l \in Seq(Footprints)
    PROVE  \E g : /\ Additive(g, [i \in DOMAIN l |-> l[i].bytes], DOMAIN l)
                  /\ \A S \in SUBSET DOMAIN l : BytesIn(l, S) = g[S]
<1> DEFINE D == DOMAIN l
           w == [i \in D |-> l[i].bytes]
<1>1. IsFiniteSet(D) /\ w \in [D -> Nat]
  <2>1. D = 1 .. Len(l) /\ Len(l) \in Nat
    OBVIOUS
  <2>2. \A i \in D : l[i] \in Footprint
    BY PlannerAssumption
  <2>3. QED
    BY <2>1, <2>2, FS_Interval DEF Footprint
<1>2. PICK g : Additive(g, w, D)
  <2> HIDE DEF D, w
  <2> QED
    BY <1>1, SumExists
<1>3. ASSUME NEW S \in SUBSET D
      PROVE  BytesIn(l, S) = g[S]
  <2> DEFINE first(s) == CHOOSE x \in s : TRUE
             Body(f) == [s \in SUBSET S |-> IF s = {} THEN 0
                                            ELSE l[first(s)].bytes + f[s \ {first(s)}]]
             F == CHOOSE f : f = Body(f)
  <2>1. BytesIn(l, S) = F[S]
    BY DEF BytesIn, MapThenSumSet, MapThenFoldSet
  <2>2. ASSUME NEW f
        PROVE  f = Body(f) <=> FoldOf(f, w, S)
    <3>1. \A s \in SUBSET S : s # {} => w[first(s)] = l[first(s)].bytes
      OBVIOUS
    <3>2. FoldOf(f, w, S) <=>
             f = [s \in SUBSET S |-> IF s = {} THEN 0
                                     ELSE w[first(s)] + f[s \ {first(s)}]]
      BY DEF FoldOf
    <3> HIDE DEF first, w
    <3>3. QED
      BY <3>1, <3>2
  <2>3. \E f : f = Body(f)
    <3> HIDE DEF Body, w, D
    <3> QED
      BY <1>1, <1>2, <2>2, FoldExists
  <2>4. F = Body(F)
    <3> HIDE DEF Body
    <3> QED
      BY <2>3
  <2>5. FoldOf(F, w, S)
    <3> HIDE DEF F, Body, w
    <3> QED
      BY <2>2, <2>4
  <2>6. S \in SUBSET D
    OBVIOUS
  <2>7. F[S] = g[S]
    <3> HIDE DEF F, w, D
    <3> QED
      BY <1>1, <1>2, <2>5, <2>6, FoldIsSum
  <2>8. QED
    BY <2>1, <2>7
<1>4. QED
  BY <1>2, <1>3

\* The sum of the CU of intents grows by the CU of whatever is added.
LEMMA CuAdditive ==
    ASSUME NEW l \in Seq(Footprints)
    PROVE  \E g : /\ Additive(g, [i \in DOMAIN l |-> l[i].cu], DOMAIN l)
                  /\ \A S \in SUBSET DOMAIN l : CuIn(l, S) = g[S]
<1> DEFINE D == DOMAIN l
           w == [i \in D |-> l[i].cu]
<1>1. IsFiniteSet(D) /\ w \in [D -> Nat]
  <2>1. D = 1 .. Len(l) /\ Len(l) \in Nat
    OBVIOUS
  <2>2. \A i \in D : l[i] \in Footprint
    BY PlannerAssumption
  <2>3. QED
    BY <2>1, <2>2, FS_Interval DEF Footprint
<1>2. PICK g : Additive(g, w, D)
  <2> HIDE DEF D, w
  <2> QED
    BY <1>1, SumExists
<1>3. ASSUME NEW S \in SUBSET D
      PROVE  CuIn(l, S) = g[S]
  <2> DEFINE first(s) == CHOOSE x \in s : TRUE
             Body(f) == [s \in SUBSET S |-> IF s = {} THEN 0
                                            ELSE l[first(s)].cu + f[s \ {first(s)}]]
             F == CHOOSE f : f = Body(f)
  <2>1. CuIn(l, S) = F[S]
    BY DEF CuIn, MapThenSumSet, MapThenFoldSet
  <2>2. ASSUME NEW f
        PROVE  f = Body(f) <=> FoldOf(f, w, S)
    <3>1. \A s \in SUBSET S : s # {} => w[first(s)] = l[first(s)].cu
      OBVIOUS
    <3>2. FoldOf(f, w, S) <=>
             f = [s \in SUBSET S |-> IF s = {} THEN 0
                                     ELSE w[first(s)] + f[s \ {first(s)}]]
      BY DEF FoldOf
    <3> HIDE DEF first, w
    <3>3. QED
      BY <3>1, <3>2
  <2>3. \E f : f = Body(f)
    <3> HIDE DEF Body, w, D
    <3> QED
      BY <1>1, <1>2, <2>2, FoldExists
  <2>4. F = Body(F)
    <3> HIDE DEF Body
    <3> QED
      BY <2>3
  <2>5. FoldOf(F, w, S)
    <3> HIDE DEF F, Body, w
    <3> QED
      BY <2>2, <2>4
  <2>6. S \in SUBSET D
    OBVIOUS
  <2>7. F[S] = g[S]
    <3> HIDE DEF F, w, D
    <3> QED
      BY <1>1, <1>2, <2>5, <2>6, FoldIsSum
  <2>8. QED
    BY <2>1, <2>7
<1>4. QED
  BY <1>2, <1>3

\* The sum over two sets that share nothing is the sum of both.
LEMMA DisjointSum ==
    ASSUME NEW D, IsFiniteSet(D), NEW w \in [D -> Nat], NEW g, Additive(g, w, D),
           NEW A \in SUBSET D, NEW B \in SUBSET D, A \cap B = {}
    PROVE  g[A \cup B] = g[A] + g[B]
<1> DEFINE Sizes == {n \in Nat : \E T \in SUBSET B :
                        Cardinality(T) = n /\ g[A \cup T] # g[A] + g[T]}
<1>1. \A T \in SUBSET B : IsFiniteSet(T) /\ Cardinality(T) \in Nat
  BY FS_Subset, FS_CardinalityType
<1>2. SUFFICES ASSUME g[A \cup B] # g[A] + g[B]
               PROVE  FALSE
  OBVIOUS
<1>3. Cardinality(B) \in Sizes
  BY <1>1, <1>2
<1>4. PICK n \in Sizes : \A k \in Sizes : n <= k
  <2> Sizes \in SUBSET Nat /\ Sizes # {}
    BY <1>3
  <2> HIDE DEF Sizes
  <2> QED
    BY LeastOf
<1>5. PICK T \in SUBSET B : Cardinality(T) = n /\ g[A \cup T] # g[A] + g[T]
  BY <1>4
<1>6. \A S \in SUBSET D : g[S] \in Nat
  BY DEF Additive
<1>7. T # {}
  <2> SUFFICES ASSUME T = {}
               PROVE  FALSE
    OBVIOUS
  <2>1. A \cup T = A /\ g[T] = 0 /\ g[A] \in Nat
    BY <1>6 DEF Additive
  <2>2. QED
    BY <1>5, <2>1
<1>8. PICK x \in T : TRUE
  BY <1>7
<1> DEFINE R == T \ {x}
<1>9. R \in SUBSET B /\ Cardinality(R) = n - 1 /\ n - 1 \in Nat
  <2>1. IsFiniteSet(T) /\ R \in SUBSET B
    BY <1>1
  <2>2. Cardinality(R) = Cardinality(T) - 1
    BY <2>1, FS_RemoveElement
  <2>3. Cardinality(R) \in Nat
    BY <1>1, <2>1
  <2>4. QED
    BY <1>5, <2>1, <2>2, <2>3
<1>10. g[A \cup R] = g[A] + g[R]
  <2>1. n \in Nat /\ ~ (n <= n - 1)
    OBVIOUS
  <2>2. ~ (n - 1 \in Sizes)
    <3> HIDE DEF Sizes
    <3> QED
      BY <1>4, <2>1
  <2>3. QED
    BY <1>9, <2>2
<1>11. g[T] = w[x] + g[R]
  BY DEF Additive
<1>12. g[A \cup T] = w[x] + g[A \cup R]
  <2>1. A \cup T \in SUBSET D /\ x \in A \cup T /\ (A \cup T) \ {x} = A \cup R
    OBVIOUS
  <2> HIDE DEF R
  <2>2. QED
    BY <2>1 DEF Additive
<1>13. g[R] \in Nat /\ g[A] \in Nat /\ w[x] \in Nat
  BY <1>6
<1>14. QED
  <2> HIDE DEF R, Sizes
  <2> QED
    BY <1>5, <1>10, <1>11, <1>12, <1>13

\* The sums over no intent, over one, and over two sets that share none.
LEMMA BytesInFacts ==
    ASSUME NEW l \in Seq(Footprints)
    PROVE  /\ BytesIn(l, {}) = 0
           /\ \A i \in DOMAIN l : BytesIn(l, {i}) = l[i].bytes
           /\ \A S \in SUBSET DOMAIN l : BytesIn(l, S) \in Nat
           /\ \A A, B \in SUBSET DOMAIN l : A \cap B = {}
                 => BytesIn(l, A \cup B) = BytesIn(l, A) + BytesIn(l, B)
<1> DEFINE D == DOMAIN l
           w == [i \in D |-> l[i].bytes]
<1>1. IsFiniteSet(D) /\ w \in [D -> Nat]
  <2>1. D = 1 .. Len(l) /\ Len(l) \in Nat
    OBVIOUS
  <2>2. \A i \in D : l[i] \in Footprint
    BY PlannerAssumption
  <2>3. QED
    BY <2>1, <2>2, FS_Interval DEF Footprint
<1>2. PICK g : Additive(g, w, D) /\ \A S \in SUBSET D : BytesIn(l, S) = g[S]
  BY BytesAdditive
<1>3. /\ g[{}] = 0
      /\ \A S \in SUBSET D : g[S] \in Nat
      /\ \A i \in D : g[{i}] = w[i]
  <2>1. g[{}] = 0 /\ \A S \in SUBSET D : g[S] \in Nat
    BY <1>2 DEF Additive
  <2>2. ASSUME NEW i \in D
        PROVE  g[{i}] = w[i]
    <3>1. {i} \in SUBSET D /\ {i} \ {i} = {} /\ i \in {i} /\ w[i] \in Nat
      BY <1>1
    <3>2. g[{i}] = w[i] + g[{i} \ {i}]
      <4> HIDE DEF w, D
      <4> QED
        BY <1>2, <3>1 DEF Additive
    <3>3. g[{i} \ {i}] = 0
      BY <2>1, <3>1
    <3> HIDE DEF w
    <3>4. QED
      BY <3>1, <3>2, <3>3
  <2>3. QED
    BY <2>1, <2>2
<1>4. ASSUME NEW A \in SUBSET D, NEW B \in SUBSET D, A \cap B = {}
      PROVE  g[A \cup B] = g[A] + g[B]
  <2>1. Additive(g, w, D)
    BY <1>2
  <2> HIDE DEF w, D
  <2>2. QED
    BY <1>1, <1>4, <2>1, DisjointSum
<1>5. \A A, B \in SUBSET D : A \cup B \in SUBSET D
  OBVIOUS
<1>6. \A i \in D : {i} \in SUBSET D /\ w[i] = l[i].bytes
  OBVIOUS
<1>7. {} \in SUBSET D
  OBVIOUS
<1> HIDE DEF w
<1>8. QED
  BY <1>2, <1>3, <1>4, <1>5, <1>6, <1>7

\* The same of the CU.
LEMMA CuInFacts ==
    ASSUME NEW l \in Seq(Footprints)
    PROVE  /\ CuIn(l, {}) = 0
           /\ \A i \in DOMAIN l : CuIn(l, {i}) = l[i].cu
           /\ \A S \in SUBSET DOMAIN l : CuIn(l, S) \in Nat
           /\ \A A, B \in SUBSET DOMAIN l : A \cap B = {}
                 => CuIn(l, A \cup B) = CuIn(l, A) + CuIn(l, B)
<1> DEFINE D == DOMAIN l
           w == [i \in D |-> l[i].cu]
<1>1. IsFiniteSet(D) /\ w \in [D -> Nat]
  <2>1. D = 1 .. Len(l) /\ Len(l) \in Nat
    OBVIOUS
  <2>2. \A i \in D : l[i] \in Footprint
    BY PlannerAssumption
  <2>3. QED
    BY <2>1, <2>2, FS_Interval DEF Footprint
<1>2. PICK g : Additive(g, w, D) /\ \A S \in SUBSET D : CuIn(l, S) = g[S]
  BY CuAdditive
<1>3. /\ g[{}] = 0
      /\ \A S \in SUBSET D : g[S] \in Nat
      /\ \A i \in D : g[{i}] = w[i]
  <2>1. g[{}] = 0 /\ \A S \in SUBSET D : g[S] \in Nat
    BY <1>2 DEF Additive
  <2>2. ASSUME NEW i \in D
        PROVE  g[{i}] = w[i]
    <3>1. {i} \in SUBSET D /\ {i} \ {i} = {} /\ i \in {i} /\ w[i] \in Nat
      BY <1>1
    <3>2. g[{i}] = w[i] + g[{i} \ {i}]
      <4> HIDE DEF w, D
      <4> QED
        BY <1>2, <3>1 DEF Additive
    <3>3. g[{i} \ {i}] = 0
      BY <2>1, <3>1
    <3> HIDE DEF w
    <3>4. QED
      BY <3>1, <3>2, <3>3
  <2>3. QED
    BY <2>1, <2>2
<1>4. ASSUME NEW A \in SUBSET D, NEW B \in SUBSET D, A \cap B = {}
      PROVE  g[A \cup B] = g[A] + g[B]
  <2>1. Additive(g, w, D)
    BY <1>2
  <2> HIDE DEF w, D
  <2>2. QED
    BY <1>1, <1>4, <2>1, DisjointSum
<1>5. \A A, B \in SUBSET D : A \cup B \in SUBSET D
  OBVIOUS
<1>6. \A i \in D : {i} \in SUBSET D /\ w[i] = l[i].cu
  OBVIOUS
<1>7. {} \in SUBSET D
  OBVIOUS
<1> HIDE DEF w
<1>8. QED
  BY <1>2, <1>3, <1>4, <1>5, <1>6, <1>7

-----------------------------------------------------------------------------
(* Keys.                                                                   *)

\* The fields of the options have their types.
OptionTypes ==
    /\ opts.maxBytes \in Nat /\ opts.slack \in Nat /\ opts.maxKeys \in Nat
    /\ opts.maxInstrs \in Nat /\ opts.maxCu \in Nat /\ opts.reserve \in Nat
    /\ opts.maxAlt \in Nat /\ opts.tableBytes \in Nat /\ opts.minCu \in Nat
    /\ opts.chunkCu \in Nat /\ opts.maxMessage \in Nat
    /\ opts.alt \in BOOLEAN /\ opts.merge \in BOOLEAN

\* They do for all options that are considered.
LEMMA OptionsTyped ==
    ASSUME opts \in Options
    PROVE  OptionTypes
<1>1. opts \in OptionRecord
  BY PlannerAssumption
<1>2. QED
  BY <1>1 DEF OptionRecord, OptionTypes

\* Of more keys no fewer are in the message, no fewer are not, and they cost
\* no less; and together keys cost no more than apart.
LEMMA KeyCosts ==
    ASSUME OptionTypes, NEW j \in Nat, NEW k \in Nat
    PROVE  /\ InMessage(k) \in Nat /\ InMessage(k) <= k /\ KeyCost(k) \in Nat
           /\ KeyCost(k) = 32 * InMessage(k) + (k - InMessage(k))
           /\ j <= k => /\ InMessage(j) <= InMessage(k)
                        /\ j - InMessage(j) <= k - InMessage(k)
                        /\ KeyCost(j) <= KeyCost(k)
           /\ KeyCost(j + k) <= KeyCost(j) + KeyCost(k)
<1>1. CASE opts.alt
  BY <1>1 DEF InMessage, KeyCost, Lesser, KeyBytes, IndexBytes, OptionTypes
<1>2. CASE ~ opts.alt
  BY <1>2 DEF InMessage, KeyCost, Lesser, KeyBytes, IndexBytes, OptionTypes
<1>3. QED
  BY <1>1, <1>2

\* An intent has no more keys than places for them, nor more that are new.
LEMMA KeyPlaces ==
    ASSUME NEW fp \in Footprints, NEW X
    PROVE  LET new == Cardinality({p \in DOMAIN fp.keys : fp.keys[p] \notin X})
           IN  /\ Len(fp.keys) \in Nat \ {0} /\ KeysOf(fp) \subseteq Keys
               /\ IsFiniteSet(KeysOf(fp)) /\ IsFiniteSet(KeysOf(fp) \ X)
               /\ Cardinality(KeysOf(fp)) \in Nat
               /\ Cardinality(KeysOf(fp)) <= Len(fp.keys)
               /\ Cardinality(KeysOf(fp) \ X) \in Nat /\ new \in Nat
               /\ Cardinality(KeysOf(fp) \ X) <= new /\ new <= Len(fp.keys)
<1> DEFINE P == {p \in DOMAIN fp.keys : fp.keys[p] \notin X}
           D == DOMAIN fp.keys
<1>1. fp.keys \in Seq(Keys) /\ fp.keys # <<>>
  BY PlannerAssumption DEF Footprint
<1>2. D = 1 .. Len(fp.keys) /\ Len(fp.keys) \in Nat \ {0} /\ KeysOf(fp) \subseteq Keys
  BY <1>1 DEF KeysOf
<1>3. IsFiniteSet(D) /\ Cardinality(D) = Len(fp.keys)
  BY <1>2, FS_Interval
<1>4. IsFiniteSet(P) /\ Cardinality(P) <= Len(fp.keys) /\ Cardinality(P) \in Nat
  <2>1. P \in SUBSET D
    OBVIOUS
  <2> HIDE DEF P
  <2>2. QED
    BY <1>3, <2>1, FS_Subset, FS_CardinalityType
<1>5. [p \in D |-> fp.keys[p]] \in Surjection(D, KeysOf(fp))
  BY DEF Surjection, KeysOf
<1>6. [p \in P |-> fp.keys[p]] \in Surjection(P, KeysOf(fp) \ X)
  <2>1. [p \in P |-> fp.keys[p]] \in [P -> KeysOf(fp) \ X]
    BY DEF KeysOf
  <2>2. \A k \in KeysOf(fp) \ X : \E p \in P : fp.keys[p] = k
    BY DEF KeysOf
  <2> HIDE DEF P
  <2>3. QED
    BY <2>1, <2>2 DEF Surjection
<1>7. IsFiniteSet(KeysOf(fp)) /\ Cardinality(KeysOf(fp)) <= Len(fp.keys)
  <2> HIDE DEF D
  <2> QED
    BY <1>3, <1>5, FS_Surjection
<1>8. IsFiniteSet(KeysOf(fp) \ X) /\ Cardinality(KeysOf(fp) \ X) <= Cardinality(P)
  <2> HIDE DEF P
  <2> QED
    BY <1>4, <1>6, FS_Surjection
<1>9. Cardinality(KeysOf(fp)) \in Nat /\ Cardinality(KeysOf(fp) \ X) \in Nat
  BY <1>7, <1>8, FS_CardinalityType
<1> HIDE DEF P
<1>10. QED
  BY <1>2, <1>4, <1>7, <1>8, <1>9 DEF P

\* Of the new keys as many go into the message as there is room for.
LEMMA KeptFacts ==
    ASSUME OptionTypes, NEW a, NEW fp \in Footprints,
           Cardinality(a.message) \in Nat,
           opts.alt => Cardinality(a.message) <= opts.reserve
    PROVE  LET new == Cardinality(KeysOf(fp) \ (a.message \cup a.alt))
           IN  /\ Kept(a, fp) \subseteq KeysOf(fp) \ (a.message \cup a.alt)
               /\ Cardinality(Kept(a, fp)) =
                     IF opts.alt THEN Lesser(new, opts.reserve - Cardinality(a.message))
                     ELSE new
<1> DEFINE new == KeysOf(fp) \ (a.message \cup a.alt)
           first(k) == CHOOSE p \in DOMAIN fp.keys :
                          /\ fp.keys[p] = k
                          /\ \A q \in DOMAIN fp.keys : fp.keys[q] = k => p <= q
           m == opts.reserve - Cardinality(a.message)
           f == [k \in new |-> first(k)]
<1>1. IsFiniteSet(new)
  BY KeyPlaces
<1>2. \A k \in new : first(k) \in DOMAIN fp.keys /\ fp.keys[first(k)] = k
  <2> TAKE k \in new
  <2> DEFINE P == {p \in DOMAIN fp.keys : fp.keys[p] = k}
  <2>1. DOMAIN fp.keys = 1 .. Len(fp.keys)
    BY PlannerAssumption DEF Footprint
  <2>2. P \in SUBSET Nat /\ P # {}
    BY <2>1 DEF KeysOf
  <2>3. PICK p \in P : \A q \in P : p <= q
    <3> HIDE DEF P
    <3> QED
      BY <2>2, LeastOf
  <2>4. /\ p \in DOMAIN fp.keys /\ fp.keys[p] = k
        /\ \A q \in DOMAIN fp.keys : fp.keys[q] = k => p <= q
    BY <2>3
  <2>5. QED
    BY <2>4
<1>3. \A k \in new : f[k] \in Nat
  <2>1. DOMAIN fp.keys \subseteq Nat
    BY PlannerAssumption DEF Footprint
  <2> HIDE DEF first
  <2>2. QED
    BY <1>2, <2>1
<1>4. \A j, k \in new : f[j] = f[k] => j = k
  <2> HIDE DEF first
  <2> QED
    BY <1>2
<1>5. CASE opts.alt
  <2>1. m \in Nat
    BY <1>5 DEF OptionTypes
  <2>2. Cardinality({k \in new : Cardinality({j \in new : f[j] < f[k]}) < m}) =
           Lesser(Cardinality(new), m)
    <3> HIDE DEF new, f, m
    <3> QED
      BY <1>1, <1>3, <1>4, <2>1, FirstPlaces
  <2>3. \A k \in new : {j \in new : f[j] < f[k]} = {j \in new : first(j) < first(k)}
    <3> HIDE DEF first, new
    <3> QED
      OBVIOUS
  <2> DEFINE earlier(k) == {j \in new : first(j) < first(k)}
  <2>4. \A k \in new : Cardinality(earlier(k)) \in Nat
    <3> TAKE k \in new
    <3>1. earlier(k) \in SUBSET new
      OBVIOUS
    <3> HIDE DEF earlier, new
    <3>2. QED
      BY <1>1, <3>1, FS_Subset, FS_CardinalityType
  <2>5. Kept(a, fp) = {k \in new : Cardinality(a.message) + Cardinality(earlier(k)) < opts.reserve}
    BY <1>5 DEF Kept
  <2>6. \A k \in new :
           Cardinality(a.message) + Cardinality(earlier(k)) < opts.reserve
              <=> Cardinality({j \in new : f[j] < f[k]}) < m
    <3> TAKE k \in new
    <3>1. Cardinality({j \in new : f[j] < f[k]}) = Cardinality(earlier(k))
      <4> HIDE DEF first, new, f
      <4> QED
        BY <2>3
    <3>2. Cardinality(earlier(k)) \in Nat /\ opts.reserve \in Nat
      BY <2>4 DEF OptionTypes
    <3> HIDE DEF earlier, new, f
    <3>3. QED
      BY <3>1, <3>2
  <2>7. Kept(a, fp) = {k \in new : Cardinality({j \in new : f[j] < f[k]}) < m}
    <3> HIDE DEF earlier, new, f, m
    <3> QED
      BY <2>5, <2>6
  <2>8. Kept(a, fp) \subseteq new
    BY <2>7
  <2> HIDE DEF new, f
  <2>9. QED
    BY <1>5, <2>2, <2>7, <2>8 DEF new
<1>6. CASE ~ opts.alt
  <2>1. Kept(a, fp) = new
    BY <1>6 DEF Kept
  <2>2. QED
    BY <1>6, <2>1
<1>7. QED
  BY <1>5, <1>6 DEF OptionTypes

-----------------------------------------------------------------------------
(* Lists of chunks or plans that go on where the one before ends.          *)

\* Records of a set hold at least one intent each.
Nonempty(S) == \A r \in S : r.nodes \in Seq(Nat) \ {<<>>}

\* The ends are numbers that grow by the length of each chunk, and the nodes
\* of a chunk are those between two ends.
LEMMA ChainEnds ==
    ASSUME NEW S, Nonempty(S), NEW list \in Seq(S), Chained(list)
    PROVE  /\ \A i \in 0 .. Len(list) : End(list, i) \in Nat
           /\ \A i \in 1 .. Len(list) :
                 /\ Len(list[i].nodes) \in Nat \ {0}
                 /\ End(list, i) = End(list, i - 1) + Len(list[i].nodes)
                 /\ NodesOf(list[i]) = End(list, i - 1) + 1 .. End(list, i)
<1>1. \A i \in 1 .. Len(list) :
         /\ list[i].nodes \in Seq(Nat) /\ list[i].nodes # <<>>
         /\ DOMAIN list[i].nodes = 1 .. Len(list[i].nodes)
         /\ Len(list[i].nodes) \in Nat \ {0}
  <2> TAKE i \in 1 .. Len(list)
  <2>1. list[i] \in S
    OBVIOUS
  <2>2. list[i].nodes \in Seq(Nat) /\ list[i].nodes # <<>>
    BY <2>1 DEF Nonempty
  <2>3. QED
    BY <2>2
<1>2. \A i \in 0 .. Len(list) : End(list, i) \in Nat
  <2> TAKE i \in 0 .. Len(list)
  <2>1. CASE i = 0
    BY <2>1 DEF End
  <2>2. CASE i # 0
    <3>1. i \in 1 .. Len(list)
      BY <2>2
    <3>2. QED
      BY <1>1, <2>2, <3>1 DEF End
  <2>3. QED
    BY <2>1, <2>2
<1>3. ASSUME NEW i \in 1 .. Len(list)
      PROVE  /\ End(list, i) = End(list, i - 1) + Len(list[i].nodes)
             /\ NodesOf(list[i]) = End(list, i - 1) + 1 .. End(list, i)
  <2>1. i \in DOMAIN list /\ i - 1 \in 0 .. Len(list)
    OBVIOUS
  <2>2. \A k \in 1 .. Len(list[i].nodes) : list[i].nodes[k] = End(list, i - 1) + k
    BY <1>1, <2>1 DEF Chained
  <2>3. End(list, i) = End(list, i - 1) + Len(list[i].nodes)
    <3>1. End(list, i) = list[i].nodes[Len(list[i].nodes)]
      BY DEF End
    <3>2. Len(list[i].nodes) \in 1 .. Len(list[i].nodes)
      BY <1>1
    <3>3. QED
      BY <2>2, <3>1, <3>2
  <2> DEFINE e == End(list, i - 1)
             n == Len(list[i].nodes)
  <2>4. e \in Nat /\ n \in Nat
    BY <1>1, <1>2, <2>1
  <2>5. NodesOf(list[i]) = {e + k : k \in 1 .. n}
    BY <1>1, <2>2 DEF NodesOf
  <2>6. {e + k : k \in 1 .. n} = e + 1 .. e + n
    <3> HIDE DEF e, n
    <3>1. \A x \in e + 1 .. e + n : x - e \in 1 .. n /\ x = e + (x - e)
      BY <2>4
    <3>2. QED
      BY <2>4, <3>1
  <2>7. QED
    BY <2>3, <2>5, <2>6
<1>4. QED
  BY <1>1, <1>2, <1>3

\* No end is before an earlier one.
LEMMA EndsGrow ==
    ASSUME NEW S, Nonempty(S), NEW list \in Seq(S), Chained(list),
           NEW i \in 0 .. Len(list), NEW j \in i .. Len(list)
    PROVE  End(list, i) <= End(list, j)
<1> DEFINE Bad == {n \in Nat : n \in i .. Len(list) /\ ~ End(list, i) <= End(list, n)}
<1>1. SUFFICES ASSUME Bad # {}
               PROVE  FALSE
  OBVIOUS
<1>2. PICK n \in Bad : \A k \in Bad : n <= k
  <2>1. Bad \in SUBSET Nat
    OBVIOUS
  <2> HIDE DEF Bad
  <2>2. QED
    BY <1>1, <2>1, LeastOf
<1>3. End(list, i) \in Nat
  BY ChainEnds
<1>4. n # i
  <2>1. ~ End(list, i) <= End(list, n)
    OBVIOUS
  <2>2. QED
    BY <1>3, <2>1
<1>5. n \in 1 .. Len(list) /\ n - 1 \in i .. Len(list) /\ n - 1 \in Nat
  BY <1>4
<1>6. n - 1 \notin Bad
  <2> HIDE DEF Bad
  <2> QED
    BY <1>2, <1>5
<1>7. End(list, i) <= End(list, n - 1)
  BY <1>5, <1>6
<1>8. /\ End(list, n) = End(list, n - 1) + Len(list[n].nodes)
      /\ Len(list[n].nodes) \in Nat /\ End(list, n - 1) \in Nat
  <2>1. n - 1 \in 0 .. Len(list)
    BY <1>5
  <2>2. QED
    BY <1>5, <2>1, ChainEnds
<1>9. End(list, i) <= End(list, n)
  BY <1>3, <1>7, <1>8
<1>10. QED
  BY <1>9

\* What goes on where a list ends makes it longer.
LEMMA ChainGrows ==
    ASSUME NEW S, Nonempty(S), NEW list \in Seq(S), Chained(list),
           NEW r \in S, GoesOn(list, r.nodes)
    PROVE  /\ Append(list, r) \in Seq(S) /\ Chained(Append(list, r))
           /\ \A i \in 0 .. Len(list) : End(Append(list, r), i) = End(list, i)
           /\ End(Append(list, r), Len(list) + 1) = End(list, Len(list)) + Len(r.nodes)
<1> DEFINE long == Append(list, r)
<1>1. /\ long \in Seq(S) /\ Len(long) = Len(list) + 1 /\ Len(list) \in Nat
      /\ long[Len(list) + 1] = r
      /\ \A i \in 1 .. Len(list) : long[i] = list[i]
  OBVIOUS
<1> HIDE DEF long
<1>2. \A i \in 0 .. Len(list) : End(long, i) = End(list, i)
  BY <1>1 DEF End
<1>3. ASSUME NEW i \in DOMAIN long, NEW k \in DOMAIN long[i].nodes
      PROVE  long[i].nodes[k] = End(long, i - 1) + k
  <2>1. i \in 1 .. Len(list) + 1
    BY <1>1
  <2>2. CASE i = Len(list) + 1
    <3>1. End(long, i - 1) = End(list, Len(list))
      BY <1>1, <1>2, <2>2
    <3>2. QED
      BY <1>1, <2>2, <3>1 DEF GoesOn
  <2>3. CASE i \in 1 .. Len(list)
    <3>1. End(long, i - 1) = End(list, i - 1) /\ i \in DOMAIN list
      BY <1>2, <2>3
    <3>2. QED
      BY <1>1, <2>3, <3>1 DEF Chained
  <2>4. QED
    BY <1>1, <2>1, <2>2, <2>3
<1>4. Chained(long)
  BY <1>3 DEF Chained
<1>5. End(long, Len(list) + 1) = End(list, Len(list)) + Len(r.nodes)
  <2>1. /\ End(long, Len(list) + 1) = End(long, (Len(list) + 1) - 1)
                                        + Len(long[Len(list) + 1].nodes)
    BY <1>1, <1>4, ChainEnds
  <2>2. (Len(list) + 1) - 1 = Len(list) /\ Len(list) \in 0 .. Len(list)
    BY <1>1
  <2>3. QED
    BY <1>1, <1>2, <2>1, <2>2
<1>6. QED
  BY <1>1, <1>2, <1>4, <1>5 DEF long

\* A chain that ends at n holds 1 to n, once each and in order.
LEMMA ChainCovers ==
    ASSUME NEW S, Nonempty(S), NEW list \in Seq(S), Chained(list)
    PROVE  /\ UNION {NodesOf(list[p]) : p \in DOMAIN list} = 1 .. End(list, Len(list))
           /\ \A p, q \in DOMAIN list :
                 \A i \in DOMAIN list[p].nodes, j \in DOMAIN list[q].nodes :
                    (p < q \/ (p = q /\ i < j)) => list[p].nodes[i] < list[q].nodes[j]
<1> DEFINE last == End(list, Len(list))
<1>1. DOMAIN list = 1 .. Len(list) /\ Len(list) \in Nat
  OBVIOUS
<1>2. \A i \in 0 .. Len(list) : End(list, i) \in Nat /\ End(list, i) <= last
  <2> TAKE i \in 0 .. Len(list)
  <2>1. Len(list) \in i .. Len(list)
    OBVIOUS
  <2>2. QED
    BY <2>1, ChainEnds, EndsGrow
<1>3. ASSUME NEW p \in DOMAIN list, NEW x \in NodesOf(list[p])
      PROVE  x \in 1 .. last
  <2>1. p \in 0 .. Len(list) /\ p - 1 \in 0 .. Len(list) /\ p \in 1 .. Len(list)
    BY <1>1
  <2>2. x \in End(list, p - 1) + 1 .. End(list, p)
    BY <2>1, ChainEnds
  <2>3. /\ End(list, p - 1) \in Nat /\ End(list, p) \in Nat
        /\ last \in Nat /\ End(list, p) <= last
    BY <1>1, <1>2, <2>1
  <2> HIDE DEF last
  <2>4. QED
    BY <2>2, <2>3
<1>4. ASSUME NEW x \in 1 .. last
      PROVE  \E p \in DOMAIN list : x \in NodesOf(list[p])
  <2> DEFINE Reach == {p \in 0 .. Len(list) : x <= End(list, p)}
  <2>1. Reach \in SUBSET Nat /\ Reach # {}
    <3>1. Len(list) \in Reach
      OBVIOUS
    <3>2. QED
      BY <3>1
  <2>2. PICK p \in Reach : \A q \in Reach : p <= q
    <3> HIDE DEF Reach
    <3> QED
      BY <2>1, LeastOf
  <2>3. p # 0
    BY DEF End
  <2>4. p \in 1 .. Len(list) /\ p - 1 \in 0 .. Len(list) /\ ~ p <= p - 1
    BY <2>3
  <2>5. p - 1 \notin Reach
    <3> HIDE DEF Reach
    <3> QED
      BY <2>2, <2>4
  <2>6. ~ x <= End(list, p - 1) /\ x <= End(list, p)
    BY <2>4, <2>5
  <2>7. End(list, p - 1) \in Nat /\ End(list, p) \in Nat /\ x \in Nat
    <3>1. last \in Nat
      BY <1>1, <1>2
    <3>2. QED
      BY <1>2, <2>4, <3>1
  <2>8. x \in End(list, p - 1) + 1 .. End(list, p)
    BY <2>6, <2>7
  <2>9. QED
    BY <1>1, <2>4, <2>8, ChainEnds
<1>5. ASSUME NEW p \in DOMAIN list, NEW q \in DOMAIN list,
             NEW i \in DOMAIN list[p].nodes, NEW j \in DOMAIN list[q].nodes,
             p < q \/ (p = q /\ i < j)
      PROVE  list[p].nodes[i] < list[q].nodes[j]
  <2>1. CASE p = q
    <3>1. list[p].nodes[i] = End(list, p - 1) + i /\ list[q].nodes[j] = End(list, p - 1) + j
      BY <2>1 DEF Chained
    <3>2. End(list, p - 1) \in Nat /\ i \in Nat /\ j \in Nat
      <4>1. p - 1 \in 0 .. Len(list) /\ list[p] \in S /\ list[q] \in S
        BY <1>1
      <4>2. list[p].nodes \in Seq(Nat) /\ list[q].nodes \in Seq(Nat)
        BY <4>1 DEF Nonempty
      <4>3. i \in Nat /\ j \in Nat
        <5> DEFINE a == list[p].nodes
                   b == list[q].nodes
        <5>1. a \in Seq(Nat) /\ b \in Seq(Nat) /\ i \in DOMAIN a /\ j \in DOMAIN b
          BY <4>2
        <5> HIDE DEF a, b
        <5>2. QED
          BY <5>1
      <4>4. End(list, p - 1) \in Nat
        BY <1>2, <4>1
      <4>5. QED
        BY <4>3, <4>4
    <3>3. QED
      BY <1>1, <1>5, <2>1, <3>1, <3>2
  <2>2. CASE p < q
    <3>1. list[p].nodes[i] \in NodesOf(list[p]) /\ list[q].nodes[j] \in NodesOf(list[q])
      BY DEF NodesOf
    <3>2. /\ p \in 1 .. Len(list) /\ q \in 1 .. Len(list) /\ p \in 0 .. Len(list)
          /\ q - 1 \in 0 .. Len(list) /\ p - 1 \in 0 .. Len(list) /\ q \in 0 .. Len(list)
          /\ q - 1 \in p .. Len(list)
      BY <1>1, <2>2
    <3>3. /\ list[p].nodes[i] \in End(list, p - 1) + 1 .. End(list, p)
          /\ list[q].nodes[j] \in End(list, q - 1) + 1 .. End(list, q)
      BY <3>1, <3>2, ChainEnds
    <3>4. End(list, p) <= End(list, q - 1)
      BY <3>2, EndsGrow
    <3>5. /\ End(list, p - 1) \in Nat /\ End(list, p) \in Nat
          /\ End(list, q - 1) \in Nat /\ End(list, q) \in Nat
      BY <1>2, <3>2
    <3>6. QED
      BY <3>3, <3>4, <3>5
  <2>3. QED
    BY <1>5, <2>1, <2>2
<1>6. QED
  <2>1. UNION {NodesOf(list[p]) : p \in DOMAIN list} = 1 .. last
    <3> HIDE DEF last
    <3> QED
      BY <1>3, <1>4
  <2>2. QED
    BY <1>5, <2>1

-----------------------------------------------------------------------------
(* The accumulator.                                                        *)

\* ChunkAccumulator.
AccRecord ==
    [nodes : Seq(Nat), message : SUBSET Keys, alt : SUBSET Keys, cu : Nat, bytes : Nat]

\* The keys of intents are finitely many, and those of more intents are the
\* keys of all of them.
LEMMA UnionFacts ==
    ASSUME layer \in Seq(Footprints), NEW A \in SUBSET DOMAIN layer
    PROVE  /\ IsFiniteSet(A) /\ IsFiniteSet(UnionOfKeys(A))
           /\ UnionOfKeys(A) \subseteq Keys
           /\ Cardinality(UnionOfKeys(A)) \in Nat
           /\ \A B : UnionOfKeys(A \cup B) = UnionOfKeys(A) \cup UnionOfKeys(B)
<1> DEFINE T == {KeysOf(layer[i]) : i \in A}
<1>1. \A i \in A : layer[i] \in Footprints
  OBVIOUS
<1>2. IsFiniteSet(A)
  <2>1. DOMAIN layer = 1 .. Len(layer) /\ Len(layer) \in Nat
    OBVIOUS
  <2>2. IsFiniteSet(DOMAIN layer)
    BY <2>1, FS_Interval
  <2>3. QED
    BY <2>2, FS_Subset
<1>3. IsFiniteSet(T)
  <2>1. [i \in A |-> KeysOf(layer[i])] \in Surjection(A, T)
    BY DEF Surjection
  <2> HIDE DEF T
  <2>2. QED
    BY <1>2, <2>1, FS_Surjection
<1>4. \A K \in T : IsFiniteSet(K) /\ K \subseteq Keys
  BY <1>1, KeyPlaces
<1>5. IsFiniteSet(UNION T) /\ UNION T \subseteq Keys
  <2> HIDE DEF T
  <2> QED
    BY <1>3, <1>4, FS_UNION
<1>6. UnionOfKeys(A) = UNION T
  BY DEF UnionOfKeys
<1>7. \A B : UnionOfKeys(A \cup B) = UnionOfKeys(A) \cup UnionOfKeys(B)
  BY DEF UnionOfKeys
<1>8. QED
  BY <1>2, <1>5, <1>6, <1>7, FS_CardinalityType

\* The accumulator after chunk_layer_with took an intent in: its parts.
LEMMA AddedShape ==
    ASSUME opts \in Options, layer \in Seq(Footprints), NEW a \in AccRecord,
           NEW i \in DOMAIN layer
    PROVE  LET b == Added(a, i)
               fp == layer[i]
               kept == Kept(a, fp)
           IN  /\ b \in AccRecord
               /\ b.nodes = Append(a.nodes, i) /\ b.nodes # <<>>
               /\ Len(b.nodes) = Len(a.nodes) + 1 /\ Len(a.nodes) \in Nat
               /\ NodesOf(b) = NodesOf(a) \cup {i}
               /\ b.message = a.message \cup kept
               /\ b.alt = a.alt \cup (KeysOf(fp) \ (a.message \cup kept))
               /\ b.cu = a.cu + fp.cu
               /\ b.bytes = a.bytes + SelfBytes(fp)
               /\ SelfBytes(fp) = KeyCost(Len(fp.keys)) + fp.bytes
               /\ fp \in Footprints /\ fp.cu \in Nat /\ fp.bytes \in Nat
               /\ SelfBytes(fp) \in Nat
<1> DEFINE b == Added(a, i)
           fp == layer[i]
           kept == Kept(a, fp)
<1>1. fp \in Footprints /\ fp.cu \in Nat /\ fp.bytes \in Nat /\ i \in Nat
  <2>1. fp \in Footprints /\ i \in Nat
    OBVIOUS
  <2>2. fp \in Footprint
    BY <2>1, PlannerAssumption
  <2>3. QED
    BY <2>1, <2>2 DEF Footprint
<1>2. OptionTypes
  BY OptionsTyped
<1>3. Len(fp.keys) \in Nat /\ KeysOf(fp) \subseteq Keys
  BY <1>1, KeyPlaces
<1>4. SelfBytes(fp) = KeyCost(Len(fp.keys)) + fp.bytes
  <2>1. MessageUnique(fp) = InMessage(Len(fp.keys))
    BY DEF MessageUnique, InMessage
  <2>2. KeyCost(Len(fp.keys)) \in Nat /\ InMessage(Len(fp.keys)) \in Nat
    BY <1>2, <1>3, KeyCosts
  <2>3. QED
    BY <1>1, <1>3, <2>1, <2>2 DEF SelfBytes, AltUnique, KeyCost, KeyBytes, IndexBytes
<1>5. SelfBytes(fp) \in Nat
  <2>1. KeyCost(Len(fp.keys)) \in Nat
    BY <1>2, <1>3, KeyCosts
  <2>2. QED
    BY <1>1, <1>4, <2>1
<1>6. /\ b.nodes = Append(a.nodes, i)
      /\ b.message = a.message \cup kept
      /\ b.alt = a.alt \cup (KeysOf(fp) \ (a.message \cup kept))
      /\ b.cu = a.cu + fp.cu
      /\ b.bytes = a.bytes + SelfBytes(fp)
  BY DEF Added
<1>7. kept \subseteq KeysOf(fp)
  BY DEF Kept
<1>8. /\ a.nodes \in Seq(Nat) /\ a.message \subseteq Keys /\ a.alt \subseteq Keys
      /\ a.cu \in Nat /\ a.bytes \in Nat
  BY DEF AccRecord
<1>9. /\ Append(a.nodes, i) \in Seq(Nat) /\ Append(a.nodes, i) # <<>>
      /\ Len(Append(a.nodes, i)) = Len(a.nodes) + 1 /\ Len(a.nodes) \in Nat
  <2> DEFINE s == a.nodes
  <2>1. s \in Seq(Nat)
    BY <1>8
  <2> HIDE DEF s
  <2>2. /\ Append(s, i) \in Seq(Nat) /\ Append(s, i) # <<>>
        /\ Len(Append(s, i)) = Len(s) + 1 /\ Len(s) \in Nat
    <3>1. Len(s) \in Nat /\ Append(s, i) \in Seq(Nat)
      BY <1>1, <2>1
    <3>2. Len(Append(s, i)) = Len(s) + 1
      BY <1>1, <2>1
    <3>3. Append(s, i) # <<>>
      BY <3>1, <3>2
    <3>4. QED
      BY <3>1, <3>2, <3>3
  <2>3. QED
    BY <2>2 DEF s
<1>10. NodesOf(b) = NodesOf(a) \cup {i}
  <2> DEFINE s == a.nodes
             t == Append(s, i)
  <2>1. /\ DOMAIN s = 1 .. Len(s) /\ Len(s) \in Nat
        /\ DOMAIN t = 1 .. Len(s) + 1
        /\ \A k \in 1 .. Len(s) : t[k] = s[k]
        /\ t[Len(s) + 1] = i
    BY <1>1, <1>8
  <2> HIDE DEF s, t
  <2>2. {t[k] : k \in DOMAIN t} = {s[k] : k \in DOMAIN s} \cup {i}
    BY <2>1
  <2>3. QED
    BY <1>6, <2>2 DEF NodesOf, s, t
<1>11. b \in AccRecord
  <2>1. b.message \subseteq Keys /\ b.alt \subseteq Keys
    BY <1>3, <1>6, <1>7, <1>8
  <2>2. b.cu \in Nat /\ b.bytes \in Nat
    BY <1>1, <1>5, <1>6, <1>8
  <2>3. b = [nodes |-> b.nodes, message |-> b.message, alt |-> b.alt,
             cu |-> b.cu, bytes |-> b.bytes]
    BY DEF Added
  <2> HIDE DEF b
  <2>4. QED
    BY <1>6, <1>9, <2>1, <2>2, <2>3 DEF AccRecord
<1>12. QED
  <2> HIDE DEF b, fp, kept
  <2> QED
    BY <1>1, <1>4, <1>5, <1>6, <1>9, <1>10, <1>11 DEF b, fp, kept

\* The keys of the accumulator, before and after.
LEMMA AddedKeys ==
    ASSUME opts \in Options, layer \in Seq(Footprints), NEW a \in AccRecord, AccInv(a),
           NodesOf(a) \subseteq DOMAIN layer, NEW i \in DOMAIN layer
    PROVE  LET b == Added(a, i)
               u == Cardinality(UnionOfKeys(NodesOf(a)))
               n == Cardinality(KeysOf(layer[i]) \ UnionOfKeys(NodesOf(a)))
           IN  /\ u \in Nat /\ n \in Nat
               /\ Cardinality(UnionOfKeys(NodesOf(b))) = u + n
               /\ b.message \cup b.alt = UnionOfKeys(NodesOf(b))
               /\ b.message \cap b.alt = {}
               /\ Cardinality(b.message) = InMessage(u + n)
               /\ Cardinality(a.message) = InMessage(u)
               /\ Cardinality(a.alt) = u - InMessage(u)
<1> DEFINE b == Added(a, i)
           fp == layer[i]
           K == KeysOf(fp)
           U == UnionOfKeys(NodesOf(a))
           V == UnionOfKeys(NodesOf(b))
           new == K \ U
           kept == Kept(a, fp)
           u == Cardinality(U)
           n == Cardinality(new)
<1>1. OptionTypes
  BY OptionsTyped
<1>2. /\ fp \in Footprints
      /\ b.message = a.message \cup kept
      /\ b.alt = a.alt \cup (K \ (a.message \cup kept))
      /\ NodesOf(b) = NodesOf(a) \cup {i}
  BY AddedShape
<1>3. IsFiniteSet(U) /\ u \in Nat
  BY UnionFacts
<1>4. IsFiniteSet(new) /\ n \in Nat
  BY <1>2, KeyPlaces
<1>5. V = U \cup new
  <2>1. V = U \cup UnionOfKeys({i})
    BY <1>2, UnionFacts
  <2>2. UnionOfKeys({i}) = K
    BY DEF UnionOfKeys
  <2>3. QED
    BY <2>1, <2>2
<1>6. Cardinality(V) = u + n
  <2>1. Cardinality(U \cap new) = 0
    <3>1. U \cap new = {}
      OBVIOUS
    <3>2. QED
      BY <3>1, FS_EmptySet, Zenon
  <2>2. Cardinality(U \cup new) = u + n - Cardinality(U \cap new)
    <3> HIDE DEF U, new
    <3> QED
      BY <1>3, <1>4, FS_Union
  <2> HIDE DEF U, V, new
  <2>3. QED
    BY <1>3, <1>4, <1>5, <2>1, <2>2
<1>7. /\ a.message \cup a.alt = U /\ a.message \cap a.alt = {}
      /\ Cardinality(a.message) = InMessage(u)
  BY DEF AccInv
<1>8. InMessage(u) \in Nat /\ InMessage(u) <= u
  <2> HIDE DEF u
  <2> QED
    BY <1>1, <1>3, KeyCosts
<1>9. /\ kept \subseteq new
      /\ Cardinality(kept) = IF opts.alt THEN Lesser(n, opts.reserve - InMessage(u)) ELSE n
  <2>1. opts.alt => InMessage(u) <= opts.reserve
    <3> HIDE DEF u
    <3> QED
      BY <1>1, <1>3 DEF InMessage, Lesser, OptionTypes
  <2>2. Cardinality(a.message) \in Nat
    BY <1>7, <1>8
  <2>3. K \ (a.message \cup a.alt) = new
    BY <1>7
  <2>4. /\ kept \subseteq K \ (a.message \cup a.alt)
        /\ Cardinality(kept) =
              IF opts.alt THEN Lesser(Cardinality(K \ (a.message \cup a.alt)),
                                      opts.reserve - Cardinality(a.message))
              ELSE Cardinality(K \ (a.message \cup a.alt))
    <3> HIDE DEF u
    <3> QED
      BY <1>1, <1>2, <1>7, <2>1, <2>2, KeptFacts
  <2> HIDE DEF new, kept, K, u
  <2>5. QED
    BY <1>7, <2>3, <2>4
<1>10. b.message \cup b.alt = V /\ b.message \cap b.alt = {}
  <2> HIDE DEF b, K, U, V, kept
  <2> QED
    BY <1>2, <1>5, <1>7, <1>9
<1>11. IsFiniteSet(a.message) /\ IsFiniteSet(a.alt) /\ IsFiniteSet(kept)
  <2> HIDE DEF U, new, kept
  <2> QED
    BY <1>3, <1>4, <1>7, <1>9, FS_Subset
<1>12. Cardinality(b.message) = InMessage(u + n)
  <2>1. Cardinality(a.message \cap kept) = 0
    <3>1. a.message \cap kept = {}
      <4> HIDE DEF U, kept, K
      <4> QED
        BY <1>7, <1>9
    <3>2. QED
      BY <3>1, FS_EmptySet, Zenon
  <2>2. Cardinality(a.message \cup kept) =
           Cardinality(a.message) + Cardinality(kept) - Cardinality(a.message \cap kept)
    <3> HIDE DEF kept
    <3> QED
      BY <1>11, FS_Union
  <2>3. Cardinality(a.message \cup kept) = InMessage(u) + Cardinality(kept)
    <3>1. Cardinality(kept) \in Nat
      BY <1>11, FS_CardinalityType
    <3> HIDE DEF kept, u
    <3>2. QED
      BY <1>7, <1>8, <2>1, <2>2, <3>1
  <2>4. InMessage(u) + Cardinality(kept) = InMessage(u + n)
    <3> HIDE DEF u, n, kept
    <3> QED
      BY <1>1, <1>3, <1>4, <1>9 DEF InMessage, Lesser, OptionTypes
  <2>5. QED
    BY <1>2, <2>3, <2>4
<1>13. Cardinality(a.alt) = u - InMessage(u)
  <2>1. Cardinality(a.message \cap a.alt) = 0
    BY <1>7, FS_EmptySet, Zenon
  <2>2. Cardinality(a.message \cup a.alt) =
           Cardinality(a.message) + Cardinality(a.alt) - Cardinality(a.message \cap a.alt)
    BY <1>11, FS_Union
  <2>3. Cardinality(a.alt) \in Nat
    BY <1>11, FS_CardinalityType
  <2>4. Cardinality(a.message \cup a.alt) = u
    BY <1>7
  <2> HIDE DEF u
  <2>5. QED
    BY <1>3, <1>7, <1>8, <2>1, <2>2, <2>3, <2>4
<1>14. QED
  <2> HIDE DEF b, U, V, new, u, n
  <2> QED
    BY <1>3, <1>4, <1>6, <1>7, <1>10, <1>12, <1>13 DEF b, U, V, new, u, n, K, fp

\* What the empty accumulator holds, and that it satisfies the invariant.
LEMMA EmptyFacts ==
    ASSUME opts \in Options, layer \in Seq(Footprints)
    PROVE  /\ Empty \in AccRecord /\ AccInv(Empty)
           /\ NodesOf(Empty) = {} /\ Empty.nodes = <<>>
           /\ Empty.cu = 0 /\ Empty.bytes = 38 + opts.slack
           /\ UnionOfKeys({}) = {} /\ SumCu({}) = 0 /\ SumBytes({}) = 0
           /\ KeyCost(0) = 0 /\ InMessage(0) = 0
<1>1. OptionTypes
  BY OptionsTyped
<1>2. /\ Empty.nodes = <<>> /\ Empty.cu = 0 /\ Empty.bytes = 38 + opts.slack
      /\ Empty.message = {} /\ Empty.alt = {}
  BY DEF Empty, BaseBytes
<1>3. Empty \in AccRecord
  <2>1. 38 + opts.slack \in Nat /\ <<>> \in Seq(Nat)
    BY <1>1 DEF OptionTypes
  <2>2. QED
    BY <2>1 DEF Empty, AccRecord, BaseBytes
<1>4. NodesOf(Empty) = {}
  BY DEF NodesOf, Empty
<1>5. UnionOfKeys({}) = {}
  BY DEF UnionOfKeys
<1>6. SumCu({}) = 0 /\ SumBytes({}) = 0
  BY BytesInFacts, CuInFacts DEF SumCu, SumBytes
<1>7. KeyCost(0) = 0 /\ InMessage(0) = 0
  BY <1>1 DEF KeyCost, InMessage, Lesser, OptionTypes, KeyBytes, IndexBytes
<1>8. AccInv(Empty)
  <2>1. Cardinality({}) = 0
    BY FS_EmptySet
  <2>2. BaseBytes + opts.slack + KeyBytes * Len(Empty.nodes) <= Empty.bytes
    <3>1. Len(Empty.nodes) = 0
      BY <1>2
    <3>2. QED
      BY <1>1, <1>2, <3>1 DEF BaseBytes, KeyBytes, OptionTypes
  <2>3. QED
    BY <1>2, <1>4, <1>5, <1>7, <2>1, <2>2 DEF AccInv
<1>9. QED
  BY <1>2, <1>3, <1>4, <1>5, <1>6, <1>7, <1>8

\* What the sums of the accumulator are, whether it is empty or not.
LEMMA AccSums ==
    ASSUME opts \in Options, layer \in Seq(Footprints), NEW a \in AccRecord, AccInv(a)
    PROVE  /\ a.cu = SumCu(NodesOf(a)) /\ BytesCover(a, 1)
           /\ a.nodes = <<>> => NodesOf(a) = {} /\ a = Empty
<1>1. CASE a.nodes = <<>>
  <2>1. a = Empty
    BY <1>1 DEF AccInv
  <2>2. OptionTypes /\ Cardinality({}) = 0
    BY OptionsTyped, FS_EmptySet
  <2>3. BytesCover(Empty, 1)
    <3>1. KeyCost(Cardinality(UnionOfKeys(NodesOf(Empty)))) = 0 /\ SumBytes(NodesOf(Empty)) = 0
      BY <2>2, EmptyFacts
    <3>2. 1 * (BaseBytes + opts.slack) + 0 + 0 <= Empty.bytes
      <4>1. opts.slack \in Nat /\ Empty.bytes = 38 + opts.slack
        BY <2>2, EmptyFacts DEF OptionTypes
      <4>2. QED
        BY <4>1 DEF BaseBytes
    <3>3. QED
      BY <3>1, <3>2 DEF BytesCover
  <2>4. QED
    BY <2>1, <2>3, EmptyFacts
<1>2. CASE a.nodes # <<>>
  BY <1>2 DEF AccInv, WithinBudget
<1>3. QED
  BY <1>1, <1>2

\* The numbers of keys stay within the budget, whether they are all in the
\* message, all in a table, or misjudged.
LEMMA KeysWithin ==
    ASSUME OptionTypes, NEW u \in Nat, NEW n \in Nat, NEW np \in Nat, NEW L \in Nat,
           n <= np, np <= L, NEW maxKeys \in Nat, NEW maxAlt \in Nat,
           \/ /\ u = 0
              /\ InMessage(L) <= maxKeys /\ L - InMessage(L) <= maxAlt
           \/ /\ opts.alt /\ InMessage(u) >= opts.reserve
              /\ InMessage(u) <= maxKeys /\ (u - InMessage(u)) + np <= maxAlt
           \/ /\ ~ (opts.alt /\ InMessage(u) >= opts.reserve)
              /\ InMessage(u) + np <= maxKeys /\ u - InMessage(u) <= maxAlt
    PROVE  /\ InMessage(u + n) <= maxKeys
           /\ maxKeys <= opts.reserve + maxAlt => (u + n) - InMessage(u + n) <= maxAlt
<1>1. opts.reserve \in Nat
  BY DEF OptionTypes
<1>2. CASE opts.alt
  BY <1>1, <1>2 DEF InMessage, Lesser
<1>3. CASE ~ opts.alt
  BY <1>1, <1>3 DEF InMessage, Lesser
<1>4. QED
  BY <1>2, <1>3

\* An intent that is taken in, since it fits the accumulator or fits an empty
\* one, leaves it within the budgets.
LEMMA AddedKeeps ==
    ASSUME opts \in Options, layer \in Seq(Footprints), NEW a \in AccRecord, AccInv(a),
           NodesOf(a) \subseteq DOMAIN layer, NEW i \in DOMAIN layer, i \notin NodesOf(a),
           FitsInEmpty(layer[i]), a.nodes # <<>> => CanAdd(a, layer[i])
    PROVE  AccInv(Added(a, i))
<1> DEFINE b == Added(a, i)
           fp == layer[i]
           U == UnionOfKeys(NodesOf(a))
           u == Cardinality(U)
           n == Cardinality(KeysOf(fp) \ U)
           np == Cardinality({p \in DOMAIN fp.keys : fp.keys[p] \notin U})
           L == Len(fp.keys)
           msg == Cardinality(a.message)
           alt == Cardinality(a.alt)
           room == Len(a.nodes)
<1>1. OptionTypes
  BY OptionsTyped
<1>2. /\ b \in AccRecord /\ b.nodes # <<>> /\ Len(b.nodes) = room + 1 /\ room \in Nat
      /\ NodesOf(b) = NodesOf(a) \cup {i}
      /\ b.cu = a.cu + fp.cu /\ b.bytes = a.bytes + SelfBytes(fp)
      /\ SelfBytes(fp) = KeyCost(L) + fp.bytes
      /\ fp \in Footprints /\ fp.cu \in Nat /\ fp.bytes \in Nat /\ SelfBytes(fp) \in Nat
  BY AddedShape
<1>3. /\ u \in Nat /\ n \in Nat
      /\ Cardinality(UnionOfKeys(NodesOf(b))) = u + n
      /\ b.message \cup b.alt = UnionOfKeys(NodesOf(b))
      /\ b.message \cap b.alt = {}
      /\ Cardinality(b.message) = InMessage(u + n)
      /\ msg = InMessage(u) /\ alt = u - InMessage(u)
  BY AddedKeys
<1>4. L \in Nat /\ L > 0 /\ np \in Nat /\ n <= np /\ np <= L
  <2>1. L \in Nat \ {0} /\ np \in Nat /\ n <= np /\ np <= L
    BY <1>2, KeyPlaces
  <2> HIDE DEF L
  <2>2. QED
    BY <2>1
<1>5. a.cu \in Nat /\ a.bytes \in Nat
  BY DEF AccRecord
<1>6. a.nodes = <<>> => /\ u = 0 /\ a.bytes = 38 + opts.slack /\ a.cu = 0 /\ room = 0
  <2> SUFFICES ASSUME a.nodes = <<>>
               PROVE  u = 0 /\ a.bytes = 38 + opts.slack /\ a.cu = 0 /\ room = 0
    OBVIOUS
  <2>1. a = Empty /\ NodesOf(a) = {}
    BY AccSums
  <2>2. U = {}
    BY <2>1, EmptyFacts
  <2>3. u = 0
    BY <2>2, FS_EmptySet, Zenon
  <2>4. room = 0
    OBVIOUS
  <2>5. QED
    BY <2>1, <2>3, <2>4, EmptyFacts
<1>7. /\ 38 + opts.slack + SelfBytes(fp) <= opts.maxBytes
      /\ InMessage(L) <= opts.maxKeys /\ L - InMessage(L) <= opts.maxAlt
      /\ 1 <= opts.maxInstrs /\ fp.cu <= opts.maxCu
  <2>1. MessageUnique(fp) = InMessage(L)
    BY DEF MessageUnique, InMessage
  <2>2. InMessage(L) \in Nat
    <3> HIDE DEF L
    <3> QED
      BY <1>1, <1>4, KeyCosts
  <2>3. (IF AltUnique(fp) > 0 THEN opts.tableBytes ELSE 0) \in Nat
    BY <1>1 DEF OptionTypes
  <2>4. AloneBytes(fp) <= opts.maxBytes
    BY DEF FitsInEmpty
  <2>5. 38 + opts.slack + SelfBytes(fp) <= opts.maxBytes
    <3> DEFINE t == IF AltUnique(fp) > 0 THEN opts.tableBytes ELSE 0
    <3>1. AloneBytes(fp) = 38 + opts.slack + SelfBytes(fp) + t
      BY DEF AloneBytes, BaseBytes
    <3> HIDE DEF t
    <3>2. t \in Nat
      BY <2>3 DEF t
    <3>3. opts.slack \in Nat /\ opts.maxBytes \in Nat
      BY <1>1 DEF OptionTypes
    <3>4. SelfBytes(fp) \in Nat
      BY <1>2
    <3> HIDE DEF fp
    <3>5. QED
      BY <2>4, <3>1, <3>2, <3>3, <3>4
  <2>6. QED
    BY <2>1, <2>5 DEF FitsInEmpty, AltUnique
<1>8. a.nodes # <<>> =>
         /\ a.bytes + SelfBytes(fp) <= opts.maxBytes
         /\ room + 1 <= opts.maxInstrs /\ a.cu + fp.cu <= opts.maxCu
         /\ IF opts.alt /\ msg >= opts.reserve
            THEN msg <= opts.maxKeys /\ alt + np <= opts.maxAlt
            ELSE msg + np <= opts.maxKeys /\ alt <= opts.maxAlt
  <2> SUFFICES ASSUME a.nodes # <<>>, CanAdd(a, fp)
               PROVE  /\ a.bytes + SelfBytes(fp) <= opts.maxBytes
                      /\ room + 1 <= opts.maxInstrs /\ a.cu + fp.cu <= opts.maxCu
                      /\ IF opts.alt /\ msg >= opts.reserve
                         THEN msg <= opts.maxKeys /\ alt + np <= opts.maxAlt
                         ELSE msg + np <= opts.maxKeys /\ alt <= opts.maxAlt
    OBVIOUS
  <2> DEFINE newAlt == IF opts.alt /\ msg >= opts.reserve THEN np ELSE 0
             tables == IF a.alt = {} /\ newAlt > 0 THEN opts.tableBytes ELSE 0
  <2>1. a.message \cup a.alt = U
    BY DEF AccInv
  <2>2. /\ a.bytes + SelfBytes(fp) + tables <= opts.maxBytes
        /\ msg + np - newAlt <= opts.maxKeys
        /\ alt + newAlt <= opts.maxAlt
        /\ room + 1 <= opts.maxInstrs
        /\ a.cu + fp.cu <= opts.maxCu
    BY <2>1 DEF CanAdd, HasRoom
  <2>3. tables \in Nat /\ msg \in Nat /\ alt \in Nat
    <3>1. tables \in Nat
      BY <1>1 DEF OptionTypes
    <3>2. InMessage(u) \in Nat /\ InMessage(u) <= u
      <4> HIDE DEF u
      <4> QED
        BY <1>1, <1>3, KeyCosts
    <3> HIDE DEF u, msg, alt
    <3>3. QED
      BY <1>3, <3>1, <3>2
  <2>4. a.bytes + SelfBytes(fp) <= opts.maxBytes
    <3>1. opts.maxBytes \in Nat
      BY <1>1 DEF OptionTypes
    <3>2. SelfBytes(fp) \in Nat
      BY <1>2
    <3>3. a.bytes + SelfBytes(fp) + tables <= opts.maxBytes
      BY <2>2
    <3> HIDE DEF tables, fp
    <3>4. QED
      BY <1>5, <2>3, <3>1, <3>2, <3>3
  <2> HIDE DEF tables, msg, alt, np, room
  <2>5. QED
    BY <1>1, <1>4, <2>2, <2>3, <2>4 DEF OptionTypes
<1>9. Len(b.nodes) <= opts.maxInstrs
  <2> HIDE DEF room
  <2> QED
    BY <1>2, <1>6, <1>7, <1>8
<1>10. /\ InMessage(u + n) <= opts.maxKeys
       /\ opts.maxKeys <= opts.reserve + opts.maxAlt
             => (u + n) - InMessage(u + n) <= opts.maxAlt
  <2>1. opts.maxKeys \in Nat /\ opts.maxAlt \in Nat
    BY <1>1 DEF OptionTypes
  <2> HIDE DEF u, n, np, L, msg, alt
  <2>2. CASE a.nodes = <<>>
    <3>1. u = 0 /\ InMessage(L) <= opts.maxKeys /\ L - InMessage(L) <= opts.maxAlt
      BY <1>6, <1>7, <2>2
    <3>2. QED
      BY <1>1, <1>3, <1>4, <2>1, <3>1, KeysWithin
  <2>3. CASE a.nodes # <<>>
    <3>1. \/ /\ opts.alt /\ InMessage(u) >= opts.reserve
             /\ InMessage(u) <= opts.maxKeys /\ (u - InMessage(u)) + np <= opts.maxAlt
          \/ /\ ~ (opts.alt /\ InMessage(u) >= opts.reserve)
             /\ InMessage(u) + np <= opts.maxKeys /\ u - InMessage(u) <= opts.maxAlt
      BY <1>3, <1>8, <2>3
    <3>2. QED
      BY <1>1, <1>3, <1>4, <2>1, <3>1, KeysWithin
  <2>4. QED
    BY <2>2, <2>3
<1>11. SumCu(NodesOf(b)) = b.cu /\ SumBytes(NodesOf(b)) = SumBytes(NodesOf(a)) + fp.bytes
  <2>1. NodesOf(a) \in SUBSET DOMAIN layer /\ {i} \in SUBSET DOMAIN layer
        /\ NodesOf(a) \cap {i} = {}
    OBVIOUS
  <2>2. /\ CuIn(layer, NodesOf(a) \cup {i}) = CuIn(layer, NodesOf(a)) + fp.cu
        /\ BytesIn(layer, NodesOf(a) \cup {i}) = BytesIn(layer, NodesOf(a)) + fp.bytes
    BY <2>1, CuInFacts, BytesInFacts
  <2>3. a.cu = SumCu(NodesOf(a))
    BY AccSums
  <2>4. QED
    BY <1>2, <2>2, <2>3 DEF SumCu, SumBytes
<1>12. BytesCover(b, 1)
  <2>1. 38 + opts.slack + KeyCost(u) + SumBytes(NodesOf(a)) <= a.bytes
    <3>1. BytesCover(a, 1)
      BY AccSums
    <3>2. 1 * (BaseBytes + opts.slack) = 38 + opts.slack
      BY <1>1 DEF BaseBytes, OptionTypes
    <3>3. QED
      BY <3>1, <3>2 DEF BytesCover
  <2>2. SumBytes(NodesOf(a)) \in Nat
    BY BytesInFacts DEF SumBytes
  <2> HIDE DEF u, n, L, np
  <2>3. /\ KeyCost(u + n) <= KeyCost(u) + KeyCost(n) /\ KeyCost(n) <= KeyCost(L)
        /\ KeyCost(u) \in Nat /\ KeyCost(n) \in Nat /\ KeyCost(L) \in Nat
        /\ KeyCost(u + n) \in Nat
    <3>1. n <= L /\ u + n \in Nat
      BY <1>3, <1>4
    <3>2. QED
      BY <1>1, <1>3, <1>4, <3>1, KeyCosts
  <2>4. 38 + opts.slack + KeyCost(u + n) + (SumBytes(NodesOf(a)) + fp.bytes)
           <= a.bytes + (KeyCost(L) + fp.bytes)
    <3>1. opts.slack \in Nat /\ fp.bytes \in Nat
      BY <1>1, <1>2 DEF OptionTypes
    <3> DEFINE ku == KeyCost(u)
               kn == KeyCost(n)
               kl == KeyCost(L)
               kun == KeyCost(u + n)
               sum == SumBytes(NodesOf(a))
    <3>2. /\ ku \in Nat /\ kn \in Nat /\ kl \in Nat /\ kun \in Nat /\ sum \in Nat
          /\ 38 + opts.slack + ku + sum <= a.bytes /\ kun <= ku + kn /\ kn <= kl
      BY <2>1, <2>2, <2>3
    <3> HIDE DEF fp, ku, kn, kl, kun, sum
    <3>3. 38 + opts.slack + kun + (sum + fp.bytes) <= a.bytes + (kl + fp.bytes)
      <4>1. ASSUME NEW s \in Nat, NEW f \in Nat, NEW x \in Nat, 38 + s + ku + sum <= x
            PROVE  38 + s + kun + (sum + f) <= x + (kl + f)
        BY <3>2, <4>1
      <4>2. QED
        BY <1>5, <3>1, <3>2, <4>1
    <3>4. QED
      BY <3>3 DEF ku, kn, kl, kun, sum
  <2>5. 1 * (BaseBytes + opts.slack) = 38 + opts.slack
    BY <1>1 DEF BaseBytes, OptionTypes
  <2>6. QED
    BY <1>2, <1>3, <1>11, <2>4, <2>5 DEF BytesCover
<1>13. b.bytes <= opts.maxBytes /\ b.cu <= opts.maxCu
  <2> HIDE DEF b
  <2> QED
    BY <1>1, <1>2, <1>6, <1>7, <1>8 DEF OptionTypes
<1>14. (opts.alt => opts.reserve > 0) =>
           BaseBytes + opts.slack + KeyBytes * Len(b.nodes) <= b.bytes
  <2>1. (opts.alt => opts.reserve > 0) => KeyCost(L) >= 32
    <3> HIDE DEF L
    <3> QED
      BY <1>1, <1>4 DEF KeyCost, InMessage, Lesser, KeyBytes, IndexBytes, OptionTypes
  <2>2. (opts.alt => opts.reserve > 0) => 38 + opts.slack + 32 * room <= a.bytes
    BY DEF AccInv, BaseBytes, KeyBytes
  <2>3. KeyCost(L) \in Nat
    <3> HIDE DEF L
    <3> QED
      BY <1>1, <1>4, KeyCosts
  <2>4. b.bytes = a.bytes + (KeyCost(L) + fp.bytes) /\ Len(b.nodes) = room + 1
    BY <1>2
  <2>5. opts.slack \in Nat /\ fp.bytes \in Nat /\ room \in Nat
    BY <1>1, <1>2 DEF OptionTypes
  <2> HIDE DEF L, room, fp, b
  <2>6. (opts.alt => opts.reserve > 0) => 38 + opts.slack + 32 * (room + 1) <= b.bytes
    <3> DEFINE kl == KeyCost(L)
    <3> SUFFICES ASSUME opts.alt => opts.reserve > 0
                 PROVE  38 + opts.slack + 32 * (room + 1) <= b.bytes
      OBVIOUS
    <3>1. /\ kl \in Nat /\ kl >= 32 /\ 38 + opts.slack + 32 * room <= a.bytes
          /\ b.bytes = a.bytes + (kl + fp.bytes)
      BY <2>1, <2>2, <2>3, <2>4
    <3> HIDE DEF kl
    <3>2. QED
      BY <1>5, <2>5, <3>1
  <2>7. BaseBytes = 38 /\ KeyBytes = 32
    BY DEF BaseBytes, KeyBytes
  <2>8. QED
    BY <2>4, <2>6, <2>7
<1>15. WithinBudget(b)
  <2> HIDE DEF b, u, n
  <2> QED
    BY <1>3, <1>9, <1>10, <1>11, <1>12, <1>13 DEF WithinBudget
<1>16. QED
  <2> HIDE DEF b, u, n
  <2> QED
    BY <1>2, <1>3, <1>14, <1>15 DEF AccInv, b

-----------------------------------------------------------------------------
(* Steps.                                                                  *)

\* PlannedChunk, ChunkPlan, and a plan that chunks are being merged into.
ChunkRecord == [nodes : Seq(Nat) \ {<<>>}, cu : Nat, bytes : Nat]

PlanRecord ==
    [index : Nat, nodes : Seq(Nat) \ {<<>>}, cu : Nat, bytes : Nat, merged : Seq(Nat)]

HeadRecord ==
    [index : Nat, nodes : Seq(Nat), cu : Nat, bytes : Nat, merged : Seq(Nat)]

\* The records of PlannerTypeOK under their names.
LEMMA RecordFacts ==
    /\ Nonempty(ChunkRecord) /\ Nonempty(PlanRecord)
    /\ PlannerTypeOK <=>
          /\ opts \in Options /\ layer \in Seq(Footprints)
          /\ phase \in {"pack", "merge", "done", "failed"}
          /\ next \in Nat \ {0} /\ acc \in AccRecord
          /\ chunks \in Seq(ChunkRecord) /\ head \in HeadRecord
          /\ plans \in Seq(PlanRecord)
<1>1. Nonempty(ChunkRecord) /\ Nonempty(PlanRecord)
  BY DEF Nonempty, ChunkRecord, PlanRecord
<1>2. QED
  BY <1>1 DEF PlannerTypeOK, AccRecord, ChunkRecord, HeadRecord, PlanRecord

\* What depends on the budgets and the layer alone stays as it is.
LEMMA PlannerFrame ==
    ASSUME opts' = opts, layer' = layer
    PROVE  /\ \A a : AccInv(a)' <=> AccInv(a)
           /\ \A list : ChunksInv(list)' <=> ChunksInv(list)
           /\ \A list, p : PlanInv(list, p)' <=> PlanInv(list, p)
           /\ \A a, b : FitsMerged(a, b)' <=> FitsMerged(a, b)
           /\ \A list : Tight(list)' <=> Tight(list)
           /\ RoomyBudget' <=> RoomyBudget
<1>1. /\ \A k : InMessage(k)' = InMessage(k) /\ KeyCost(k)' = KeyCost(k)
      /\ \A A : UnionOfKeys(A)' = UnionOfKeys(A)
      /\ \A A : SumCu(A)' = SumCu(A) /\ SumBytes(A)' = SumBytes(A)
      /\ Empty' = Empty
  BY DEF InMessage, KeyCost, UnionOfKeys, SumCu, SumBytes, Empty
<1>2. \A c, k : BytesCover(c, k)' <=> BytesCover(c, k)
  BY <1>1 DEF BytesCover
<1>3. \A c : WithinBudget(c)' <=> WithinBudget(c)
  BY <1>1, <1>2 DEF WithinBudget
<1>4. \A a : AccInv(a)' <=> AccInv(a)
  BY <1>1, <1>3 DEF AccInv
<1>5. \A list : ChunksInv(list)' <=> ChunksInv(list)
  BY <1>3 DEF ChunksInv
<1>6. \A a, b : Apart(a, b)' <=> Apart(a, b)
  BY DEF Apart
<1>7. \A list, p : PlanInv(list, p)' <=> PlanInv(list, p)
  BY <1>2, <1>6 DEF PlanInv
<1>8. \A a, b : FitsMerged(a, b)' <=> FitsMerged(a, b)
  BY DEF FitsMerged
<1>9. \A list : Tight(list)' <=> Tight(list)
  BY <1>8 DEF Tight
<1>10. RoomyBudget' <=> RoomyBudget
  BY DEF RoomyBudget
<1>11. QED
  BY <1>4, <1>5, <1>7, <1>8, <1>9, <1>10

\* Nothing is packed of a layer that there may be.
Fresh ==
    /\ opts \in Options /\ layer \in Seq(Footprints)
    /\ phase = "pack" \/ (phase = "done" /\ layer = <<>>)
    /\ next = 1 /\ acc = Empty /\ chunks = <<>> /\ head = NoPlan /\ plans = <<>>

\* The invariant holds before the first intent is packed, and when there is
\* none.
LEMMA FreshHolds == Fresh => PlannerInv
<1> SUFFICES ASSUME Fresh
             PROVE  PlannerInv
  OBVIOUS
<1>1. /\ opts \in Options /\ layer \in Seq(Footprints)
      /\ phase = "pack" \/ (phase = "done" /\ layer = <<>>)
      /\ next = 1 /\ acc = Empty
      /\ chunks = <<>> /\ head = NoPlan /\ plans = <<>>
  BY DEF Fresh
<1>2. PlannerTypeOK
  <2>1. Empty \in AccRecord /\ NoPlan \in HeadRecord
    BY <1>1, EmptyFacts DEF NoPlan, HeadRecord
  <2>2. <<>> \in Seq(ChunkRecord) /\ <<>> \in Seq(PlanRecord)
    OBVIOUS
  <2>3. QED
    BY <1>1, <2>1, <2>2, RecordFacts
<1>3. AccInv(acc)
  BY <1>1, EmptyFacts
<1>4. ChunksInv(chunks) /\ PlansInv
  BY <1>1 DEF ChunksInv, PlansInv, Chained
<1>5. ProgressInv
  <2>1. /\ End(<<>>, Len(<<>>)) = 0 /\ Empty.nodes = <<>> /\ Len(layer) \in Nat
        /\ layer = <<>> => Len(layer) = 0
    BY <1>1 DEF End, Empty
  <2>2. QED
    BY <1>1, <2>1 DEF ProgressInv, GoesOn
<1>6. TightInv
  BY <1>1 DEF TightInv, Tight
<1>7. QED
  BY <1>2, <1>3, <1>4, <1>5, <1>6 DEF PlannerInv

\* The invariant holds initially.
LEMMA PlannerInitHolds == PlannerInit => PlannerInv
<1>1. PlannerInit => Fresh
  BY PlannerAssumption DEF PlannerInit, Fresh
<1>2. QED
  BY <1>1, FreshHolds

\* Giving the layer up changes nothing else.
LEMMA TooLargeKeeps ==
    ASSUME PlannerInv, TooLarge
    PROVE  PlannerInv'
<1>1. /\ phase = "pack" /\ phase' = "failed" /\ opts' = opts /\ layer' = layer
      /\ next' = next /\ acc' = acc /\ chunks' = chunks /\ head' = head /\ plans' = plans
  BY DEF TooLarge, Packing
<1>2. PlannerTypeOK'
  BY <1>1 DEF PlannerInv, PlannerTypeOK
<1>3. AccInv(acc)' /\ ChunksInv(chunks)'
  BY <1>1, PlannerFrame DEF PlannerInv
<1>4. PlansInv'
  BY <1>1, PlannerFrame DEF PlannerInv, PlansInv
<1>5. ProgressInv'
  BY <1>1 DEF PlannerInv, ProgressInv
<1>6. TightInv'
  BY <1>1, PlannerFrame DEF PlannerInv, TightInv
<1>7. QED
  BY <1>2, <1>3, <1>4, <1>5, <1>6 DEF PlannerInv

\* A step that changes nothing.
LEMMA PlannerStutter ==
    ASSUME PlannerInv, UNCHANGED plannerVars
    PROVE  PlannerInv'
<1>1. /\ phase' = phase /\ opts' = opts /\ layer' = layer
      /\ next' = next /\ acc' = acc /\ chunks' = chunks /\ head' = head /\ plans' = plans
  BY DEF plannerVars
<1>2. PlannerTypeOK'
  BY <1>1 DEF PlannerInv, PlannerTypeOK
<1>3. AccInv(acc)' /\ ChunksInv(chunks)'
  BY <1>1, PlannerFrame DEF PlannerInv
<1>4. PlansInv'
  BY <1>1, PlannerFrame DEF PlannerInv, PlansInv
<1>5. ProgressInv'
  BY <1>1, PlannerFrame DEF PlannerInv, ProgressInv
<1>6. TightInv'
  BY <1>1, PlannerFrame DEF PlannerInv, TightInv
<1>7. QED
  BY <1>2, <1>3, <1>4, <1>5, <1>6 DEF PlannerInv

\* While packing, the accumulator holds the intents from the last chunk up to
\* the next one.
LEMMA PackingFacts ==
    ASSUME PlannerInv, phase = "pack"
    PROVE  LET e == End(chunks, Len(chunks))
           IN  /\ e \in Nat /\ Len(layer) \in Nat /\ next \in Nat
               /\ Len(acc.nodes) \in Nat /\ acc.nodes \in Seq(Nat)
               /\ next = e + Len(acc.nodes) + 1
               /\ DOMAIN layer = 1 .. Len(layer)
               /\ NodesOf(acc) = e + 1 .. next - 1
               /\ NodesOf(acc) \subseteq DOMAIN layer /\ next \notin NodesOf(acc)
               /\ next <= Len(layer) => next \in DOMAIN layer
<1> DEFINE e == End(chunks, Len(chunks))
<1>1. /\ layer \in Seq(Footprints) /\ chunks \in Seq(ChunkRecord) /\ Chained(chunks)
      /\ next \in Nat \ {0} /\ acc \in AccRecord /\ Nonempty(ChunkRecord)
  BY RecordFacts DEF PlannerInv, ChunksInv
<1>2. e \in Nat
  <2>1. Len(chunks) \in 0 .. Len(chunks)
    BY <1>1
  <2>2. QED
    BY <1>1, <2>1, ChainEnds
<1>3. acc.nodes \in Seq(Nat) /\ Len(acc.nodes) \in Nat
  BY <1>1 DEF AccRecord
<1>4. /\ \A k \in DOMAIN acc.nodes : acc.nodes[k] = e + k
      /\ next = e + Len(acc.nodes) + 1 /\ next <= Len(layer) + 1
  BY DEF PlannerInv, ProgressInv, GoesOn
<1>5. DOMAIN layer = 1 .. Len(layer) /\ Len(layer) \in Nat
  BY <1>1
<1> HIDE DEF e
<1>6. NodesOf(acc) = e + 1 .. next - 1
  <2>1. DOMAIN acc.nodes = 1 .. Len(acc.nodes)
    BY <1>3
  <2>2. \A k \in 1 .. Len(acc.nodes) : acc.nodes[k] = e + k
    BY <1>4, <2>1
  <2>3. NodesOf(acc) = {e + k : k \in 1 .. Len(acc.nodes)}
    BY <2>1, <2>2 DEF NodesOf
  <2>4. \A x \in e + 1 .. next - 1 : x - e \in 1 .. Len(acc.nodes) /\ x = e + (x - e)
    BY <1>2, <1>3, <1>4
  <2>5. \A k \in 1 .. Len(acc.nodes) : e + k \in e + 1 .. next - 1
    BY <1>2, <1>3, <1>4
  <2>6. QED
    BY <2>3, <2>4, <2>5
<1>7. /\ NodesOf(acc) \subseteq DOMAIN layer /\ next \notin NodesOf(acc)
      /\ next <= Len(layer) => next \in DOMAIN layer
  BY <1>1, <1>2, <1>3, <1>4, <1>5, <1>6
<1>8. QED
  BY <1>1, <1>2, <1>3, <1>4, <1>5, <1>6, <1>7 DEF e

\* What is taken in goes on where the accumulator ended.
LEMMA AddToChunkKeeps ==
    ASSUME PlannerInv, AddToChunk
    PROVE  PlannerInv'
<1> DEFINE e == End(chunks, Len(chunks))
<1>1. /\ phase = "pack" /\ phase' = "pack" /\ opts' = opts /\ layer' = layer
      /\ next' = next + 1 /\ acc' = Added(acc, next) /\ chunks' = chunks
      /\ head' = head /\ plans' = plans
      /\ next <= Len(layer) /\ FitsInEmpty(layer[next])
      /\ acc.nodes # <<>> => CanAdd(acc, layer[next])
  BY DEF AddToChunk, Packing, NeedsSplit
<1>2. /\ opts \in Options /\ layer \in Seq(Footprints) /\ acc \in AccRecord
      /\ chunks \in Seq(ChunkRecord) /\ AccInv(acc)
      /\ head \in HeadRecord /\ plans \in Seq(PlanRecord)
  BY RecordFacts DEF PlannerInv
<1>3. /\ e \in Nat /\ Len(layer) \in Nat /\ next \in Nat /\ Len(acc.nodes) \in Nat
      /\ acc.nodes \in Seq(Nat)
      /\ next = e + Len(acc.nodes) + 1 /\ next \in DOMAIN layer
      /\ NodesOf(acc) \subseteq DOMAIN layer /\ next \notin NodesOf(acc)
  BY <1>1, PackingFacts
<1>4. /\ acc' \in AccRecord /\ acc'.nodes = Append(acc.nodes, next) /\ acc'.nodes # <<>>
      /\ acc'.cu = acc.cu + layer[next].cu
      /\ acc'.bytes = acc.bytes + SelfBytes(layer[next])
      /\ layer[next].cu \in Nat /\ SelfBytes(layer[next]) \in Nat
  BY <1>1, <1>2, <1>3, AddedShape
<1>5. PlannerTypeOK'
  <2>1. next' \in Nat \ {0}
    BY <1>1, <1>3
  <2>2. QED
    BY <1>1, <1>2, <1>4, <2>1 DEF PlannerTypeOK, AccRecord, ChunkRecord, HeadRecord, PlanRecord
<1>6. AccInv(acc)'
  <2>1. AccInv(Added(acc, next))
    BY <1>1, <1>2, <1>3, AddedKeeps
  <2>2. QED
    BY <1>1, <2>1, PlannerFrame
<1>7. ChunksInv(chunks)'
  BY <1>1, PlannerFrame DEF PlannerInv
<1>8. PlansInv'
  BY <1>1, PlannerFrame DEF PlannerInv, PlansInv
<1>9. ProgressInv'
  <2>1. GoesOn(chunks, acc.nodes)
    BY <1>1 DEF PlannerInv, ProgressInv
  <2>2. /\ DOMAIN Append(acc.nodes, next) = 1 .. Len(acc.nodes) + 1
        /\ DOMAIN acc.nodes = 1 .. Len(acc.nodes)
        /\ Len(Append(acc.nodes, next)) = Len(acc.nodes) + 1
        /\ \A k \in 1 .. Len(acc.nodes) : Append(acc.nodes, next)[k] = acc.nodes[k]
        /\ Append(acc.nodes, next)[Len(acc.nodes) + 1] = next
    BY <1>3
  <2>3. \A k \in 1 .. Len(acc.nodes) + 1 : Append(acc.nodes, next)[k] = e + k
    <3>1. \A k \in 1 .. Len(acc.nodes) : acc.nodes[k] = e + k
      BY <2>1, <2>2 DEF GoesOn
    <3> DEFINE n == Len(acc.nodes)
    <3>2. next = e + (n + 1)
      BY <1>3
    <3> HIDE DEF e, n
    <3>3. \A k \in 1 .. n + 1 : k \in 1 .. n \/ k = n + 1
      BY <1>3 DEF n
    <3>4. QED
      BY <2>2, <3>1, <3>2, <3>3 DEF n
  <2>4. GoesOn(chunks', acc'.nodes)
    BY <1>1, <1>4, <2>2, <2>3 DEF GoesOn
  <2>5. next' = e + Len(acc'.nodes) + 1 /\ next' <= Len(layer) + 1
    <3>1. Len(acc'.nodes) = Len(acc.nodes) + 1
      BY <1>4, <2>2
    <3> DEFINE n == Len(acc.nodes)
               last == Len(layer)
    <3>2. /\ e \in Nat /\ n \in Nat /\ last \in Nat /\ next = e + n + 1
          /\ next' = next + 1 /\ next <= last
      BY <1>1, <1>3
    <3> HIDE DEF e, n, last
    <3>3. next' = e + (n + 1) + 1 /\ next' <= last + 1
      BY <3>2
    <3>4. QED
      BY <3>1, <3>3 DEF n, last
  <2>6. plans' = <<>>
    BY <1>1 DEF PlannerInv, ProgressInv
  <2>7. QED
    BY <1>1, <2>4, <2>5, <2>6 DEF ProgressInv
<1>10. TightInv'
  <2>1. TightInv
    BY DEF PlannerInv
  <2>2. ASSUME RoomyBudget, chunks # <<>>
        PROVE  ~ FitsMerged(chunks[Len(chunks)], acc')
    <3> DEFINE c == chunks[Len(chunks)]
    <3>1. ~ FitsMerged(c, acc)
      BY <1>1, <2>1, <2>2 DEF TightInv
    <3>2. c.cu \in Nat /\ c.bytes \in Nat
      <4>1. Len(chunks) \in 1 .. Len(chunks)
        BY <1>2, <2>2
      <4>2. c \in ChunkRecord
        BY <1>2, <4>1
      <4>3. QED
        BY <4>2 DEF ChunkRecord
    <3>3. acc.cu \in Nat /\ acc.bytes \in Nat /\ opts.chunkCu \in Nat /\ opts.maxMessage \in Nat
      BY <1>2, OptionsTyped DEF AccRecord, OptionTypes
    <3>4. c.cu + acc'.cu >= c.cu + acc.cu /\ c.bytes + acc'.bytes >= c.bytes + acc.bytes
      <4>1. \A x, y, z, w \in Nat : w = y + z => x + w >= x + y
        OBVIOUS
      <4>2. acc'.cu \in Nat /\ acc'.bytes \in Nat
        BY <1>4 DEF AccRecord
      <4>3. QED
        BY <1>4, <3>2, <3>3, <4>1, <4>2
    <3>5. /\ c.cu + acc.cu \in Nat /\ c.bytes + acc.bytes \in Nat
          /\ c.cu + acc'.cu \in Nat /\ c.bytes + acc'.bytes \in Nat
      <4>1. acc'.cu \in Nat /\ acc'.bytes \in Nat
        BY <1>4 DEF AccRecord
      <4>2. \A x, y \in Nat : x + y \in Nat
        OBVIOUS
      <4>3. QED
        BY <3>2, <3>3, <4>1, <4>2
    <3> HIDE DEF c
    <3>6. ASSUME FitsMerged(c, acc')
          PROVE  FALSE
      <4>1. c.cu + acc'.cu <= opts.chunkCu /\ c.bytes + acc'.bytes <= opts.maxMessage
        BY <3>6 DEF FitsMerged
      <4>2. \A x, y, z \in Nat : x >= y /\ x <= z => y <= z
        OBVIOUS
      <4>3. c.cu + acc.cu <= opts.chunkCu /\ c.bytes + acc.bytes <= opts.maxMessage
        BY <3>3, <3>4, <3>5, <4>1, <4>2
      <4>4. QED
        BY <3>1, <4>3 DEF FitsMerged
    <3>7. QED
      BY <3>6 DEF c
  <2>3. QED
    BY <1>1, <2>1, <2>2, PlannerFrame DEF TightInv
<1>11. QED
  BY <1>5, <1>6, <1>7, <1>8, <1>9, <1>10 DEF PlannerInv

\* Under a roomy budget an intent that the accumulator cannot take does not fit
\* it as a chunk of its own either.
LEMMA SplitIsTight ==
    ASSUME opts \in Options, layer \in Seq(Footprints), NEW a \in AccRecord, AccInv(a),
           a.nodes # <<>>, NodesOf(a) \subseteq DOMAIN layer, NEW i \in DOMAIN layer,
           ~ CanAdd(a, layer[i]), RoomyBudget
    PROVE  ~ FitsMerged(a, Added(Empty, i))
<1> DEFINE fp == layer[i]
           U == UnionOfKeys(NodesOf(a))
           u == Cardinality(U)
           np == Cardinality({p \in DOMAIN fp.keys : fp.keys[p] \notin U})
           l == Len(fp.keys)
           room == Len(a.nodes)
           self == SelfBytes(fp)
<1> SUFFICES ASSUME FitsMerged(a, Added(Empty, i))
             PROVE  CanAdd(a, fp)
  OBVIOUS
<1>1. OptionTypes
  BY OptionsTyped
<1>2. /\ fp \in Footprints /\ fp.cu \in Nat /\ fp.bytes \in Nat /\ self \in Nat
      /\ self = KeyCost(l) + fp.bytes /\ room \in Nat
  BY AddedShape
<1>3. Added(Empty, i).cu = 0 + fp.cu /\ Added(Empty, i).bytes = 38 + opts.slack + self
  <2>1. Empty \in AccRecord /\ Empty.cu = 0 /\ Empty.bytes = 38 + opts.slack
    BY EmptyFacts
  <2>2. QED
    BY <2>1, AddedShape
<1>4. a.cu + fp.cu <= opts.chunkCu /\ a.bytes + (38 + opts.slack + self) <= opts.maxMessage
  <2>1. 0 + fp.cu = fp.cu
    <3>1. \A x \in Nat : 0 + x = x
      OBVIOUS
    <3>2. QED
      BY <1>2, <3>1
  <2>2. QED
    BY <1>3, <2>1 DEF FitsMerged
<1>5. a.cu \in Nat /\ a.bytes \in Nat
  BY DEF AccRecord
<1>6. u \in Nat /\ a.message \cup a.alt = U /\ Cardinality(a.message) = InMessage(u)
  BY UnionFacts DEF AccInv
<1>7. l \in Nat /\ l > 0 /\ np \in Nat /\ np <= l
  <2>1. l \in Nat \ {0} /\ np \in Nat /\ np <= l
    BY <1>2, KeyPlaces
  <2> HIDE DEF l
  <2>2. QED
    BY <2>1
<1>8. 38 + opts.slack + KeyCost(u) <= a.bytes
  <2>1. BytesCover(a, 1) /\ SumBytes(NodesOf(a)) \in Nat
    BY BytesInFacts DEF AccInv, WithinBudget, SumBytes
  <2>2. 1 * (BaseBytes + opts.slack) = 38 + opts.slack /\ opts.slack \in Nat
    BY <1>1 DEF BaseBytes, OptionTypes
  <2>3. 38 + opts.slack + KeyCost(u) + SumBytes(NodesOf(a)) <= a.bytes
    BY <2>1, <2>2 DEF BytesCover
  <2>4. KeyCost(u) \in Nat
    <3> HIDE DEF u
    <3> QED
      BY <1>1, <1>6, KeyCosts
  <2>5. \A w, x, y, z \in Nat : 38 + w + x + y <= z => 38 + w + x <= z
    OBVIOUS
  <2>6. QED
    BY <1>5, <2>1, <2>2, <2>3, <2>4, <2>5
<1>9. (opts.alt => opts.reserve > 0) => 38 + opts.slack + 32 * room <= a.bytes
  BY DEF AccInv, BaseBytes, KeyBytes
<1>10. /\ opts.maxMessage <= opts.maxBytes /\ opts.chunkCu <= opts.maxCu
       /\ opts.maxMessage <= 32 * opts.maxKeys /\ opts.maxMessage <= 32 * opts.maxInstrs
       /\ opts.alt => opts.maxMessage < 32 * opts.reserve + 38 + opts.slack
  BY DEF RoomyBudget, KeyBytes, BaseBytes
<1>11. /\ InMessage(u) \in Nat /\ InMessage(l) \in Nat
       /\ KeyCost(u) = 32 * InMessage(u) + (u - InMessage(u))
       /\ KeyCost(l) = 32 * InMessage(l) + (l - InMessage(l))
       /\ KeyCost(u) \in Nat /\ KeyCost(l) \in Nat
  <2> HIDE DEF u, l
  <2> QED
    BY <1>1, <1>6, <1>7, KeyCosts
<1>12. self >= KeyCost(l)
  <2>1. \A x, y, z \in Nat : x = y + z => x >= y
    OBVIOUS
  <2>2. QED
    BY <1>2, <1>11, <2>1
<1>13. opts.slack \in Nat /\ opts.reserve \in Nat /\ opts.maxMessage \in Nat
       /\ opts.maxKeys \in Nat /\ opts.maxInstrs \in Nat /\ opts.maxBytes \in Nat
       /\ opts.chunkCu \in Nat /\ opts.maxCu \in Nat /\ opts.maxAlt \in Nat
  BY <1>1 DEF OptionTypes
<1>14. /\ InMessage(u) = u /\ InMessage(l) = l
       /\ opts.alt => opts.reserve > 0
       /\ ~ (opts.alt /\ InMessage(u) >= opts.reserve)
  <2> HIDE DEF u, l, self, np, room, fp
  <2>1. CASE opts.alt
    <3>1. /\ InMessage(u) = IF u <= opts.reserve THEN u ELSE opts.reserve
          /\ InMessage(l) = IF l <= opts.reserve THEN l ELSE opts.reserve
      BY <2>1 DEF InMessage, Lesser
    <3> DEFINE s == opts.slack
               reserve == opts.reserve
               most == opts.maxMessage
               bytes == a.bytes
               mu == InMessage(u)
               ml == InMessage(l)
               ku == KeyCost(u)
               kl == KeyCost(l)
    <3>2. /\ s \in Nat /\ reserve \in Nat /\ most \in Nat /\ bytes \in Nat
          /\ mu \in Nat /\ ml \in Nat /\ self \in Nat
          /\ ku = 32 * mu + (u - mu) /\ kl = 32 * ml + (l - ml)
          /\ self >= kl /\ 38 + s + ku <= bytes /\ bytes + (38 + s + self) <= most
          /\ most < 32 * reserve + 38 + s
          /\ mu = (IF u <= reserve THEN u ELSE reserve)
          /\ ml = (IF l <= reserve THEN l ELSE reserve)
      BY <1>2, <1>4, <1>5, <1>8, <1>10, <1>11, <1>12, <1>13, <2>1, <3>1
    <3> HIDE DEF s, reserve, most, bytes, mu, ml, ku, kl
    <3>3. mu < reserve /\ mu = u /\ ml = l /\ reserve > 0
      <4>1. self >= 32 * ml + (l - ml) /\ 38 + s + 32 * mu + (u - mu) <= bytes
        BY <1>6, <1>7, <3>2
      <4>2. mu < reserve
        BY <1>6, <1>7, <3>2, <4>1
      <4>3. ml < reserve
        BY <1>6, <1>7, <3>2, <4>1
      <4>4. QED
        BY <1>6, <1>7, <3>2, <4>2, <4>3
    <3>4. ~ (mu >= reserve)
      BY <3>2, <3>3
    <3>5. QED
      BY <2>1, <3>3, <3>4 DEF mu, ml, reserve
  <2>2. CASE ~ opts.alt
    BY <2>2 DEF InMessage
  <2>3. QED
    BY <2>1, <2>2
<1>15. u + np <= opts.maxKeys /\ room + 1 <= opts.maxInstrs
  <2> HIDE DEF u, l, self, np, room, fp
  <2> DEFINE s == opts.slack
             most == opts.maxMessage
             bytes == a.bytes
             ku == KeyCost(u)
             kl == KeyCost(l)
             maxKeys == opts.maxKeys
             maxInstrs == opts.maxInstrs
  <2>1. ku = 32 * u + (u - u) /\ kl = 32 * l + (l - l)
    BY <1>11, <1>14
  <2>2. 38 + s + 32 * room <= bytes
    BY <1>9, <1>14
  <2>3. /\ s \in Nat /\ most \in Nat /\ bytes \in Nat /\ self \in Nat /\ room \in Nat
        /\ maxKeys \in Nat /\ maxInstrs \in Nat
        /\ self >= kl /\ 38 + s + ku <= bytes /\ bytes + (38 + s + self) <= most
        /\ most <= 32 * maxKeys /\ most <= 32 * maxInstrs
    BY <1>2, <1>4, <1>5, <1>8, <1>10, <1>12, <1>13
  <2> HIDE DEF s, most, bytes, ku, kl, maxKeys, maxInstrs
  <2>4. self >= 32 * l /\ 38 + s + 32 * u <= bytes
    BY <1>6, <1>7, <2>1, <2>3
  <2>5. u + np <= maxKeys /\ room + 1 <= maxInstrs
    <3>1. 32 * u + 32 * l <= 32 * maxKeys
      BY <1>6, <1>7, <2>3, <2>4
    <3>2. 32 * room + 32 <= 32 * maxInstrs
      <4>1. 32 <= self
        BY <1>7, <2>3, <2>4
      <4>2. QED
        BY <2>2, <2>3, <4>1
    <3>3. u + l <= maxKeys
      BY <1>6, <1>7, <2>3, <3>1
    <3>4. QED
      BY <1>6, <1>7, <2>3, <3>2, <3>3
  <2>6. QED
    BY <2>5 DEF maxKeys, maxInstrs
<1>16. QED
  <2> DEFINE full == opts.alt /\ Cardinality(a.message) >= opts.reserve
  <2>1. ~ full
    BY <1>6, <1>14
  <2>2. /\ Cardinality(a.message) = u /\ Cardinality(a.alt) = 0
    <3>1. IsFiniteSet(U) /\ a.message \cap a.alt = {}
      BY UnionFacts DEF AccInv
    <3>2. Cardinality(a.message) = u
      BY <1>6, <1>14
    <3>3. a.message \subseteq U /\ Cardinality(a.message) = Cardinality(U)
      BY <1>6, <3>2
    <3>4. a.message = U
      <4> HIDE DEF U
      <4> QED
        BY <3>1, <3>3, FS_Subset
    <3>5. a.alt = {}
      BY <1>6, <3>1, <3>4
    <3>6. Cardinality(a.alt) = 0
      BY <3>5, FS_EmptySet, Zenon
    <3>7. QED
      BY <3>2, <3>6
  <2>3. a.bytes + self <= opts.maxBytes /\ a.cu + fp.cu <= opts.maxCu
    <3>1. \A w, x, y, z, v \in Nat : x + (38 + w + y) <= z /\ z <= v => x + y <= v
      OBVIOUS
    <3>2. \A x, y, z, v \in Nat : x + y <= z /\ z <= v => x + y <= v
      OBVIOUS
    <3> HIDE DEF self, fp
    <3>3. QED
      BY <1>2, <1>4, <1>5, <1>10, <1>13, <3>1, <3>2
  <2>4. {p \in DOMAIN fp.keys : fp.keys[p] \notin a.message \cup a.alt} =
           {p \in DOMAIN fp.keys : fp.keys[p] \notin U}
    BY <1>6
  <2>5. /\ a.bytes + self + 0 <= opts.maxBytes
        /\ Cardinality(a.message) + np - 0 <= opts.maxKeys
        /\ Cardinality(a.alt) + 0 <= opts.maxAlt
        /\ HasRoom(a) /\ a.cu + fp.cu <= opts.maxCu
    <3>1. a.bytes + self + 0 <= opts.maxBytes
      <4>1. \A x, y, z \in Nat : x + y <= z => x + y + 0 <= z
        OBVIOUS
      <4> HIDE DEF self
      <4>2. QED
        BY <1>2, <1>5, <1>13, <2>3, <4>1
    <3>2. Cardinality(a.message) + np - 0 <= opts.maxKeys
      <4> HIDE DEF u, np
      <4> QED
        BY <1>6, <1>7, <1>15, <2>2
    <3>3. Cardinality(a.alt) + 0 <= opts.maxAlt
      BY <1>13, <2>2
    <3>4. HasRoom(a)
      BY <1>15 DEF HasRoom
    <3>5. QED
      BY <2>3, <3>1, <3>2, <3>3, <3>4
  <2>6. (IF full THEN np ELSE 0) = 0
    BY <2>1
  <2>7. (IF a.alt = {} /\ 0 > 0 THEN opts.tableBytes ELSE 0) = 0
    OBVIOUS
  <2> HIDE DEF self, np, full, U
  <2>8. QED
    BY <2>4, <2>5, <2>6, <2>7 DEF CanAdd, np, full, self

\* The chunk that is made of the accumulator is within the budgets, and as
\* large as the accumulator was.
LEMMA PlannedFacts ==
    ASSUME NEW a \in AccRecord, AccInv(a), a.nodes # <<>>
    PROVE  /\ Planned(a) \in ChunkRecord /\ Planned(a).nodes = a.nodes
           /\ NodesOf(Planned(a)) = NodesOf(a) /\ WithinBudget(Planned(a))
           /\ Planned(a).cu = a.cu /\ Planned(a).bytes = a.bytes
           /\ \A c : /\ FitsMerged(c, Planned(a)) <=> FitsMerged(c, a)
                     /\ FitsMerged(Planned(a), c) <=> FitsMerged(a, c)
<1>1. Planned(a).nodes = a.nodes /\ Planned(a).cu = a.cu /\ Planned(a).bytes = a.bytes
  BY DEF Planned
<1>2. Planned(a) \in ChunkRecord
  BY DEF Planned, AccRecord, ChunkRecord
<1>3. NodesOf(Planned(a)) = NodesOf(a)
  BY <1>1 DEF NodesOf
<1>4. BytesCover(a, 1) <=> BytesCover(Planned(a), 1)
  BY <1>1, <1>3 DEF BytesCover
<1>5. WithinBudget(Planned(a))
  <2>1. WithinBudget(a)
    BY DEF AccInv
  <2>2. QED
    BY <1>1, <1>3, <1>4, <2>1 DEF WithinBudget
<1>6. QED
  BY <1>1, <1>2, <1>3, <1>5 DEF FitsMerged

\* A chunk that goes on where the list ends keeps what is said of the chunks.
LEMMA ChunksGrow ==
    ASSUME NEW list \in Seq(ChunkRecord), ChunksInv(list), NEW c \in ChunkRecord,
           GoesOn(list, c.nodes), NodesOf(c) \subseteq DOMAIN layer, WithinBudget(c)
    PROVE  /\ Append(list, c) \in Seq(ChunkRecord) /\ ChunksInv(Append(list, c))
           /\ Len(Append(list, c)) = Len(list) + 1
           /\ Append(list, c)[Len(list) + 1] = c
           /\ End(Append(list, c), Len(list) + 1) = End(list, Len(list)) + Len(c.nodes)
           /\ Tight(list) /\ (list # <<>> => ~ FitsMerged(list[Len(list)], c))
                => Tight(Append(list, c))
<1> DEFINE long == Append(list, c)
<1>1. Nonempty(ChunkRecord) /\ Chained(list)
  BY RecordFacts DEF ChunksInv
<1>2. /\ long \in Seq(ChunkRecord) /\ Chained(long)
      /\ End(long, Len(list) + 1) = End(list, Len(list)) + Len(c.nodes)
  BY <1>1, ChainGrows
<1>3. /\ Len(long) = Len(list) + 1 /\ Len(list) \in Nat /\ long[Len(list) + 1] = c
      /\ \A i \in 1 .. Len(list) : long[i] = list[i]
      /\ DOMAIN long = 1 .. Len(list) + 1 /\ DOMAIN list = 1 .. Len(list)
      /\ list # <<>> <=> Len(list) > 0
  OBVIOUS
<1> HIDE DEF long
<1>4. ChunksInv(long)
  <2>1. \A i \in DOMAIN long : long[i] = c \/ (i \in DOMAIN list /\ long[i] = list[i])
    <3>1. \A i \in 1 .. Len(list) + 1 : i \in 1 .. Len(list) \/ i = Len(list) + 1
      BY <1>3
    <3>2. QED
      BY <1>3, <3>1
  <2>2. QED
    BY <1>2, <2>1 DEF ChunksInv
<1>5. ASSUME Tight(list), list # <<>> => ~ FitsMerged(list[Len(list)], c)
      PROVE  Tight(long)
  <2> SUFFICES ASSUME NEW i \in 1 .. Len(list)
               PROVE  ~ FitsMerged(long[i], long[i + 1])
    BY <1>3 DEF Tight
  <2>1. CASE i = Len(list)
    BY <1>3, <1>5, <2>1
  <2>2. CASE i # Len(list)
    <3>1. i \in 1 .. Len(list) - 1 /\ i + 1 \in 1 .. Len(list)
      <4>1. \A n \in Nat : \A j \in 1 .. n :
               j # n => j \in 1 .. n - 1 /\ j + 1 \in 1 .. n
        OBVIOUS
      <4>2. QED
        BY <1>3, <2>2, <4>1
    <3>2. QED
      BY <1>3, <1>5, <3>1 DEF Tight
  <2>3. QED
    BY <2>1, <2>2
<1>6. QED
  BY <1>2, <1>3, <1>4, <1>5 DEF long

\* The accumulator becomes a chunk and begins anew.
LEMMA StartChunkKeeps ==
    ASSUME PlannerInv, StartChunk
    PROVE  PlannerInv'
<1> DEFINE e == End(chunks, Len(chunks))
           c == Planned(acc)
           b == Added(Empty, next)
<1>1. /\ phase = "pack" /\ phase' = "pack" /\ opts' = opts /\ layer' = layer
      /\ next' = next + 1 /\ acc' = b /\ chunks' = Append(chunks, c)
      /\ head' = head /\ plans' = plans
      /\ next <= Len(layer) /\ FitsInEmpty(layer[next])
      /\ acc.nodes # <<>> /\ ~ CanAdd(acc, layer[next])
  BY DEF StartChunk, Packing, NeedsSplit
<1>2. /\ opts \in Options /\ layer \in Seq(Footprints) /\ acc \in AccRecord
      /\ chunks \in Seq(ChunkRecord) /\ AccInv(acc) /\ ChunksInv(chunks)
      /\ head \in HeadRecord /\ plans \in Seq(PlanRecord) /\ plans = <<>>
  BY <1>1, RecordFacts DEF PlannerInv, ProgressInv
<1>3. /\ e \in Nat /\ Len(layer) \in Nat /\ next \in Nat /\ Len(acc.nodes) \in Nat
      /\ next = e + Len(acc.nodes) + 1 /\ next \in DOMAIN layer
      /\ NodesOf(acc) \subseteq DOMAIN layer
  BY <1>1, PackingFacts
<1>4. /\ c \in ChunkRecord /\ c.nodes = acc.nodes /\ NodesOf(c) = NodesOf(acc)
      /\ WithinBudget(c)
      /\ \A x : /\ FitsMerged(x, c) <=> FitsMerged(x, acc)
                /\ FitsMerged(c, x) <=> FitsMerged(acc, x)
  BY <1>1, <1>2, PlannedFacts
<1>5. GoesOn(chunks, c.nodes)
  BY <1>1, <1>4 DEF PlannerInv, ProgressInv
<1>6. /\ chunks' \in Seq(ChunkRecord) /\ ChunksInv(chunks')
      /\ Len(chunks') = Len(chunks) + 1 /\ Len(chunks) \in Nat
      /\ chunks'[Len(chunks')] = c
      /\ End(chunks', Len(chunks')) = e + Len(acc.nodes)
      /\ Tight(chunks) /\ (chunks # <<>> => ~ FitsMerged(chunks[Len(chunks)], c))
           => Tight(chunks')
  <2> HIDE DEF c
  <2> QED
    BY <1>1, <1>2, <1>3, <1>4, <1>5, ChunksGrow
<1>7. /\ Empty \in AccRecord /\ AccInv(Empty) /\ NodesOf(Empty) = {} /\ Empty.nodes = <<>>
  BY <1>2, EmptyFacts
<1>8. b \in AccRecord /\ b.nodes = <<next>> /\ AccInv(b)
  <2>1. b \in AccRecord /\ b.nodes = Append(Empty.nodes, next)
    BY <1>2, <1>3, <1>7, AddedShape
  <2>2. AccInv(b)
    <3>1. NodesOf(Empty) \subseteq DOMAIN layer /\ next \notin NodesOf(Empty)
      BY <1>7
    <3>2. QED
      BY <1>1, <1>2, <1>3, <1>7, <3>1, AddedKeeps
  <2>3. QED
    BY <1>7, <2>1, <2>2
<1> HIDE DEF e, c, b
<1>9. PlannerTypeOK'
  <2>1. next' \in Nat \ {0}
    BY <1>1, <1>3
  <2>2. QED
    BY <1>1, <1>2, <1>6, <1>8, <2>1
       DEF PlannerTypeOK, AccRecord, ChunkRecord, HeadRecord, PlanRecord
<1>10. AccInv(acc)' /\ ChunksInv(chunks)'
  BY <1>1, <1>6, <1>8, PlannerFrame
<1>11. PlansInv'
  BY <1>1, <1>2 DEF PlansInv, Chained
<1>12. ProgressInv'
  <2>1. End(chunks', Len(chunks')) = next - 1
    BY <1>3, <1>6
  <2>2. GoesOn(chunks', <<next>>)
    <3>1. DOMAIN <<next>> = {1} /\ <<next>>[1] = next
      OBVIOUS
    <3>2. next = (next - 1) + 1
      BY <1>3
    <3>3. QED
      BY <2>1, <3>1, <3>2 DEF GoesOn
  <2>3. next' = (next - 1) + Len(<<next>>) + 1 /\ next' <= Len(layer) + 1
    BY <1>1, <1>3
  <2>4. QED
    BY <1>1, <1>2, <1>8, <2>1, <2>2, <2>3 DEF ProgressInv
<1>13. TightInv'
  <2>1. ASSUME RoomyBudget
        PROVE  Tight(chunks') /\ ~ FitsMerged(chunks'[Len(chunks')], acc')
    <3>1. /\ Tight(chunks)
          /\ chunks # <<>> => ~ FitsMerged(chunks[Len(chunks)], acc)
      BY <1>1, <2>1 DEF PlannerInv, TightInv
    <3>2. Tight(chunks')
      BY <1>4, <1>6, <3>1
    <3>3. ~ FitsMerged(acc, b)
      BY <1>1, <1>2, <1>3, <2>1, SplitIsTight DEF b
    <3>4. QED
      BY <1>1, <1>4, <1>6, <3>2, <3>3
  <2>2. QED
    BY <1>1, <1>2, <2>1, PlannerFrame DEF TightInv
<1>14. QED
  BY <1>9, <1>10, <1>11, <1>12, <1>13 DEF PlannerInv

\* A plan that stands for one chunk.
LEMMA PlanOfFacts ==
    ASSUME NEW list \in Seq(ChunkRecord), ChunksInv(list), NEW i \in DOMAIN list
    PROVE  LET p == PlanOf(list, i)
           IN  /\ p \in PlanRecord /\ p \in HeadRecord
               /\ p.nodes = list[i].nodes /\ p.nodes # <<>> /\ NodesOf(p) = NodesOf(list[i])
               /\ p.cu = list[i].cu /\ p.bytes = list[i].bytes
               /\ p.index = i /\ p.merged = <<>> /\ PartsOf(p) = {i}
               /\ PlanInv(list, p)
<1> DEFINE p == PlanOf(list, i)
<1>1. list[i] \in ChunkRecord /\ i \in Nat
  OBVIOUS
<1>2. /\ p.nodes = list[i].nodes /\ p.cu = list[i].cu /\ p.bytes = list[i].bytes
      /\ p.index = i /\ p.merged = <<>>
  BY DEF PlanOf
<1>3. p \in PlanRecord /\ p \in HeadRecord /\ p.nodes # <<>>
  BY <1>1 DEF PlanOf, ChunkRecord, PlanRecord, HeadRecord
<1>4. NodesOf(p) = NodesOf(list[i])
  BY <1>2 DEF NodesOf
<1>5. PartsOf(p) = {i}
  BY <1>2 DEF PartsOf
<1>6. /\ NodesOf(list[i]) \subseteq DOMAIN layer /\ BytesCover(list[i], 1)
      /\ list[i].bytes <= opts.maxBytes
  BY DEF ChunksInv, WithinBudget
<1>7. BytesCover(p, 1)
  BY <1>2, <1>4, <1>6 DEF BytesCover
<1> HIDE DEF p
<1>8. PlanInv(list, p)
  BY <1>2, <1>4, <1>5, <1>6, <1>7 DEF PlanInv
<1>9. QED
  BY <1>2, <1>3, <1>4, <1>5, <1>8 DEF p

\* When every intent is packed the chunks, with the last one, are the layer.
LEMMA AllChunksFacts ==
    ASSUME PlannerInv, phase = "pack", next = Len(layer) + 1
    PROVE  /\ AllChunks \in Seq(ChunkRecord) /\ ChunksInv(AllChunks)
           /\ End(AllChunks, Len(AllChunks)) = Len(layer)
           /\ RoomyBudget => Tight(AllChunks)
<1> DEFINE e == End(chunks, Len(chunks))
<1>1. /\ acc \in AccRecord /\ chunks \in Seq(ChunkRecord)
      /\ AccInv(acc) /\ ChunksInv(chunks) /\ TightInv /\ GoesOn(chunks, acc.nodes)
  BY RecordFacts DEF PlannerInv, ProgressInv
<1>2. /\ e \in Nat /\ Len(layer) \in Nat /\ Len(acc.nodes) \in Nat
      /\ next = e + Len(acc.nodes) + 1 /\ NodesOf(acc) \subseteq DOMAIN layer
  BY PackingFacts
<1> HIDE DEF e
<1>3. e + Len(acc.nodes) = Len(layer)
  BY <1>2
<1>4. CASE acc.nodes = <<>>
  <2>1. AllChunks = chunks /\ Len(acc.nodes) = 0
    BY <1>4 DEF AllChunks
  <2>2. e = Len(layer)
    BY <1>2, <1>3, <2>1
  <2>3. QED
    BY <1>1, <2>1, <2>2 DEF e, TightInv
<1>5. CASE acc.nodes # <<>>
  <2> DEFINE c == Planned(acc)
  <2>1. /\ c \in ChunkRecord /\ c.nodes = acc.nodes /\ NodesOf(c) = NodesOf(acc)
        /\ WithinBudget(c) /\ \A x : FitsMerged(x, c) <=> FitsMerged(x, acc)
    BY <1>1, <1>5, PlannedFacts
  <2>2. AllChunks = Append(chunks, c)
    BY <1>5 DEF AllChunks
  <2> HIDE DEF c
  <2>3. /\ AllChunks \in Seq(ChunkRecord) /\ ChunksInv(AllChunks)
        /\ Len(AllChunks) = Len(chunks) + 1
        /\ End(AllChunks, Len(chunks) + 1) = e + Len(c.nodes)
        /\ Tight(chunks) /\ (chunks # <<>> => ~ FitsMerged(chunks[Len(chunks)], c))
             => Tight(AllChunks)
    BY <1>1, <1>2, <2>1, <2>2, ChunksGrow DEF e
  <2>4. ASSUME RoomyBudget
        PROVE  Tight(AllChunks)
    <3>1. Tight(chunks) /\ (chunks # <<>> => ~ FitsMerged(chunks[Len(chunks)], acc))
      BY <1>1, <2>4 DEF TightInv
    <3>2. QED
      BY <2>1, <2>3, <3>1
  <2>5. End(AllChunks, Len(AllChunks)) = Len(layer)
    BY <1>3, <2>1, <2>3
  <2>6. QED
    BY <2>3, <2>4, <2>5
<1>6. QED
  BY <1>4, <1>5

\* The chunks become plans, one each, or the first becomes the head.
LEMMA FinishPackingKeeps ==
    ASSUME PlannerInv, FinishPacking
    PROVE  PlannerInv'
<1> DEFINE list == AllChunks
           n == Len(list)
<1>1. /\ phase = "pack" /\ next = Len(layer) + 1 /\ opts' = opts /\ layer' = layer
      /\ acc' = Empty /\ chunks' = list
      /\ \/ /\ opts.merge /\ list # <<>> /\ phase' = "merge" /\ plans' = plans
            /\ head' = PlanOf(list, 1) /\ next' = 2
         \/ /\ phase' = "done" /\ head' = head /\ next' = next
            /\ plans' = [i \in DOMAIN list |-> PlanOf(list, i)]
  BY DEF FinishPacking
<1>2. /\ opts \in Options /\ layer \in Seq(Footprints) /\ plans = <<>>
      /\ next \in Nat \ {0} /\ head \in HeadRecord
  BY <1>1, RecordFacts DEF PlannerInv, ProgressInv
<1>3. /\ list \in Seq(ChunkRecord) /\ ChunksInv(list) /\ End(list, n) = Len(layer)
      /\ RoomyBudget => Tight(list)
  BY <1>1, AllChunksFacts
<1>4. n \in Nat /\ DOMAIN list = 1 .. n /\ Chained(list) /\ (list # <<>> => n > 0)
  BY <1>3 DEF ChunksInv
<1>5. Empty \in AccRecord /\ AccInv(Empty)
  BY <1>2, EmptyFacts
<1>6. \A i \in 1 .. n :
         LET p == PlanOf(list, i)
         IN  /\ p \in PlanRecord /\ p \in HeadRecord /\ p.nodes = list[i].nodes
             /\ p.nodes # <<>> /\ p.merged = <<>> /\ PlanInv(list, p)
             /\ p.cu = list[i].cu /\ p.bytes = list[i].bytes
  BY <1>3, <1>4, PlanOfFacts
<1> HIDE DEF list, n
<1>7. AccInv(acc)' /\ ChunksInv(chunks)'
  BY <1>1, <1>3, <1>5, PlannerFrame
<1>8. CASE phase' = "merge"
  <2>1. /\ list # <<>> /\ plans' = <<>> /\ head' = PlanOf(list, 1) /\ next' = 2
        /\ 1 \in 1 .. n
    BY <1>1, <1>2, <1>4, <1>8
  <2>2. /\ head' \in HeadRecord /\ head'.nodes = list[1].nodes /\ head'.nodes # <<>>
        /\ head'.merged = <<>> /\ PlanInv(list, head')
        /\ head'.cu = list[1].cu /\ head'.bytes = list[1].bytes
    BY <1>6, <2>1
  <2>3. PlannerTypeOK'
    <3>1. <<>> \in Seq(PlanRecord) /\ 2 \in Nat \ {0}
      OBVIOUS
    <3>2. QED
      BY <1>1, <1>2, <1>3, <1>5, <1>8, <2>1, <2>2, <3>1
         DEF PlannerTypeOK, AccRecord, ChunkRecord, HeadRecord, PlanRecord
  <2>4. PlansInv'
    BY <2>1 DEF PlansInv, Chained
  <2>5. ProgressInv'
    <3>1. End(<<>>, Len(<<>>)) = 0 /\ End(list, 0) = 0
      BY DEF End
    <3>2. GoesOn(<<>>, head'.nodes)
      BY <1>4, <2>1, <2>2, <3>1 DEF GoesOn, Chained
    <3>3. 0 + Len(head'.nodes) = End(list, 1)
      <4>1. /\ End(list, 1) = End(list, 1 - 1) + Len(list[1].nodes)
            /\ Len(list[1].nodes) \in Nat
        BY <1>3, <1>4, <2>1, RecordFacts, ChainEnds
      <4>2. QED
        BY <2>2, <3>1, <4>1
    <3>4. 2 \in 2 .. n + 1 /\ 2 - 1 = 1
      BY <1>4, <2>1
    <3>5. PlanInv(chunks, head)'
      BY <1>1, <2>2, PlannerFrame
    <3>6. QED
      BY <1>1, <1>3, <1>8, <2>1, <2>2, <3>1, <3>2, <3>3, <3>4, <3>5 DEF ProgressInv, n
  <2>6. TightInv'
    <3>1. next' - 1 = 1
      BY <2>1
    <3>2. QED
      BY <1>1, <1>3, <1>8, <2>1, <2>2, <3>1, PlannerFrame DEF TightInv
  <2>7. QED
    BY <1>7, <2>3, <2>4, <2>5, <2>6 DEF PlannerInv
<1>9. CASE phase' = "done"
  <2>1. plans' = [i \in 1 .. n |-> PlanOf(list, i)] /\ head' = head /\ next' = next
    BY <1>1, <1>4, <1>9
  <2>2. /\ plans' \in Seq(PlanRecord) /\ Len(plans') = n /\ DOMAIN plans' = 1 .. n
    <3>1. \A i \in 1 .. n : PlanOf(list, i) \in PlanRecord
      BY <1>6
    <3>2. QED
      BY <1>4, <2>1, <3>1
  <2>3. \A i \in 1 .. n : /\ plans'[i].nodes = list[i].nodes /\ plans'[i].merged = <<>>
                          /\ PlanInv(list, plans'[i])
    BY <1>6, <2>1
  <2>4. PlannerTypeOK'
    BY <1>1, <1>2, <1>3, <1>5, <1>9, <2>1, <2>2
       DEF PlannerTypeOK, AccRecord, ChunkRecord, HeadRecord, PlanRecord
  <2>5. \A i \in 0 .. n : End(plans', i) = End(list, i)
    <3>1. \A i \in 0 .. n : i = 0 \/ i \in 1 .. n
      BY <1>4
    <3>2. QED
      BY <2>3, <3>1 DEF End
  <2>6. Chained(plans')
    <3>1. \A i \in 1 .. n : i - 1 \in 0 .. n
      BY <1>4
    <3>2. \A i \in 1 .. n : End(plans', i - 1) = End(list, i - 1)
      BY <2>5, <3>1
    <3>3. QED
      BY <1>4, <2>2, <2>3, <3>2 DEF Chained
  <2>7. PlansInv'
    <3>1. \A i \in DOMAIN plans' : PlanInv(chunks, plans[i])'
      BY <1>1, <2>2, <2>3, PlannerFrame
    <3>2. QED
      BY <2>6, <3>1 DEF PlansInv
  <2>8. ProgressInv'
    <3>1. n \in 0 .. n
      BY <1>4
    <3>2. End(plans', Len(plans')) = Len(layer) /\ End(chunks', Len(chunks')) = Len(layer)
      BY <1>1, <1>3, <2>2, <2>5, <3>1 DEF n
    <3>3. QED
      BY <1>1, <1>9, <3>2 DEF ProgressInv
  <2>9. TightInv'
    BY <1>1, <1>3, <1>9, <2>2, <2>3, PlannerFrame DEF TightInv
  <2>10. QED
    BY <1>7, <2>4, <2>7, <2>8, <2>9 DEF PlannerInv
<1>10. QED
  BY <1>1, <1>8, <1>9

\* While merging, the plans and the head hold the chunks before the next.
LEMMA MergingFacts ==
    ASSUME PlannerInv, phase = "merge"
    PROVE  /\ opts \in Options /\ layer \in Seq(Footprints) /\ acc \in AccRecord
           /\ chunks \in Seq(ChunkRecord) /\ ChunksInv(chunks) /\ Chained(chunks)
           /\ plans \in Seq(PlanRecord) /\ Chained(plans)
           /\ Nonempty(ChunkRecord) /\ Nonempty(PlanRecord) /\ opts.merge
           /\ DOMAIN chunks = 1 .. Len(chunks) /\ DOMAIN plans = 1 .. Len(plans)
           /\ head \in HeadRecord /\ head \in PlanRecord /\ head.nodes # <<>>
           /\ Len(head.nodes) \in Nat
           /\ next \in Nat /\ 2 <= next /\ next <= Len(chunks) + 1
           /\ Len(chunks) \in Nat /\ Len(plans) \in Nat
           /\ GoesOn(plans, head.nodes) /\ PlanInv(chunks, head)
           /\ End(plans, Len(plans)) \in Nat
           /\ End(plans, Len(plans)) + Len(head.nodes) = End(chunks, next - 1)
           /\ End(chunks, Len(chunks)) = Len(layer)
           /\ \A i \in 1 .. Len(chunks) :
                 /\ Len(chunks[i].nodes) \in Nat \ {0} /\ End(chunks, i - 1) \in Nat
                 /\ End(chunks, i) = End(chunks, i - 1) + Len(chunks[i].nodes)
                 /\ NodesOf(chunks[i]) = End(chunks, i - 1) + 1 .. End(chunks, i)
<1>1. /\ opts \in Options /\ layer \in Seq(Footprints) /\ acc \in AccRecord
      /\ chunks \in Seq(ChunkRecord) /\ ChunksInv(chunks) /\ Chained(chunks)
      /\ plans \in Seq(PlanRecord) /\ Chained(plans)
      /\ Nonempty(ChunkRecord) /\ Nonempty(PlanRecord) /\ head \in HeadRecord
  BY RecordFacts DEF PlannerInv, ChunksInv, PlansInv
<1>2. /\ next \in 2 .. Len(chunks) + 1 /\ head.nodes # <<>> /\ GoesOn(plans, head.nodes)
      /\ PlanInv(chunks, head) /\ opts.merge
      /\ End(plans, Len(plans)) + Len(head.nodes) = End(chunks, next - 1)
      /\ End(chunks, Len(chunks)) = Len(layer)
  BY DEF PlannerInv, ProgressInv
<1>3. head \in PlanRecord /\ Len(head.nodes) \in Nat
  BY <1>1, <1>2 DEF HeadRecord, PlanRecord
<1>4. /\ Len(chunks) \in Nat /\ Len(plans) \in Nat
      /\ DOMAIN chunks = 1 .. Len(chunks) /\ DOMAIN plans = 1 .. Len(plans)
  BY <1>1
<1>5. next \in Nat /\ 2 <= next /\ next <= Len(chunks) + 1
  BY <1>2, <1>4
<1>6. End(plans, Len(plans)) \in Nat
  <2>1. Len(plans) \in 0 .. Len(plans)
    BY <1>4
  <2>2. QED
    BY <1>1, <2>1, ChainEnds
<1>7. \A i \in 1 .. Len(chunks) :
         /\ Len(chunks[i].nodes) \in Nat \ {0} /\ End(chunks, i - 1) \in Nat
         /\ End(chunks, i) = End(chunks, i - 1) + Len(chunks[i].nodes)
         /\ NodesOf(chunks[i]) = End(chunks, i - 1) + 1 .. End(chunks, i)
  <2>1. \A i \in 1 .. Len(chunks) : i - 1 \in 0 .. Len(chunks)
    BY <1>4
  <2>2. QED
    BY <1>1, <2>1, ChainEnds
<1>8. QED
  BY <1>1, <1>2, <1>3, <1>4, <1>5, <1>6, <1>7

\* The head becomes a plan, and the next chunk the head.
LEMMA CloseHeadKeeps ==
    ASSUME PlannerInv, CloseHead
    PROVE  PlannerInv'
<1> DEFINE long == Append(plans, head)
           n == Len(chunks)
<1>1. /\ phase = "merge" /\ opts' = opts /\ layer' = layer
      /\ acc' = acc /\ chunks' = chunks /\ plans' = long
      /\ \/ /\ next <= n /\ head' = PlanOf(chunks, next) /\ next' = next + 1
            /\ phase' = "merge"
         \/ /\ ~ next <= n /\ phase' = "done" /\ head' = head /\ next' = next
  BY DEF CloseHead
<1>2. /\ opts \in Options /\ layer \in Seq(Footprints) /\ acc \in AccRecord
      /\ chunks \in Seq(ChunkRecord) /\ ChunksInv(chunks) /\ Chained(chunks)
      /\ plans \in Seq(PlanRecord) /\ Chained(plans) /\ Nonempty(PlanRecord)
      /\ DOMAIN chunks = 1 .. n /\ head \in HeadRecord /\ head \in PlanRecord
      /\ next \in Nat /\ 2 <= next /\ next <= n + 1 /\ n \in Nat /\ Len(plans) \in Nat
      /\ GoesOn(plans, head.nodes) /\ PlanInv(chunks, head) /\ opts.merge
      /\ End(plans, Len(plans)) + Len(head.nodes) = End(chunks, next - 1)
      /\ End(chunks, n) = Len(layer)
  BY <1>1, MergingFacts
<1>3. /\ long \in Seq(PlanRecord) /\ Chained(long)
      /\ End(long, Len(plans) + 1) = End(chunks, next - 1)
  BY <1>2, ChainGrows
<1>4. /\ Len(long) = Len(plans) + 1 /\ DOMAIN long = 1 .. Len(plans) + 1
      /\ \A p \in DOMAIN long : long[p] = head \/ (p \in DOMAIN plans /\ long[p] = plans[p])
  <2>1. /\ Len(long) = Len(plans) + 1 /\ DOMAIN long = 1 .. Len(plans) + 1
        /\ DOMAIN plans = 1 .. Len(plans) /\ long[Len(plans) + 1] = head
        /\ \A p \in 1 .. Len(plans) : long[p] = plans[p]
    BY <1>2
  <2>2. \A p \in 1 .. Len(plans) + 1 : p \in 1 .. Len(plans) \/ p = Len(plans) + 1
    BY <1>2
  <2>3. QED
    BY <2>1, <2>2
<1> HIDE DEF long
<1>5. AccInv(acc)' /\ ChunksInv(chunks)'
  BY <1>1, PlannerFrame DEF PlannerInv
<1>6. PlansInv'
  <2>1. \A p \in DOMAIN plans : PlanInv(chunks, plans[p])
    BY DEF PlannerInv, PlansInv
  <2>2. \A p \in DOMAIN long : PlanInv(chunks, long[p])
    BY <1>2, <1>4, <2>1
  <2>3. \A p \in DOMAIN long : PlanInv(chunks, plans[p])'
    BY <1>1, <2>2, PlannerFrame
  <2>4. QED
    BY <1>1, <1>3, <2>3 DEF PlansInv
<1>7. RoomyBudget => /\ Tight(chunks)
                     /\ \A p \in DOMAIN long : long[p].merged = <<>>
  BY <1>1, <1>4 DEF PlannerInv, TightInv
<1>8. CASE next <= n
  <2> DEFINE p == PlanOf(chunks, next)
  <2>1. /\ head' = p /\ next' = next + 1 /\ phase' = "merge" /\ next \in 1 .. n
        /\ next' - 1 = next /\ next' \in 2 .. n + 1
    BY <1>1, <1>2, <1>8
  <2>2. /\ p \in HeadRecord /\ p.nodes = chunks[next].nodes /\ p.nodes # <<>>
        /\ p.merged = <<>> /\ PlanInv(chunks, p)
        /\ p.cu = chunks[next].cu /\ p.bytes = chunks[next].bytes
    BY <1>2, <2>1, PlanOfFacts
  <2>3. End(chunks, next) = End(chunks, next - 1) + Len(chunks[next].nodes)
    BY <1>1, <2>1, MergingFacts
  <2> HIDE DEF p
  <2>4. PlannerTypeOK'
    <3>1. next' \in Nat \ {0}
      BY <1>2, <2>1
    <3>2. QED
      BY <1>1, <1>2, <1>3, <2>1, <2>2, <3>1
         DEF PlannerTypeOK, AccRecord, ChunkRecord, HeadRecord, PlanRecord
  <2>5. ProgressInv'
    <3>1. GoesOn(long, p.nodes)
      <4>1. \A k \in DOMAIN chunks[next].nodes :
               chunks[next].nodes[k] = End(chunks, next - 1) + k
        BY <1>2, <2>1 DEF Chained
      <4>2. End(long, Len(long)) = End(chunks, next - 1)
        BY <1>3, <1>4
      <4>3. QED
        BY <2>2, <4>1, <4>2 DEF GoesOn
    <3>2. PlanInv(chunks, head)'
      BY <1>1, <2>1, <2>2, PlannerFrame
    <3>3. End(long, Len(long)) + Len(p.nodes) = End(chunks, next' - 1)
      BY <1>3, <1>4, <2>1, <2>2, <2>3
    <3>4. QED
      BY <1>1, <1>2, <2>1, <2>2, <3>1, <3>2, <3>3 DEF ProgressInv
  <2>6. TightInv'
    BY <1>1, <1>7, <2>1, <2>2, PlannerFrame DEF TightInv
  <2>7. QED
    BY <1>5, <1>6, <2>4, <2>5, <2>6 DEF PlannerInv
<1>9. CASE ~ next <= n
  <2>1. /\ head' = head /\ next' = next /\ phase' = "done" /\ next - 1 = n
    BY <1>1, <1>2, <1>9
  <2>2. PlannerTypeOK'
    <3>1. next \in Nat \ {0}
      BY <1>2
    <3>2. QED
      BY <1>1, <1>2, <1>3, <2>1, <3>1
         DEF PlannerTypeOK, AccRecord, ChunkRecord, HeadRecord, PlanRecord
  <2>3. ProgressInv'
    <3>1. End(long, Len(long)) = Len(layer)
      BY <1>2, <1>3, <1>4, <2>1
    <3>2. QED
      BY <1>1, <1>2, <2>1, <3>1 DEF ProgressInv
  <2>4. TightInv'
    BY <1>1, <1>7, <2>1, PlannerFrame DEF TightInv
  <2>5. QED
    BY <1>5, <1>6, <2>2, <2>3, <2>4 DEF PlannerInv
<1>10. QED
  BY <1>8, <1>9

\* The head with the next chunk: its parts are those of the head and that
\* chunk, and it says of itself no less than it is.
LEMMA MergedPlan ==
    ASSUME PlannerInv, phase = "merge", next <= Len(chunks),
           Independent(head, chunks[next]), FitsMerged(head, chunks[next]),
           NEW h \in HeadRecord,
           h.nodes = head.nodes \o chunks[next].nodes,
           h.bytes = head.bytes + chunks[next].bytes,
           h.merged = Append(head.merged, next), h.index = head.index
    PROVE  PlanInv(chunks, h)
<1> DEFINE c == chunks[next]
           H == NodesOf(head)
           C == NodesOf(c)
<1>1. /\ opts \in Options /\ layer \in Seq(Footprints)
      /\ chunks \in Seq(ChunkRecord) /\ ChunksInv(chunks) /\ Chained(chunks)
      /\ plans \in Seq(PlanRecord) /\ Chained(plans)
      /\ DOMAIN chunks = 1 .. Len(chunks) /\ opts.merge
      /\ head \in HeadRecord /\ head.nodes # <<>> /\ Len(head.nodes) \in Nat
      /\ next \in Nat /\ 2 <= next /\ Len(chunks) \in Nat
      /\ GoesOn(plans, head.nodes) /\ PlanInv(chunks, head)
      /\ End(plans, Len(plans)) \in Nat
      /\ End(plans, Len(plans)) + Len(head.nodes) = End(chunks, next - 1)
  BY MergingFacts
<1>2. OptionTypes
  BY <1>1, OptionsTyped
<1>3. next \in 1 .. Len(chunks) /\ next \in DOMAIN chunks /\ c \in ChunkRecord
  BY <1>1
<1>4. C \subseteq DOMAIN layer /\ BytesCover(c, 1) /\ H \subseteq DOMAIN layer
  BY <1>1, <1>3 DEF ChunksInv, WithinBudget, PlanInv
<1>5. /\ head.bytes \in Nat /\ c.bytes \in Nat /\ head.nodes \in Seq(Nat) /\ c.nodes \in Seq(Nat)
      /\ head.merged \in Seq(Nat)
  BY <1>1, <1>3 DEF HeadRecord, ChunkRecord
<1>6. C = End(chunks, next - 1) + 1 .. End(chunks, next) /\ End(chunks, next - 1) \in Nat
  BY <1>3, MergingFacts
<1>7. \A x \in H : x \in Nat /\ x <= End(chunks, next - 1)
  <2> TAKE x \in H
  <2>1. PICK k \in DOMAIN head.nodes : x = head.nodes[k]
    BY DEF NodesOf
  <2>2. x = End(plans, Len(plans)) + k /\ k \in 1 .. Len(head.nodes)
    <3>1. DOMAIN head.nodes = 1 .. Len(head.nodes)
      BY <1>5
    <3>2. head.nodes[k] = End(plans, Len(plans)) + k
      BY <1>1 DEF GoesOn
    <3>3. QED
      BY <2>1, <3>1, <3>2
  <2> DEFINE e == End(plans, Len(plans))
             l == Len(head.nodes)
  <2>3. x = e + k /\ k \in 1 .. l /\ e \in Nat /\ l \in Nat /\ e + l = End(chunks, next - 1)
    BY <1>1, <2>2
  <2> HIDE DEF e, l
  <2>4. QED
    BY <2>3
<1>8. H \cap C = {}
  BY <1>6, <1>7
<1>9. NodesOf(h) = H \cup C
  <2> DEFINE s == head.nodes
             t == c.nodes
  <2>1. /\ s \in Seq(Nat) /\ t \in Seq(Nat) /\ h.nodes = s \o t
    BY <1>5
  <2>2. H = {s[k] : k \in DOMAIN s} /\ C = {t[k] : k \in DOMAIN t}
    BY DEF NodesOf
  <2> HIDE DEF s, t, H, C
  <2>3. /\ DOMAIN (s \o t) = 1 .. Len(s) + Len(t) /\ Len(s) \in Nat /\ Len(t) \in Nat
        /\ DOMAIN s = 1 .. Len(s) /\ DOMAIN t = 1 .. Len(t)
        /\ \A k \in 1 .. Len(s) + Len(t) :
              (s \o t)[k] = IF k <= Len(s) THEN s[k] ELSE t[k - Len(s)]
    BY <2>1
  <2>4. \A k \in 1 .. Len(s) : k \in 1 .. Len(s) + Len(t) /\ k <= Len(s)
    BY <2>3
  <2>5. \A k \in 1 .. Len(t) : /\ k + Len(s) \in 1 .. Len(s) + Len(t)
                               /\ ~ k + Len(s) <= Len(s) /\ (k + Len(s)) - Len(s) = k
    BY <2>3
  <2>6. \A k \in 1 .. Len(s) + Len(t) :
           IF k <= Len(s) THEN k \in 1 .. Len(s) ELSE k - Len(s) \in 1 .. Len(t)
    BY <2>3
  <2>7. NodesOf(h) = {(s \o t)[k] : k \in 1 .. Len(s) + Len(t)}
    BY <2>1, <2>3 DEF NodesOf
  <2>8. H \cup C \subseteq NodesOf(h)
    <3>1. \A x \in H : x \in NodesOf(h)
      BY <2>2, <2>3, <2>4, <2>7
    <3>2. \A x \in C : x \in NodesOf(h)
      BY <2>2, <2>3, <2>5, <2>7
    <3>3. QED
      BY <3>1, <3>2
  <2>9. NodesOf(h) \subseteq H \cup C
    BY <2>2, <2>3, <2>6, <2>7
  <2>10. QED
    BY <2>8, <2>9
<1>10. PartsOf(h) = PartsOf(head) \cup {next}
  <2> DEFINE g == head.merged
  <2>1. /\ g \in Seq(Nat) /\ h.merged = Append(g, next) /\ h.index = head.index
        /\ DOMAIN g = 1 .. Len(g) /\ Len(g) \in Nat
    BY <1>5
  <2>2. PartsOf(head) = {head.index} \cup {g[k] : k \in DOMAIN g}
    BY DEF PartsOf
  <2> HIDE DEF g
  <2>3. /\ DOMAIN Append(g, next) = 1 .. Len(g) + 1
        /\ Append(g, next)[Len(g) + 1] = next
        /\ \A k \in 1 .. Len(g) : Append(g, next)[k] = g[k]
    BY <1>1, <2>1
  <2>4. \A k \in 1 .. Len(g) + 1 : k \in 1 .. Len(g) \/ k = Len(g) + 1
    BY <2>1
  <2>5. \A k \in 1 .. Len(g) : k \in 1 .. Len(g) + 1
    BY <2>1
  <2>6. Len(g) + 1 \in 1 .. Len(g) + 1
    BY <2>1
  <2>7. {Append(g, next)[k] : k \in 1 .. Len(g) + 1} = {g[k] : k \in 1 .. Len(g)} \cup {next}
    BY <2>3, <2>4, <2>5, <2>6
  <2>8. PartsOf(h) = {head.index} \cup {Append(g, next)[k] : k \in 1 .. Len(g) + 1}
    BY <2>1, <2>3 DEF PartsOf
  <2>9. QED
    BY <2>1, <2>2, <2>7, <2>8
<1>11. /\ h.merged # <<>> /\ h.bytes = head.bytes + c.bytes /\ h.bytes <= opts.maxMessage
  <2>1. Append(head.merged, next) # <<>>
    <3>1. \A g \in Seq(Nat) : \A n \in Nat : Append(g, n) # <<>>
      OBVIOUS
    <3>2. QED
      BY <1>1, <1>5, <3>1
  <2>2. QED
    BY <2>1 DEF FitsMerged
<1> HIDE DEF c, H, C
<1>12. \A a \in PartsOf(h) : a \in DOMAIN chunks /\ NodesOf(chunks[a]) \subseteq NodesOf(h)
  BY <1>1, <1>3, <1>9, <1>10 DEF PlanInv, H, C, c
<1>13. ASSUME NEW i \in H, NEW j \in C
       PROVE  /\ AccountsOf(layer[i]) \cap layer[j].writes = {}
              /\ AccountsOf(layer[j]) \cap layer[i].writes = {}
  <2>1. AccountsOf(layer[i]) \cap AccountsOf(layer[j])
            \cap (layer[i].writes \cup layer[j].writes) = {}
    BY <1>13 DEF Independent, H, C, c, NodesOf
  <2>2. layer[i] \in Footprints /\ layer[j] \in Footprints
    BY <1>1, <1>4
  <2>3. /\ layer[i].writes \subseteq AccountsOf(layer[i])
        /\ layer[j].writes \subseteq AccountsOf(layer[j])
    BY <2>2, PlannerAssumption
  <2>4. QED
    BY <2>1, <2>3
<1>14. ASSUME NEW a \in PartsOf(h), NEW b \in PartsOf(h), a # b
       PROVE  Apart(chunks[a], chunks[b])
  <2>1. CASE a \in PartsOf(head) /\ b \in PartsOf(head)
    BY <1>1, <1>14, <2>1 DEF PlanInv
  <2>2. CASE a \in PartsOf(head) /\ b = next
    <3>1. NodesOf(chunks[a]) \subseteq H /\ NodesOf(chunks[b]) = C
      BY <1>1, <2>2 DEF PlanInv, H, C, c
    <3>2. QED
      BY <1>13, <3>1 DEF Apart
  <2>3. CASE a = next /\ b \in PartsOf(head)
    <3>1. NodesOf(chunks[b]) \subseteq H /\ NodesOf(chunks[a]) = C
      BY <1>1, <2>3 DEF PlanInv, H, C, c
    <3>2. QED
      BY <1>13, <3>1 DEF Apart
  <2>4. QED
    BY <1>10, <1>14, <2>1, <2>2, <2>3
<1>15. BytesCover(h, 2)
  <2> DEFINE uh == Cardinality(UnionOfKeys(H))
             uc == Cardinality(UnionOfKeys(C))
             u == Cardinality(UnionOfKeys(H \cup C))
             s == BaseBytes + opts.slack
             kh == KeyCost(uh)
             kc == KeyCost(uc)
             k == KeyCost(u)
             sh == SumBytes(H)
             sc == SumBytes(C)
  <2>1. /\ uh \in Nat /\ uc \in Nat /\ u \in Nat
        /\ UnionOfKeys(H \cup C) = UnionOfKeys(H) \cup UnionOfKeys(C)
        /\ IsFiniteSet(UnionOfKeys(H)) /\ IsFiniteSet(UnionOfKeys(C))
    <3>1. H \cup C \in SUBSET DOMAIN layer /\ H \in SUBSET DOMAIN layer /\ C \in SUBSET DOMAIN layer
      BY <1>4 DEF H, C, c
    <3>2. QED
      BY <1>1, <3>1, UnionFacts
  <2>2. u <= uh + uc
    <3> DEFINE X == UnionOfKeys(H)
               Y == UnionOfKeys(C)
    <3>1. /\ IsFiniteSet(X) /\ IsFiniteSet(Y) /\ UnionOfKeys(H \cup C) = X \cup Y
      BY <2>1
    <3> HIDE DEF X, Y
    <3>2. /\ Cardinality(X \cup Y) = Cardinality(X) + Cardinality(Y) - Cardinality(X \cap Y)
          /\ IsFiniteSet(X \cap Y)
      BY <3>1, FS_Union, FS_Intersection
    <3>3. /\ Cardinality(X) \in Nat /\ Cardinality(Y) \in Nat /\ Cardinality(X \cap Y) \in Nat
      BY <3>1, <3>2, FS_CardinalityType
    <3>4. Cardinality(X \cup Y) <= Cardinality(X) + Cardinality(Y)
      BY <3>2, <3>3
    <3>5. QED
      BY <3>1, <3>4 DEF X, Y
  <2>3. /\ k <= kh + kc /\ kh \in Nat /\ kc \in Nat /\ k \in Nat
    <3> HIDE DEF u, uh, uc
    <3>1. uh + uc \in Nat /\ KeyCost(uh + uc) \in Nat /\ k <= KeyCost(uh + uc)
      <4> DEFINE m == uh + uc
      <4>1. m \in Nat /\ u \in Nat /\ u <= m
        BY <2>1, <2>2
      <4> HIDE DEF m
      <4>2. KeyCost(m) \in Nat /\ KeyCost(u) <= KeyCost(m)
        BY <1>2, <4>1, KeyCosts
      <4>3. QED
        BY <4>1, <4>2 DEF m
    <3>2. KeyCost(uh + uc) <= kh + kc /\ kh \in Nat /\ kc \in Nat /\ k \in Nat
      BY <1>2, <2>1, KeyCosts
    <3>3. \A x, y, z \in Nat : x <= y /\ y <= z => x <= z
      OBVIOUS
    <3>4. kh + kc \in Nat
      BY <3>2
    <3>5. QED
      BY <3>1, <3>2, <3>3, <3>4
  <2>4. SumBytes(H \cup C) = sh + sc /\ sh \in Nat /\ sc \in Nat
    <3>1. H \in SUBSET DOMAIN layer /\ C \in SUBSET DOMAIN layer /\ H \cap C = {}
      BY <1>4, <1>8 DEF H, C, c
    <3>2. /\ BytesIn(layer, H \cup C) = BytesIn(layer, H) + BytesIn(layer, C)
          /\ BytesIn(layer, H) \in Nat /\ BytesIn(layer, C) \in Nat
      BY <1>1, <3>1, BytesInFacts
    <3>3. QED
      BY <3>2 DEF SumBytes
  <2>5. s \in Nat
    BY <1>2 DEF BaseBytes, OptionTypes
  <2>6. s + kh + sh <= head.bytes /\ s + kc + sc <= c.bytes
    <3>1. BytesCover(head, 1) \/ BytesCover(head, 2)
      BY <1>1 DEF PlanInv
    <3>2. 1 * s + kh + sh <= head.bytes \/ 2 * s + kh + sh <= head.bytes
      BY <3>1 DEF BytesCover, H
    <3>3. 1 * s + kc + sc <= c.bytes
      BY <1>4 DEF BytesCover, C, c
    <3> HIDE DEF s, kh, kc, k, sh, sc
    <3>4. QED
      BY <1>5, <2>3, <2>4, <2>5, <3>2, <3>3 DEF c
  <2> HIDE DEF s, kh, kc, k, sh, sc
  <2>7. 2 * s + k + (sh + sc) <= head.bytes + c.bytes
    <3>1. head.bytes \in Nat /\ c.bytes \in Nat
      BY <1>5 DEF c
    <3>2. QED
      BY <2>3, <2>4, <2>5, <2>6, <3>1
  <2>8. QED
    BY <1>9, <1>11, <2>4, <2>7 DEF BytesCover, s, k
<1>16. NodesOf(h) \subseteq DOMAIN layer /\ opts.merge
  BY <1>1, <1>4, <1>9 DEF H, C, c
<1>17. QED
  BY <1>11, <1>12, <1>14, <1>15, <1>16 DEF PlanInv

\* The head takes the next chunk in, which a roomy budget rules out.
LEMMA MergeNextKeeps ==
    ASSUME PlannerInv, MergeNext
    PROVE  PlannerInv'
<1> DEFINE c == chunks[next]
           n == Len(chunks)
           h == [head EXCEPT !.nodes = @ \o c.nodes, !.cu = @ + c.cu,
                             !.bytes = @ + c.bytes, !.merged = Append(@, next)]
<1>1. /\ phase = "merge" /\ phase' = "merge" /\ opts' = opts /\ layer' = layer
      /\ acc' = acc /\ chunks' = chunks /\ plans' = plans
      /\ head' = h /\ next' = next + 1
      /\ next <= n /\ Independent(head, c) /\ FitsMerged(head, c)
  BY DEF MergeNext, Mergeable
<1>2. /\ opts \in Options /\ layer \in Seq(Footprints) /\ acc \in AccRecord
      /\ chunks \in Seq(ChunkRecord) /\ plans \in Seq(PlanRecord)
      /\ head \in HeadRecord /\ head.nodes # <<>> /\ Len(head.nodes) \in Nat
      /\ next \in Nat /\ 2 <= next /\ n \in Nat /\ opts.merge
      /\ GoesOn(plans, head.nodes) /\ End(plans, Len(plans)) \in Nat
      /\ End(plans, Len(plans)) + Len(head.nodes) = End(chunks, next - 1)
      /\ End(chunks, n) = Len(layer) /\ Chained(chunks)
  BY <1>1, MergingFacts
<1>3. next \in 1 .. n /\ next - 1 \in 1 .. n - 1 /\ next' \in 2 .. n + 1 /\ next' - 1 = next
  BY <1>1, <1>2
<1>4. c \in ChunkRecord /\ c.nodes \in Seq(Nat) /\ c.nodes # <<>> /\ Len(c.nodes) \in Nat
  <2>1. c \in ChunkRecord
    BY <1>2, <1>3
  <2>2. QED
    BY <2>1 DEF ChunkRecord
<1>5. /\ h \in HeadRecord /\ h.nodes = head.nodes \o c.nodes /\ h.bytes = head.bytes + c.bytes
      /\ h.merged = Append(head.merged, next) /\ h.index = head.index
  <2>1. /\ head.index \in Nat /\ head.nodes \in Seq(Nat) /\ head.cu \in Nat
        /\ head.bytes \in Nat /\ head.merged \in Seq(Nat)
    BY <1>2 DEF HeadRecord
  <2>2. c.cu \in Nat /\ c.bytes \in Nat
    BY <1>4 DEF ChunkRecord
  <2>3. /\ head.nodes \o c.nodes \in Seq(Nat) /\ Append(head.merged, next) \in Seq(Nat)
    BY <1>2, <1>4, <2>1
  <2>4. head.cu + c.cu \in Nat /\ head.bytes + c.bytes \in Nat
    <3>1. \A x, y \in Nat : x + y \in Nat
      OBVIOUS
    <3>2. QED
      BY <2>1, <2>2, <3>1
  <2> DEFINE w == head.nodes \o c.nodes
             x == head.cu + c.cu
             y == head.bytes + c.bytes
             z == Append(head.merged, next)
  <2>5. h = [head EXCEPT !.nodes = w, !.cu = x, !.bytes = y, !.merged = z]
    OBVIOUS
  <2>6. w \in Seq(Nat) /\ x \in Nat /\ y \in Nat /\ z \in Seq(Nat)
    BY <2>3, <2>4
  <2> HIDE DEF h, w, x, y, z
  <2>7. /\ h \in HeadRecord /\ h.nodes = w /\ h.bytes = y /\ h.merged = z
        /\ h.index = head.index
    BY <1>2, <2>5, <2>6 DEF HeadRecord
  <2>8. QED
    BY <2>7 DEF w, y, z
<1> HIDE DEF h
<1>6. PlannerTypeOK'
  <2>1. next' \in Nat \ {0}
    BY <1>1, <1>2
  <2>2. QED
    BY <1>1, <1>2, <1>5, <2>1 DEF PlannerTypeOK, AccRecord, ChunkRecord, HeadRecord, PlanRecord
<1>7. AccInv(acc)' /\ ChunksInv(chunks)'
  BY <1>1, PlannerFrame DEF PlannerInv
<1>8. PlansInv'
  BY <1>1, PlannerFrame DEF PlannerInv, PlansInv
<1>9. ProgressInv'
  <2>1. PlanInv(chunks, head)'
    <3>1. PlanInv(chunks, h)
      BY <1>1, <1>5, MergedPlan
    <3>2. QED
      BY <1>1, <3>1, PlannerFrame
  <2> DEFINE e == End(plans, Len(plans))
             s == head.nodes
             t == c.nodes
  <2>2. /\ s \in Seq(Nat) /\ t \in Seq(Nat) /\ s # <<>> /\ e \in Nat
        /\ e + Len(s) = End(chunks, next - 1)
    BY <1>2, <1>4 DEF HeadRecord
  <2>3. \A k \in DOMAIN s : s[k] = e + k
    BY <1>2 DEF GoesOn
  <2>4. /\ \A k \in DOMAIN t : t[k] = End(chunks, next - 1) + k
        /\ End(chunks, next) = End(chunks, next - 1) + Len(t)
    <3>1. next \in DOMAIN chunks
      BY <1>2, <1>3
    <3>2. \A k \in DOMAIN t : t[k] = End(chunks, next - 1) + k
      BY <1>2, <3>1 DEF Chained
    <3>3. End(chunks, next) = End(chunks, next - 1) + Len(t)
      BY <1>1, <1>3, MergingFacts
    <3>4. QED
      BY <3>2, <3>3
  <2> HIDE DEF e, s, t
  <2>5. /\ Len(s) \in Nat /\ Len(t) \in Nat
        /\ DOMAIN s = 1 .. Len(s) /\ DOMAIN t = 1 .. Len(t)
        /\ DOMAIN (s \o t) = 1 .. Len(s) + Len(t) /\ Len(s \o t) = Len(s) + Len(t)
        /\ \A k \in 1 .. Len(s) + Len(t) :
              (s \o t)[k] = IF k <= Len(s) THEN s[k] ELSE t[k - Len(s)]
    BY <2>2
  <2>6. \A k \in 1 .. Len(s) + Len(t) : (s \o t)[k] = e + k
    <3> TAKE k \in 1 .. Len(s) + Len(t)
    <3>1. CASE k <= Len(s)
      <4>1. k \in 1 .. Len(s)
        BY <2>5, <3>1
      <4>2. QED
        BY <2>3, <2>5, <3>1, <4>1
    <3>2. CASE ~ k <= Len(s)
      <4>1. k - Len(s) \in 1 .. Len(t)
        BY <2>5, <3>2
      <4>2. t[k - Len(s)] = (e + Len(s)) + (k - Len(s))
        BY <2>2, <2>4, <2>5, <4>1
      <4>3. (s \o t)[k] = t[k - Len(s)]
        BY <2>5, <3>2
      <4>4. (e + Len(s)) + (k - Len(s)) = e + k
        BY <2>2, <2>5
      <4>5. QED
        BY <4>2, <4>3, <4>4
    <3>3. QED
      BY <3>1, <3>2
  <2>7. GoesOn(plans, s \o t)
    BY <2>5, <2>6 DEF GoesOn, e
  <2>8. e + Len(s \o t) = End(chunks, next)
    <3>1. e + (Len(s) + Len(t)) = (e + Len(s)) + Len(t)
      BY <2>2, <2>5
    <3>2. QED
      BY <2>2, <2>4, <2>5, <3>1
  <2>9. s \o t # <<>>
    BY <2>2
  <2>10. head'.nodes = s \o t
    BY <1>1, <1>5 DEF s, t
  <2>11. QED
    BY <1>1, <1>2, <1>3, <2>1, <2>7, <2>8, <2>9, <2>10 DEF ProgressInv, e
<1>10. ~ RoomyBudget
  <2> SUFFICES ASSUME RoomyBudget
               PROVE  FALSE
    OBVIOUS
  <2>1. /\ Tight(chunks) /\ head.cu = chunks[next - 1].cu
        /\ head.bytes = chunks[next - 1].bytes
    BY <1>1 DEF PlannerInv, TightInv
  <2>2. FitsMerged(chunks[next - 1], c)
    BY <1>1, <2>1 DEF FitsMerged
  <2>3. ~ FitsMerged(chunks[next - 1], chunks[(next - 1) + 1])
    BY <1>3, <2>1 DEF Tight
  <2>4. (next - 1) + 1 = next
    BY <1>2
  <2>5. QED
    BY <2>2, <2>3, <2>4
<1>11. TightInv'
  BY <1>1, <1>10, PlannerFrame DEF TightInv
<1>12. QED
  BY <1>6, <1>7, <1>8, <1>9, <1>11 DEF PlannerInv

\* PlannerInv is an invariant: whatever the layer and the budgets, packing and
\* merging lose, repeat and reorder nothing, and know what chunks come to.
THEOREM PlannerInductive == PlannerSpec => []PlannerInv
<1>1. PlannerInv /\ [PlannerNext]_plannerVars => PlannerInv'
  <2> SUFFICES ASSUME PlannerInv, [PlannerNext]_plannerVars
               PROVE  PlannerInv'
    OBVIOUS
  <2>1. CASE TooLarge
    BY <2>1, TooLargeKeeps
  <2>2. CASE AddToChunk
    BY <2>2, AddToChunkKeeps
  <2>3. CASE StartChunk
    BY <2>3, StartChunkKeeps
  <2>4. CASE FinishPacking
    BY <2>4, FinishPackingKeeps
  <2>5. CASE MergeNext
    BY <2>5, MergeNextKeeps
  <2>6. CASE CloseHead
    BY <2>6, CloseHeadKeeps
  <2>7. CASE PlannerTerminated
    BY <2>7, PlannerStutter DEF PlannerTerminated
  <2>8. CASE UNCHANGED plannerVars
    BY <2>8, PlannerStutter
  <2>9. QED
    BY <2>1, <2>2, <2>3, <2>4, <2>5, <2>6, <2>7, <2>8 DEF PlannerNext
<1>2. QED
  BY PlannerInitHolds, <1>1, PTL DEF PlannerSpec

\* The accumulator, the chunks and the plans have their types, and none of the
\* chunks and plans is empty.
THEOREM PlannerTypeCorrect == PlannerSpec => []PlannerTypeOK
<1>1. PlannerInv => PlannerTypeOK
  BY DEF PlannerInv
<1>2. QED
  BY <1>1, PlannerInductive, PTL

\* Plans that follow each other up to the end of the layer cover it in order.
LEMMA ChainedPlansCover == PlannerInv => EveryIntentPlanned
<1> SUFFICES ASSUME PlannerInv, phase = "done"
             PROVE  /\ UNION {NodesOf(plans[p]) : p \in DOMAIN plans} = DOMAIN layer
                    /\ \A p, q \in DOMAIN plans :
                          \A i \in DOMAIN plans[p].nodes, j \in DOMAIN plans[q].nodes :
                             (p < q \/ (p = q /\ i < j))
                                => plans[p].nodes[i] < plans[q].nodes[j]
  BY DEF EveryIntentPlanned
<1>1. /\ layer \in Seq(Footprints) /\ plans \in Seq(PlanRecord) /\ Nonempty(PlanRecord)
      /\ Chained(plans) /\ End(plans, Len(plans)) = Len(layer)
  BY RecordFacts DEF PlannerInv, PlansInv, ProgressInv
<1>2. DOMAIN layer = 1 .. Len(layer)
  BY <1>1
<1>3. QED
  BY <1>1, <1>2, ChainCovers

\* A layer that is sent is sent whole: every intent is in one place of one
\* plan, and the order of the layer is kept.
THEOREM EveryIntentIsPlanned == PlannerSpec => []EveryIntentPlanned
  BY ChainedPlansCover, PlannerInductive, PTL

\* Under a roomy budget no chunk is merged with another: packing had already
\* put together what fits together.
THEOREM PackingTight == PlannerSpec => []PackingIsTight
<1>1. PlannerInv => PackingIsTight
  BY DEF PlannerInv, TightInv, PackingIsTight
<1>2. QED
  BY <1>1, PlannerInductive, PTL

\* The chunks of a plan are apart.
LEMMA PartsAreApart == PlannerInv => MergedPartsIndependent
<1> SUFFICES ASSUME PlannerInv, NEW p \in DOMAIN plans,
                    NEW a \in PartsOf(plans[p]), NEW b \in PartsOf(plans[p]), a # b,
                    NEW i \in NodesOf(chunks[a]), NEW j \in NodesOf(chunks[b])
             PROVE  AccountsOf(layer[i]) \cap layer[j].writes = {}
  BY DEF MergedPartsIndependent, PartsOf
<1>1. Apart(chunks[a], chunks[b])
  BY DEF PlannerInv, PlansInv, PlanInv
<1>2. QED
  BY <1>1 DEF Apart

\* Of the chunks that a plan joins, none writes what another accesses.
THEOREM MergedPartsAreIndependent == PlannerSpec => []MergedPartsIndependent
  BY PartsAreApart, PlannerInductive, PTL

\* A message is no larger than an overhead, its keys, the tables and its
\* instructions.
LEMMA MessageCost ==
    ASSUME OptionTypes, layer \in Seq(Footprints), NEW A \in SUBSET DOMAIN layer
    PROVE  LET keys == Cardinality(UnionOfKeys(A))
           IN  /\ KeyCost(keys) \in Nat /\ SumBytes(A) \in Nat /\ MessageBytes(A) \in Nat
               /\ MessageBytes(A) <= 38 + KeyCost(keys) + opts.tableBytes + SumBytes(A)
<1> DEFINE keys == Cardinality(UnionOfKeys(A))
           tables == IF keys > InMessage(keys) THEN opts.tableBytes ELSE 0
<1>1. keys \in Nat /\ SumBytes(A) \in Nat
  BY UnionFacts, BytesInFacts DEF SumBytes
<1>2. MapThenSumSet(LAMBDA i : layer[i].bytes, A) = SumBytes(A)
  BY DEF SumBytes, BytesIn
<1>3. MessageBytes(A) = BaseBytes + KeyBytes * InMessage(keys)
                          + IndexBytes * (keys - InMessage(keys)) + tables + SumBytes(A)
  BY <1>2 DEF MessageBytes, InMessage
<1>4. opts.tableBytes \in Nat /\ tables \in Nat /\ tables <= opts.tableBytes
  BY DEF OptionTypes
<1> HIDE DEF keys, tables
<1>5. /\ KeyCost(keys) \in Nat /\ InMessage(keys) \in Nat /\ InMessage(keys) <= keys
      /\ KeyCost(keys) = 32 * InMessage(keys) + (keys - InMessage(keys))
  BY <1>1, KeyCosts
<1>6. MessageBytes(A) = 38 + KeyCost(keys) + tables + SumBytes(A)
  <2> DEFINE m == InMessage(keys)
             s == SumBytes(A)
  <2>1. /\ m \in Nat /\ m <= keys /\ s \in Nat
        /\ KeyCost(keys) = 32 * m + (keys - m)
        /\ MessageBytes(A) = 38 + 32 * m + 1 * (keys - m) + tables + s
    BY <1>1, <1>3, <1>5 DEF BaseBytes, KeyBytes, IndexBytes
  <2> HIDE DEF m, s
  <2>2. MessageBytes(A) = 38 + (32 * m + (keys - m)) + tables + s
    BY <1>1, <1>4, <2>1
  <2>3. QED
    BY <2>1, <2>2 DEF s
<1>7. QED
  <2> DEFINE k == KeyCost(keys)
             s == SumBytes(A)
             b == opts.tableBytes
  <2>1. /\ k \in Nat /\ s \in Nat /\ b \in Nat /\ tables \in Nat /\ tables <= b
        /\ MessageBytes(A) = 38 + k + tables + s
    BY <1>1, <1>4, <1>5, <1>6
  <2> HIDE DEF k, s, b
  <2>2. MessageBytes(A) \in Nat /\ MessageBytes(A) <= 38 + k + b + s
    BY <2>1
  <2>3. QED
    BY <2>1, <2>2 DEF k, s, b, keys

\* What covers the bytes of a chunk or plan covers its message.
LEMMA CoveredBudgets == PlannerInv => BudgetsKept
<1> SUFFICES ASSUME PlannerInv
             PROVE  BudgetsKept
  OBVIOUS
<1>1. /\ opts \in Options /\ layer \in Seq(Footprints) /\ chunks \in Seq(ChunkRecord)
      /\ plans \in Seq(PlanRecord) /\ Nonempty(ChunkRecord)
      /\ ChunksInv(chunks) /\ Chained(chunks)
  BY RecordFacts DEF PlannerInv, ChunksInv
<1>2. OptionTypes
  BY <1>1, OptionsTyped
<1>3. /\ opts.slack \in Nat /\ opts.tableBytes \in Nat /\ opts.maxBytes \in Nat
      /\ opts.maxMessage \in Nat
  BY <1>2 DEF OptionTypes
<1>4. ASSUME NEW c \in DOMAIN chunks
      PROVE  LET nodes == NodesOf(chunks[c])
                 keys == Cardinality(UnionOfKeys(nodes))
                 inMessage == IF opts.alt THEN Lesser(keys, opts.reserve) ELSE keys
             IN  /\ Cardinality(nodes) <= opts.maxInstrs
                 /\ inMessage <= opts.maxKeys
                 /\ opts.maxKeys <= opts.reserve + opts.maxAlt
                       => keys - inMessage <= opts.maxAlt
                 /\ MapThenSumSet(LAMBDA i : layer[i].cu, nodes) <= opts.maxCu
                 /\ opts.tableBytes <= opts.slack => MessageBytes(nodes) <= opts.maxBytes
  <2> DEFINE chunk == chunks[c]
             nodes == NodesOf(chunk)
             keys == Cardinality(UnionOfKeys(nodes))
             k == KeyCost(keys)
             s == SumBytes(nodes)
             m == MessageBytes(nodes)
  <2>1. nodes \in SUBSET DOMAIN layer /\ WithinBudget(chunk) /\ chunk \in ChunkRecord
    BY <1>1 DEF ChunksInv
  <2>2. Cardinality(nodes) = Len(chunk.nodes)
    <3>1. c \in 1 .. Len(chunks) /\ c - 1 \in 0 .. Len(chunks)
      BY <1>1
    <3> DEFINE a == End(chunks, c - 1)
               b == End(chunks, c)
               l == Len(chunk.nodes)
    <3>2. a \in Nat /\ l \in Nat \ {0} /\ b = a + l /\ nodes = a + 1 .. b
      BY <1>1, <3>1, ChainEnds
    <3> HIDE DEF a, b, l, nodes
    <3>3. a + 1 \in Int /\ b \in Int /\ ~ (a + 1 > b) /\ b - (a + 1) + 1 = l
      BY <3>2
    <3>4. Cardinality(nodes) = b - (a + 1) + 1
      BY <3>2, <3>3, FS_Interval
    <3>5. QED
      BY <3>3, <3>4 DEF l
  <2>3. MapThenSumSet(LAMBDA i : layer[i].cu, nodes) = SumCu(nodes)
    BY DEF SumCu, CuIn
  <2>4. InMessage(keys) = IF opts.alt THEN Lesser(keys, opts.reserve) ELSE keys
    BY DEF InMessage
  <2>5. /\ Len(chunk.nodes) <= opts.maxInstrs /\ InMessage(keys) <= opts.maxKeys
        /\ opts.maxKeys <= opts.reserve + opts.maxAlt
              => keys - InMessage(keys) <= opts.maxAlt
        /\ SumCu(nodes) <= opts.maxCu
        /\ 38 + opts.slack + k + s <= chunk.bytes /\ chunk.bytes <= opts.maxBytes
    <3>1. 1 * (BaseBytes + opts.slack) = 38 + opts.slack
      BY <1>3 DEF BaseBytes
    <3>2. QED
      BY <2>1, <3>1 DEF WithinBudget, BytesCover
  <2>6. chunk.bytes \in Nat
    BY <2>1 DEF ChunkRecord
  <2>7. k \in Nat /\ s \in Nat /\ m \in Nat /\ m <= 38 + k + opts.tableBytes + s
    BY <1>1, <1>2, <2>1, MessageCost
  <2> HIDE DEF chunk, nodes, keys, k, s, m
  <2>8. opts.tableBytes <= opts.slack => m <= opts.maxBytes
    <3>1. \A t, w, x, y, z, v \in Nat :
             t <= w /\ 38 + w + x + y <= z /\ z <= v => 38 + x + t + y <= v
      OBVIOUS
    <3>2. opts.tableBytes <= opts.slack => 38 + k + opts.tableBytes + s <= opts.maxBytes
      BY <1>3, <2>5, <2>6, <2>7, <3>1
    <3>3. \A x, y, z \in Nat : x <= y /\ y <= z => x <= z
      OBVIOUS
    <3>4. 38 + k + opts.tableBytes + s \in Nat
      BY <1>3, <2>7
    <3>5. QED
      BY <1>3, <2>7, <3>2, <3>3, <3>4
  <2>9. QED
    BY <2>2, <2>3, <2>4, <2>5, <2>8 DEF chunk, nodes, keys, m
<1>5. ASSUME NEW p \in DOMAIN plans, plans[p].merged # <<>>,
             opts.tableBytes <= BaseBytes + 2 * opts.slack
      PROVE  MessageBytes(NodesOf(plans[p])) <= opts.maxMessage
  <2> DEFINE plan == plans[p]
             nodes == NodesOf(plan)
             k == KeyCost(Cardinality(UnionOfKeys(nodes)))
             s == SumBytes(nodes)
             m == MessageBytes(nodes)
  <2>1. /\ nodes \in SUBSET DOMAIN layer /\ BytesCover(plan, 2)
        /\ plan.bytes <= opts.maxMessage
    BY <1>5 DEF PlannerInv, PlansInv, PlanInv
  <2>2. plan.bytes \in Nat
    <3>1. plan \in PlanRecord
      BY <1>1
    <3>2. QED
      BY <3>1 DEF PlanRecord
  <2>3. 2 * (38 + opts.slack) + k + s <= plan.bytes
    BY <2>1 DEF BytesCover, BaseBytes
  <2>4. k \in Nat /\ s \in Nat /\ m \in Nat /\ m <= 38 + k + opts.tableBytes + s
    BY <1>1, <1>2, <2>1, MessageCost
  <2>5. opts.tableBytes <= 38 + 2 * opts.slack
    BY <1>5 DEF BaseBytes
  <2> HIDE DEF plan, nodes, k, s, m
  <2>6. \A t, w, x, y, z, v \in Nat :
           t <= 38 + 2 * w /\ 2 * (38 + w) + x + y <= z /\ z <= v => 38 + x + t + y <= v
    OBVIOUS
  <2>7. 38 + k + opts.tableBytes + s <= opts.maxMessage
    BY <1>3, <2>1, <2>2, <2>3, <2>4, <2>5, <2>6
  <2>8. \A x, y, z \in Nat : x <= y /\ y <= z => x <= z
    OBVIOUS
  <2>9. 38 + k + opts.tableBytes + s \in Nat
    BY <1>3, <2>4
  <2>10. QED
    BY <1>3, <2>4, <2>7, <2>8, <2>9 DEF m, nodes, plan
<1>6. QED
  BY <1>4, <1>5 DEF BudgetsKept

\* What a chunk and a merged plan come to is within the budgets, wherever the
\* planner took the keys of an intent to go.
THEOREM BudgetsAreKept == PlannerSpec => []BudgetsKept
  BY CoveredBudgets, PlannerInductive, PTL

-----------------------------------------------------------------------------
(* The assertion before add.                                               *)

\* What fits alone can be added to an empty accumulator, as the assertion has
\* it, unless there are lookup tables: then can_add takes all its keys for
\* message keys, and fits_in_empty only as many as are reserved.
LEMMA EmptyCanAdd ==
    ASSUME opts \in Options, NEW fp \in Footprints, FitsInEmpty(fp)
    PROVE  CanAdd(Empty, fp) <=>
              (opts.alt /\ opts.reserve > 0 => Len(fp.keys) <= opts.maxKeys)
<1> DEFINE n == Len(fp.keys)
           new == Cardinality({p \in DOMAIN fp.keys : fp.keys[p] \notin Empty.message \cup Empty.alt})
<1>1. /\ OptionTypes /\ fp.keys \in Seq(Keys) /\ n \in Nat /\ fp.cu \in Nat /\ fp.bytes \in Nat
  BY OptionsTyped, PlannerAssumption DEF Footprint
<1>2. /\ Empty.message = {} /\ Empty.alt = {} /\ Empty.cu = 0 /\ Empty.nodes = <<>>
      /\ Empty.bytes = BaseBytes + opts.slack /\ Cardinality({}) = 0
  BY FS_EmptySet DEF Empty
<1>3. new = n
  <2>1. {p \in DOMAIN fp.keys : fp.keys[p] \notin Empty.message \cup Empty.alt} = 1 .. n
    BY <1>1, <1>2
  <2>2. Cardinality(1 .. n) = n
    <3> HIDE DEF n
    <3>1. 1 \in Int /\ n \in Int /\ 1 <= n + 1 /\ n - 1 + 1 = n
      BY <1>1
    <3>2. QED
      BY <1>1, <3>1, FS_Interval
  <2>3. QED
    BY <2>1, <2>2
<1>4. /\ MessageUnique(fp) = InMessage(n) /\ AltUnique(fp) = n - InMessage(n)
      /\ InMessage(n) \in Nat /\ InMessage(n) <= n
      /\ MessageUnique(fp) \in Nat /\ AltUnique(fp) \in Nat /\ SelfBytes(fp) \in Nat
  <2>1. MessageUnique(fp) = InMessage(n) /\ AltUnique(fp) = n - InMessage(n)
    BY DEF MessageUnique, AltUnique, InMessage
  <2> HIDE DEF n
  <2>2. InMessage(n) \in Nat /\ InMessage(n) <= n
    BY <1>1, KeyCosts
  <2>3. SelfBytes(fp) \in Nat
    BY <1>1, <2>1, <2>2 DEF SelfBytes, KeyBytes, IndexBytes
  <2>4. QED
    BY <1>1, <2>1, <2>2, <2>3
<1>5. /\ AloneBytes(fp) <= opts.maxBytes /\ MessageUnique(fp) <= opts.maxKeys
      /\ AltUnique(fp) <= opts.maxAlt /\ 1 <= opts.maxInstrs /\ fp.cu <= opts.maxCu
  BY DEF FitsInEmpty
<1>6. HasRoom(Empty) /\ Empty.cu + fp.cu <= opts.maxCu
  BY <1>1, <1>2, <1>5 DEF HasRoom
<1>7. CASE opts.alt /\ opts.reserve = 0
  <2>1. MessageUnique(fp) = 0 /\ AltUnique(fp) = n
    <3> HIDE DEF n
    <3>1. InMessage(n) = 0
      BY <1>1, <1>7 DEF InMessage, Lesser
    <3>2. QED
      BY <1>1, <1>4, <3>1
  <2>2. /\ BaseBytes + opts.slack + SelfBytes(fp)
              + (IF n > 0 THEN opts.tableBytes ELSE 0) <= opts.maxBytes
        /\ n <= opts.maxAlt
    BY <1>5, <2>1 DEF AloneBytes
  <2>3. 0 >= opts.reserve
    BY <1>7
  <2>4. 0 + n - n <= opts.maxKeys /\ 0 + n = n
    BY <1>1 DEF OptionTypes
  <2> HIDE DEF n
  <2>5. CanAdd(Empty, fp)
    BY <1>2, <1>3, <1>6, <1>7, <2>2, <2>3, <2>4 DEF CanAdd
  <2>6. QED
    BY <1>7, <2>5
<1>8. CASE ~ (opts.alt /\ opts.reserve = 0)
  <2>1. ~ (opts.alt /\ 0 >= opts.reserve)
    BY <1>1, <1>8 DEF OptionTypes
  <2>2. CanAdd(Empty, fp) <=>
           /\ BaseBytes + opts.slack + SelfBytes(fp) + 0 <= opts.maxBytes
           /\ 0 + n - 0 <= opts.maxKeys
           /\ 0 + 0 <= opts.maxAlt
    <3> HIDE DEF n
    <3>1. QED
      BY <1>2, <1>3, <1>6, <2>1 DEF CanAdd
  <2>3. BaseBytes + opts.slack + SelfBytes(fp) + 0 <= opts.maxBytes
    <3>1. BaseBytes \in Nat /\ opts.slack \in Nat /\ opts.maxBytes \in Nat /\ opts.tableBytes \in Nat
      BY <1>1 DEF BaseBytes, OptionTypes
    <3>2. QED
      BY <1>4, <1>5, <3>1 DEF AloneBytes
  <2>4. 0 + 0 <= opts.maxAlt /\ 0 + n - 0 = n
    BY <1>1 DEF OptionTypes
  <2>5. ~ opts.alt => n <= opts.maxKeys
    BY <1>5 DEF MessageUnique
  <2>6. opts.alt => opts.reserve > 0
    BY <1>1, <1>8 DEF OptionTypes
  <2>7. QED
    BY <2>2, <2>3, <2>4, <2>5, <2>6
<1>9. QED
  BY <1>1, <1>7, <1>8 DEF OptionTypes

\* Just when debug_assert!(cur.can_add(fp)) holds, which the run chunk_assertion
\* violates: the accumulator that is added to is not empty, or the intent's keys
\* go into the message whatever is reserved for tables.
AssertionFailsWithTables ==
    [][(AddToChunk \/ StartChunk) =>
          LET fp == layer[next]
              into == IF NeedsSplit(acc, fp) THEN Empty ELSE acc
          IN  CanAdd(into, fp) <=>
                 (into.nodes = <<>> /\ opts.alt /\ opts.reserve > 0
                     => Len(fp.keys) <= opts.maxKeys)]_plannerVars

\* An accumulator that is not empty is added to only if can_add says so, and one
\* without an intent is the empty one.
THEOREM AssertionFailsOnlyWithTables == PlannerSpec => AssertionFailsWithTables
<1>1. ASSUME PlannerInv, AddToChunk \/ StartChunk
      PROVE  LET fp == layer[next]
                 into == IF NeedsSplit(acc, fp) THEN Empty ELSE acc
             IN  CanAdd(into, fp) <=>
                    (into.nodes = <<>> /\ opts.alt /\ opts.reserve > 0
                        => Len(fp.keys) <= opts.maxKeys)
  <2> DEFINE fp == layer[next]
             into == IF NeedsSplit(acc, fp) THEN Empty ELSE acc
  <2>1. phase = "pack" /\ next <= Len(layer) /\ FitsInEmpty(fp)
    BY <1>1 DEF AddToChunk, StartChunk, Packing
  <2>2. next \in DOMAIN layer /\ layer \in Seq(Footprints) /\ opts \in Options
    BY <1>1, <2>1, PackingFacts DEF PlannerInv, PlannerTypeOK
  <2>3. fp \in Footprints
    BY <2>2
  <2>4. acc.nodes = <<>> => acc = Empty
    BY <1>1 DEF PlannerInv, AccInv
  <2>5. Empty.nodes = <<>>
    BY DEF Empty
  <2> HIDE DEF fp
  <2>6. CASE into.nodes = <<>>
    <3>1. into = Empty
      BY <2>4, <2>6
    <3>2. QED
      BY <2>1, <2>2, <2>3, <2>6, <3>1, EmptyCanAdd DEF fp
  <2>7. CASE into.nodes # <<>>
    <3>1. into = acc /\ CanAdd(acc, fp)
      BY <2>5, <2>7 DEF NeedsSplit
    <3>2. QED
      BY <2>7, <3>1 DEF fp
  <2>8. QED
    BY <2>6, <2>7 DEF fp
<1>2. QED
  BY <1>1, PlannerInductive, PTL DEF AssertionFailsWithTables

=============================================================================
