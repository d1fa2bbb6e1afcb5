--------------------- MODULE TimingCharacterizationProof ---------------------
(***************************************************************************)
(* The timing campaign for every batch size, number of batches, shuffle,   *)
(* percentile and outcome of a measurement.                                *)
(***************************************************************************)
EXTENDS TimingCharacterization, AeadFunctionsProof, FunctionTheorems,
        FiniteSetTheorems

ClassOf(c) == {i \in 1..measurements : classes[i] = c}

(* The measurements of this batch and class that the tests may have seen.  *)
Seen(c) == {i \in (Discarded + 1)..(index - 1) : i <= measurements /\ classes[i] = c}

-----------------------------------------------------------------------------
(* The indices of a class of a batch are finitely many.                    *)
LEMMA SelectionFinite ==
    ASSUME NEW m \in Nat, NEW s, NEW c
    PROVE  /\ IsFiniteSet({i \in 1..m : s[i] = c})
           /\ Cardinality({i \in 1..m : s[i] = c}) \in Nat
<1> DEFINE C == {i \in 1..m : s[i] = c}
<1>1. IsFiniteSet(1..m)
  BY FS_Interval
<1>2. C \in SUBSET (1..m)
  OBVIOUS
<1> HIDE DEF C
<1>3. IsFiniteSet(C)
  BY <1>1, <1>2, FS_Subset
<1>4. Cardinality(C) \in Nat
  BY <1>3, FS_CardinalityType
<1> QED  BY <1>3, <1>4 DEF C

(* A shuffle step keeps the number of each class: a swap is its own        *)
(* inverse on the positions.                                               *)
LEMMA SwapKeepsClasses ==
    ASSUME NEW m \in Nat, NEW s \in [1..m -> 0..1], NEW i \in 1..m, NEW j \in 1..m,
           NEW c
    PROVE  /\ Swap(s, i, j) \in [1..m -> 0..1]
           /\ Cardinality({k \in 1..m : Swap(s, i, j)[k] = c})
                  = Cardinality({k \in 1..m : s[k] = c})
<1> DEFINE t == Swap(s, i, j)
           to(k) == IF k = i THEN j ELSE IF k = j THEN i ELSE k
           S == {k \in 1..m : s[k] = c}
           T == {k \in 1..m : t[k] = c}
           f == [k \in S |-> to(k)]
<1>1. t \in [1..m -> 0..1]
  BY DEF Swap
<1>2. \A k \in 1..m : t[k] = s[to(k)] /\ to(k) \in 1..m /\ to(to(k)) = k
  BY DEF Swap
<1> HIDE DEF t, to
<1>3. \A k \in 1..m : t[to(k)] = s[k]
  BY <1>2
<1>4. f \in [S -> T]
  BY <1>2, <1>3
<1>5. \A a, b \in S : f[a] = f[b] => a = b
  BY <1>2
<1>6. \A y \in T : \E x \in S : f[x] = y
  <2> TAKE y \in T
  <2>1. to(y) \in S /\ f[to(y)] = y
    BY <1>2
  <2> QED  BY <2>1
<1> HIDE DEF f
<1>7. f \in Bijection(S, T)
  BY <1>4, <1>5, <1>6, Fun_IsBij
<1>8. ExistsBijection(S, T)
  BY <1>7 DEF ExistsBijection
<1>9. IsFiniteSet(S)
  BY SelectionFinite
<1>10. Cardinality(T) = Cardinality(S)
  BY <1>8, <1>9, FS_Bijection
<1> QED  BY <1>1, <1>10 DEF t

(* Half of the classes are 0 and half of them 1 before the shuffle.        *)
LEMMA FilledClasses ==
    ASSUME NEW m \in Nat, m % 2 = 0, NEW c \in 0..1
    PROVE  LET s == [i \in 1..m |-> IF i <= m \div 2 THEN 0 ELSE 1]
           IN  /\ s \in [1..m -> 0..1]
               /\ 2 * Cardinality({i \in 1..m : s[i] = c}) = m
<1> DEFINE h == m \div 2
           s == [i \in 1..m |-> IF i <= h THEN 0 ELSE 1]
<1>1. h \in Nat /\ 2 * h = m /\ h <= m
  OBVIOUS
<1> HIDE DEF h
<1>2. s \in [1..m -> 0..1]
  OBVIOUS
<1>3. CASE c = 0
  <2>1. {i \in 1..m : s[i] = c} = 1..h
    BY <1>1, <1>3
  <2>2. Cardinality(1..h) = h
    BY <1>1, FS_Interval
  <2> QED  BY <1>1, <1>2, <2>1, <2>2 DEF h
<1>4. CASE c = 1
  <2> DEFINE a == h + 1
  <2>1. a \in Int /\ m \in Int /\ (IF a > m THEN 0 ELSE m - a + 1) = h
    BY <1>1
  <2>2. {i \in 1..m : s[i] = c} = a..m
    BY <1>1, <1>4
  <2> HIDE DEF a
  <2>3. Cardinality(a..m) = h
    BY <2>1, FS_Interval
  <2>4. Cardinality({i \in 1..m : s[i] = c}) = h
    BY <2>2, <2>3
  <2> QED  BY <1>1, <1>2, <2>4 DEF h
<1> QED  BY <1>3, <1>4

-----------------------------------------------------------------------------
(* The inductive invariant of the campaign.                                *)
InBatch == {"shuffle", "prepare", "measure", "statistics"}

TypeInv ==
    /\ config \in Configs
    /\ pc \in {"parse", "error", "batch", "done"} \cup InBatch
    /\ batch \in Nat /\ index \in Nat /\ percentile \in 0..1
    /\ tests \in [Tests -> [0..1 -> Nat]]

(* Only an accepted configuration is measured, as often as it says; the    *)
(* batches with percentile 0 include the first.                            *)
BatchInv ==
    /\ pc \notin {"parse", "error"} => ValidConfig(config)
    /\ pc \in {"parse", "error"} => batch = 0
    /\ pc \in InBatch => batch <= batches
    /\ pc \in {"batch", "done"} => batch <= batches + 1
    /\ batch = 0 => percentile = 0

(* Every batch is balanced, at each point of the shuffle.                  *)
ClassInv ==
    pc \in InBatch =>
        /\ classes \in [1..measurements -> 0..1]
        /\ \A c \in 0..1 : 2 * Cardinality(ClassOf(c)) = measurements

IndexInv ==
    /\ pc = "shuffle" => index \in 1..measurements
    /\ pc = "statistics" => index > Discarded

(* The raw test has no more of a class than the statistics batches before  *)
(* this one held, and what it has been given of this one.                  *)
RawInv ==
    \A c \in 0..1 :
        IF batch = 0 THEN tests[0][c] = 0
        ELSE 2 * tests[0][c] <= (batch - 1) * measurements
                 + (IF pc = "statistics" THEN 2 * Cardinality(Seen(c)) ELSE 0)

SubsetInv ==
    /\ \A c \in 0..1 :
           /\ \A t \in Tests : tests[t][c] <= tests[0][c]
           /\ \A t \in 2..NumberPercentiles : tests[t - 1][c] <= tests[t][c]
    /\ tests[Second] # NoCount => tests[0][0] > Enough

SummaryInv ==
    summary.leakage => /\ pc = "done"
                       /\ batches * measurements > 2 * Enough
                       /\ \A c \in 0..1 : tests[0][c] > Enough

EvidenceInv == /\ TypeInv /\ BatchInv /\ ClassInv /\ IndexInv /\ RawInv /\ SubsetInv
               /\ SummaryInv

(* The numbers of the tests.                                               *)
LEMMA TestNumbers ==
    /\ 0 \in Tests /\ Second \in Tests /\ NumberPercentiles \in Nat
    /\ Second = NumberPercentiles + 1 /\ 1..NumberPercentiles \subseteq Tests
    /\ \A t \in 2..NumberPercentiles : /\ t \in Tests /\ t - 1 \in Tests
                                       /\ t # Second /\ t - 1 # Second
                                       /\ t # 0 /\ t - 1 # 0
  BY CampaignAssumption DEF Tests, Second

(* The numbers of an accepted configuration.                               *)
LEMMA ConfigFacts ==
    ASSUME config \in Configs
    PROVE  /\ measurements \in Nat /\ batches \in Nat
           /\ ValidConfig(config) => measurements > 0 /\ measurements % 2 = 0
  BY CampaignAssumption DEF measurements, batches, ValidConfig

(* What this batch adds to a class is at most half of it.                  *)
LEMMA SeenBound ==
    ASSUME TypeInv, ClassInv, pc = "statistics", NEW c \in 0..1
    PROVE  /\ IsFiniteSet(Seen(c)) /\ Cardinality(Seen(c)) \in Nat
           /\ 2 * Cardinality(Seen(c)) <= measurements
<1>1. measurements \in Nat /\ index \in Nat /\ Discarded \in Nat
  BY ConfigFacts, CampaignAssumption DEF TypeInv
<1>2. IsFiniteSet(ClassOf(c)) /\ Cardinality(ClassOf(c)) \in Nat
  <2>1. ClassOf(c) \in SUBSET (1..measurements) /\ IsFiniteSet(1..measurements)
    BY <1>1, FS_Interval DEF ClassOf
  <2> QED  BY <2>1, FS_Subset, FS_CardinalityType
<1>3. Seen(c) \in SUBSET ClassOf(c)
  BY <1>1 DEF Seen, ClassOf
<1>4. IsFiniteSet(Seen(c)) /\ Cardinality(Seen(c)) <= Cardinality(ClassOf(c))
  BY <1>2, <1>3, FS_Subset
<1>5. Cardinality(Seen(c)) \in Nat
  BY <1>4, FS_CardinalityType
<1>6. 2 * Cardinality(ClassOf(c)) = measurements
  BY DEF ClassInv, InBatch
<1> QED  BY <1>2, <1>4, <1>5, <1>6

(* Whole batches, whether the last one is still being counted or not.      *)
LEMMA RawBound ==
    ASSUME EvidenceInv, batch # 0, NEW c \in 0..1
    PROVE  2 * tests[0][c] <= batch * measurements
<1> DEFINE r == tests[0][c]  m == measurements  b == batch
           n == Cardinality(Seen(c))
<1>1. r \in Nat /\ m \in Nat /\ b \in Nat /\ b # 0
  BY ConfigFacts, TestNumbers DEF EvidenceInv, TypeInv
<1>2. 2 * r <= (b - 1) * m + (IF pc = "statistics" THEN 2 * n ELSE 0)
  BY DEF EvidenceInv, RawInv
<1>3. pc = "statistics" => n \in Nat /\ 2 * n <= m
  BY SeenBound DEF EvidenceInv
<1> HIDE DEF r, m, b, n
<1>4. (b - 1) * m + m = b * m /\ (b - 1) * m \in Int /\ b * m \in Int
  BY <1>1
<1>5. 2 * r <= (b - 1) * m + m
  <2> DEFINE q == (b - 1) * m
  <2>1. q \in Int /\ 2 * r <= q + (IF pc = "statistics" THEN 2 * n ELSE 0)
    BY <1>2, <1>4
  <2> HIDE DEF q
  <2>2. 2 * r <= q + m
    BY <1>1, <1>3, <2>1
  <2> QED  BY <2>2 DEF q
<1> QED  BY <1>4, <1>5 DEF r, m, b

(* An invariant of these variables survives a step that leaves them alone. *)
LEMMA ConfigUnchanged ==
    ASSUME config' = config
    PROVE  /\ measurements' = measurements /\ batches' = batches /\ target' = target
           /\ ValidConfig(config)' = ValidConfig(config)
  BY DEF measurements, batches, target, ValidConfig

-----------------------------------------------------------------------------
(* The campaign starts with empty tests.                                   *)
LEMMA EvidenceInit == Init => EvidenceInv
<1> SUFFICES ASSUME Init PROVE EvidenceInv
  OBVIOUS
<1>1. /\ pc = "parse" /\ config \in Configs /\ batch = 0 /\ index = 0 /\ percentile = 0
      /\ tests = [t \in Tests |-> NoCount]
      /\ summary.leakage = FALSE
  BY DEF Init, NoSummary
<1>2. /\ \A t \in Tests : tests[t] = NoCount
      /\ NoCount \in [0..1 -> Nat] /\ \A c \in 0..1 : NoCount[c] = 0
  BY <1>1 DEF NoCount
<1>3. TypeInv
  BY <1>1, <1>2 DEF TypeInv
<1>4. BatchInv /\ ClassInv /\ IndexInv
  BY <1>1 DEF BatchInv, ClassInv, IndexInv, InBatch
<1>5. RawInv
  BY <1>1, <1>2, TestNumbers DEF RawInv
<1>6. SubsetInv
  <2>1. \A t \in 2..NumberPercentiles : t \in Tests /\ t - 1 \in Tests
    BY TestNumbers
  <2>2. 0 \in Tests /\ Second \in Tests
    BY TestNumbers
  <2> QED  BY <1>2, <2>1, <2>2 DEF SubsetInv
<1>7. SummaryInv
  BY <1>1 DEF SummaryInv
<1> QED  BY <1>3, <1>4, <1>5, <1>6, <1>7 DEF EvidenceInv

(* A step that leaves the counts alone, outside the statistics, keeps the  *)
(* bounds on them.                                                         *)
LEMMA CountsUnchanged ==
    ASSUME EvidenceInv, UNCHANGED <<config, batch, tests, summary>>,
           pc # "statistics", pc # "done",
           pc' = "statistics" => \A c \in 0..1 : Cardinality(Seen(c)') = 0
    PROVE  RawInv' /\ SubsetInv' /\ SummaryInv'
<1>1. measurements' = measurements /\ batches' = batches
  BY ConfigUnchanged
<1>2. ASSUME NEW c \in 0..1
      PROVE  IF batch' = 0 THEN tests'[0][c] = 0
             ELSE 2 * tests'[0][c] <= (batch' - 1) * measurements'
                      + (IF pc' = "statistics" THEN 2 * Cardinality(Seen(c)') ELSE 0)
  <2> DEFINE q == (batch - 1) * measurements
  <2>1. IF batch = 0 THEN tests[0][c] = 0 ELSE 2 * tests[0][c] <= q + 0
    BY DEF EvidenceInv, RawInv
  <2>2. pc' = "statistics" => Cardinality(Seen(c)') = 0
    OBVIOUS
  <2> HIDE DEF q
  <2>3. IF batch' = 0 THEN tests'[0][c] = 0
        ELSE 2 * tests'[0][c] <= q + (IF pc' = "statistics" THEN 2 * Cardinality(Seen(c)') ELSE 0)
    BY <2>1, <2>2
  <2>4. q = (batch' - 1) * measurements'
    BY <1>1 DEF q
  <2> QED  BY <2>3, <2>4
<1>3. RawInv'
  BY <1>2 DEF RawInv
<1>4. SubsetInv'
  BY DEF EvidenceInv, SubsetInv, NoCount
<1>5. SummaryInv'
  BY DEF EvidenceInv, SummaryInv
<1> QED  BY <1>3, <1>4, <1>5

(* A refused command line.                                                 *)
LEMMA RejectConfigKeeps ==
    ASSUME EvidenceInv, RejectConfig
    PROVE  EvidenceInv'
<1>1. /\ pc = "parse" /\ pc' = "error" /\ batch' = batch /\ percentile' = percentile
      /\ config' = config /\ index' = index /\ tests' = tests /\ summary' = summary
  BY DEF RejectConfig
<1>2. RawInv' /\ SubsetInv' /\ SummaryInv'
  BY <1>1, CountsUnchanged
<1>3. TypeInv'
  BY <1>1 DEF EvidenceInv, TypeInv
<1>4. BatchInv' /\ ClassInv' /\ IndexInv'
  BY <1>1, ConfigUnchanged DEF EvidenceInv, BatchInv, ClassInv, IndexInv, InBatch
<1> QED  BY <1>2, <1>3, <1>4 DEF EvidenceInv

(* A batch begins balanced.                                                *)
LEMMA FillClassesKeeps ==
    ASSUME EvidenceInv, FillClasses
    PROVE  EvidenceInv'
<1> DEFINE m == measurements
<1>1. /\ \/ pc = "parse" /\ ValidConfig(config)
         \/ pc = "batch" /\ batch <= batches
      /\ classes' = [i \in 1..m |-> IF i <= m \div 2 THEN 0 ELSE 1]
      /\ index' = m /\ pc' = "shuffle" /\ config' = config /\ batch' = batch
      /\ percentile' = percentile /\ tests' = tests /\ summary' = summary
  BY DEF FillClasses
<1>2. ValidConfig(config) /\ config \in Configs
  BY <1>1 DEF EvidenceInv, BatchInv, TypeInv
<1>3. m \in Nat /\ m > 0 /\ m % 2 = 0 /\ batches \in Nat
  BY <1>2, ConfigFacts
<1>4. measurements' = m /\ batches' = batches /\ ValidConfig(config)'
  BY <1>1, <1>2, ConfigUnchanged
<1>5. RawInv' /\ SubsetInv' /\ SummaryInv'
  BY <1>1, CountsUnchanged
<1>6. TypeInv'
  BY <1>1, <1>3 DEF EvidenceInv, TypeInv, InBatch
<1>7. BatchInv'
  BY <1>1, <1>3, <1>4 DEF EvidenceInv, BatchInv, InBatch
<1>8. IndexInv'
  BY <1>1, <1>3, <1>4 DEF IndexInv
<1>9. ClassInv'
  <2> HIDE DEF m
  <2> DEFINE s == [i \in 1..m |-> IF i <= m \div 2 THEN 0 ELSE 1]
  <2>1. \A c \in 0..1 : s \in [1..m -> 0..1] /\ 2 * Cardinality({i \in 1..m : s[i] = c}) = m
    BY <1>3, FilledClasses
  <2> HIDE DEF s
  <2>2. classes' = s
    BY <1>1 DEF s
  <2>3. \A c \in 0..1 : ClassOf(c)' = {i \in 1..m : s[i] = c}
    BY <1>4, <2>2 DEF ClassOf
  <2>4. 0 \in 0..1
    OBVIOUS
  <2> QED  BY <1>4, <2>1, <2>2, <2>3, <2>4 DEF ClassInv
<1> QED  BY <1>5, <1>6, <1>7, <1>8, <1>9 DEF EvidenceInv

(* A step of the shuffle.                                                  *)
LEMMA ShuffleKeeps ==
    ASSUME EvidenceInv, Shuffle
    PROVE  EvidenceInv'
<1> DEFINE m == measurements
<1>1. /\ pc = "shuffle" /\ config' = config /\ batch' = batch
      /\ percentile' = percentile /\ tests' = tests /\ summary' = summary
      /\ \/ /\ index > 1 /\ index' = index - 1 /\ pc' = pc
            /\ \E other \in 1..index : classes' = Swap(classes, index, other)
         \/ index <= 1 /\ classes' = classes /\ index' = 1 /\ pc' = "prepare"
  BY DEF Shuffle, EvidenceInv, TypeInv
<1>2. /\ config \in Configs /\ m \in Nat /\ measurements' = m /\ batches' = batches
      /\ ValidConfig(config)' = ValidConfig(config)
  BY <1>1, ConfigFacts, ConfigUnchanged DEF EvidenceInv, TypeInv
<1>3. index \in 1..m
  BY <1>1 DEF EvidenceInv, IndexInv
<1>4. RawInv' /\ SubsetInv' /\ SummaryInv'
  BY <1>1, CountsUnchanged
<1>5. TypeInv'
  BY <1>1, <1>2, <1>3 DEF EvidenceInv, TypeInv, InBatch
<1>6. BatchInv'
  BY <1>1, <1>2 DEF EvidenceInv, BatchInv, InBatch
<1>7. IndexInv'
  BY <1>1, <1>2, <1>3 DEF IndexInv
<1>8. /\ classes \in [1..m -> 0..1]
      /\ \A c \in 0..1 : 2 * Cardinality({i \in 1..m : classes[i] = c}) = m
  BY <1>1 DEF EvidenceInv, ClassInv, InBatch, ClassOf
<1>9. /\ classes' \in [1..m -> 0..1]
      /\ \A c \in 0..1 : 2 * Cardinality({i \in 1..m : classes'[i] = c}) = m
  <2>1. CASE classes' = classes
    BY <1>8, <2>1
  <2>2. CASE \E other \in 1..index : classes' = Swap(classes, index, other)
    <3>1. PICK other \in 1..index : classes' = Swap(classes, index, other)
      BY <2>2
    <3>2. other \in 1..m
      BY <1>2, <1>3
    <3> DEFINE t == Swap(classes, index, other)
    <3>3. \A c : /\ t \in [1..m -> 0..1]
                 /\ Cardinality({k \in 1..m : t[k] = c})
                        = Cardinality({k \in 1..m : classes[k] = c})
      <4>1. m \in Nat /\ classes \in [1..m -> 0..1] /\ index \in 1..m
        BY <1>2, <1>3, <1>8
      <4> HIDE DEF m
      <4> QED  BY <3>2, <4>1, SwapKeepsClasses, Zenon
    <3> HIDE DEF t, m
    <3>4. classes' = t
      BY <3>1 DEF t
    <3> QED  BY <1>8, <3>3, <3>4
  <2> QED  BY <1>1, <2>1, <2>2
<1>10. ClassInv'
  BY <1>2, <1>9 DEF ClassInv, ClassOf
<1> QED  BY <1>4, <1>5, <1>6, <1>7, <1>10 DEF EvidenceInv

(* Preparing and measuring touch neither classes nor counts.               *)
LEMMA SamplingKeeps ==
    ASSUME EvidenceInv, prepare_inputs \/ do_one_computation
    PROVE  EvidenceInv'
<1> DEFINE m == measurements
<1>1. /\ pc \in {"prepare", "measure"} /\ config' = config /\ batch' = batch
      /\ classes' = classes /\ percentile' = percentile /\ tests' = tests
      /\ summary' = summary
      /\ \/ index < m /\ index' = index + 1 /\ pc' = pc
         \/ index' = 1 /\ pc' = "measure"
         \/ index' = Discarded + 1 /\ pc' = "statistics"
  BY DEF prepare_inputs, do_one_computation, EvidenceInv, TypeInv
<1>2. /\ config \in Configs /\ m \in Nat /\ measurements' = m /\ batches' = batches
      /\ ValidConfig(config)' = ValidConfig(config) /\ Discarded \in Nat
  BY <1>1, ConfigFacts, ConfigUnchanged, CampaignAssumption DEF EvidenceInv, TypeInv
<1>3. ASSUME pc' = "statistics", NEW c \in 0..1
      PROVE  Cardinality(Seen(c)') = 0
  <2>1. index' = Discarded + 1
    BY <1>1, <1>3
  <2>2. Seen(c)' = {}
    BY <1>2, <2>1 DEF Seen
  <2> QED  BY <2>2, FS_EmptySet
<1>4. RawInv' /\ SubsetInv' /\ SummaryInv'
  BY <1>1, <1>3, CountsUnchanged
<1>5. TypeInv'
  BY <1>1, <1>2 DEF EvidenceInv, TypeInv, InBatch
<1>6. BatchInv'
  BY <1>1, <1>2 DEF EvidenceInv, BatchInv, InBatch
<1>7. IndexInv'
  BY <1>1, <1>2 DEF IndexInv
<1>8. ClassInv'
  BY <1>1, <1>2 DEF EvidenceInv, ClassInv, InBatch, ClassOf
<1> QED  BY <1>4, <1>5, <1>6, <1>7, <1>8 DEF EvidenceInv

(* The end of a batch, the warm-up or another one.                         *)
LEMMA NextBatchKeeps ==
    ASSUME EvidenceInv, pc = "statistics", NextBatch,
           UNCHANGED <<config, tests, summary>>,
           percentile' \in 0..1
    PROVE  EvidenceInv'
<1>1. batch' = batch + 1 /\ index' = 0 /\ pc' = "batch"
  BY DEF NextBatch
<1>2. /\ config \in Configs /\ measurements \in Nat /\ batches \in Nat /\ batch \in Nat
      /\ measurements' = measurements /\ batches' = batches
      /\ ValidConfig(config)' = ValidConfig(config)
  BY ConfigFacts, ConfigUnchanged DEF EvidenceInv, TypeInv
<1>3. batch <= batches /\ ValidConfig(config)
  BY DEF EvidenceInv, BatchInv, InBatch
<1>4. RawInv'
  <2> SUFFICES ASSUME NEW c \in 0..1
               PROVE  2 * tests[0][c] <= (batch' - 1) * measurements' + 0
    BY <1>1, <1>2 DEF RawInv
  <2> DEFINE r == tests[0][c]  q == batch * measurements
  <2>1. (batch' - 1) * measurements' = q /\ q \in Int
    BY <1>1, <1>2
  <2>2. batch = 0 => r = 0 /\ q = 0
    BY <1>2 DEF EvidenceInv, RawInv
  <2>3. batch # 0 => 2 * r <= q
    BY RawBound
  <2>4. r \in Nat
    BY TestNumbers DEF EvidenceInv, TypeInv
  <2> HIDE DEF r, q
  <2>5. 2 * r <= q + 0
    BY <2>1, <2>2, <2>3, <2>4
  <2> QED  BY <2>1, <2>5 DEF r
<1>5. SubsetInv'
  BY DEF EvidenceInv, SubsetInv, NoCount
<1>6. SummaryInv'
  BY DEF EvidenceInv, SummaryInv
<1>7. TypeInv'
  BY <1>1, <1>2 DEF EvidenceInv, TypeInv
<1>8. BatchInv'
  BY <1>1, <1>2, <1>3 DEF BatchInv, InBatch
<1>9. ClassInv' /\ IndexInv'
  BY <1>1 DEF ClassInv, IndexInv, InBatch
<1> QED  BY <1>4, <1>5, <1>6, <1>7, <1>8, <1>9 DEF EvidenceInv

(* One measurement.                                                        *)
LEMMA UpdateKeeps ==
    ASSUME EvidenceInv, update_statistics
    PROVE  EvidenceInv'
<1> DEFINE k == classes[index]
<1>1. /\ pc = "statistics" /\ percentile # 0 /\ index < measurements
      /\ index' = index + 1 /\ pc' = pc /\ config' = config /\ batch' = batch
      /\ classes' = classes /\ percentile' = percentile /\ summary' = summary
  BY DEF update_statistics
<1>2. /\ config \in Configs /\ measurements \in Nat /\ Discarded \in Nat
      /\ index \in Nat /\ batch \in Nat /\ Enough \in Nat
      /\ measurements' = measurements /\ batches' = batches
      /\ ValidConfig(config)' = ValidConfig(config)
      /\ tests \in [Tests -> [0..1 -> Nat]]
  BY <1>1, ConfigFacts, ConfigUnchanged, CampaignAssumption DEF EvidenceInv, TypeInv
<1>3. index > Discarded /\ index \in 1..measurements /\ batch # 0
  BY <1>1, <1>2 DEF EvidenceInv, IndexInv, BatchInv
<1>4. k \in 0..1
  BY <1>1, <1>3 DEF EvidenceInv, ClassInv, InBatch
<1>5. /\ \A t \in Tests : tests[t] \in [0..1 -> Nat]
      /\ tests[0] \in [0..1 -> Nat]
  BY <1>2, TestNumbers
<1>6. /\ \A c \in 0..1 :
             /\ \A t \in Tests : tests[t][c] <= tests[0][c]
             /\ \A t \in 2..NumberPercentiles : tests[t - 1][c] <= tests[t][c]
      /\ tests[Second] # NoCount => tests[0][0] > Enough
  BY DEF EvidenceInv, SubsetInv
<1> HIDE DEF k
<1>7. \/ tests' = tests
      \/ \E first \in 1..Second :
             tests' = Pushed({0} \cup (first..NumberPercentiles)
                             \cup {t \in {Second} : t_push(tests[0], k)[0] > Enough}, k)
  BY DEF update_statistics, k
<1>8. /\ tests' \in [Tests -> [0..1 -> Nat]]
      /\ \A c \in 0..1 : tests'[0][c] <= tests[0][c] + (IF c = k THEN 1 ELSE 0)
      /\ \A c \in 0..1 :
             /\ \A t \in Tests : tests'[t][c] <= tests'[0][c]
             /\ \A t \in 2..NumberPercentiles : tests'[t - 1][c] <= tests'[t][c]
      /\ tests'[Second] # NoCount => tests'[0][0] > Enough
  <2>1. CASE tests' = tests
    BY <1>2, <1>4, <1>5, <1>6, <2>1
  <2>2. CASE tests' # tests
    <3>0. PICK first \in 1..Second :
              tests' = Pushed({0} \cup (first..NumberPercentiles)
                              \cup {t \in {Second} : t_push(tests[0], k)[0] > Enough}, k)
      BY <1>7, <2>2
    <3> DEFINE used == {0} \cup (first..NumberPercentiles)
                           \cup {t \in {Second} : t_push(tests[0], k)[0] > Enough}
               d(c) == IF c = k THEN 1 ELSE 0
    <3>1. /\ 0 \in used
          /\ \A t \in 2..NumberPercentiles : t - 1 \in used => t \in used
          /\ Second \in used <=> t_push(tests[0], k)[0] > Enough
      BY <1>2, TestNumbers
    <3> HIDE DEF used
    <3>2. tests' = [t \in Tests |-> IF t \in used THEN t_push(tests[t], k) ELSE tests[t]]
      BY <3>0 DEF Pushed, used
    <3>3. ASSUME NEW t \in Tests
          PROVE  /\ t_push(tests[t], k) \in [0..1 -> Nat]
                 /\ \A c \in 0..1 : t_push(tests[t], k)[c] = tests[t][c] + d(c)
      BY <1>4, <1>5 DEF t_push
    <3> HIDE DEF d
    <3>4. \A c \in 0..1 : d(c) \in Nat
      BY DEF d
    <3>5. /\ \A t \in Tests : tests'[t] \in [0..1 -> Nat]
          /\ \A t \in Tests : t \in used => tests'[t] = t_push(tests[t], k)
          /\ \A t \in Tests : t \notin used => tests'[t] = tests[t]
          /\ tests' \in [Tests -> [0..1 -> Nat]]
      BY <1>5, <3>2, <3>3
    <3>6. \A t \in Tests, c \in 0..1 :
              tests'[t][c] = tests[t][c] + (IF t \in used THEN d(c) ELSE 0)
      BY <1>5, <3>3, <3>5
    <3>7. \A c \in 0..1 : tests'[0][c] = tests[0][c] + d(c)
      BY <3>1, <3>6, TestNumbers
    <3>8. \A t \in Tests, c \in 0..1 : tests[t][c] \in Nat
      BY <1>5
    <3>9. \A c \in 0..1, t \in Tests : tests'[t][c] <= tests'[0][c]
      BY <1>6, <3>4, <3>6, <3>7, <3>8, TestNumbers
    <3>10. ASSUME NEW c \in 0..1, NEW t \in 2..NumberPercentiles
           PROVE  tests'[t - 1][c] <= tests'[t][c]
      <4>1. PICK u : u = t - 1
        OBVIOUS
      <4>2. u \in Tests /\ t \in Tests /\ (u \in used => t \in used)
        BY <3>1, <4>1, TestNumbers
      <4>3. tests[u][c] <= tests[t][c]
        BY <1>6, <4>1
      <4>4. /\ tests'[u][c] = tests[u][c] + (IF u \in used THEN d(c) ELSE 0)
            /\ tests'[t][c] = tests[t][c] + (IF t \in used THEN d(c) ELSE 0)
        BY <3>6, <4>2
      <4>5. tests'[u][c] <= tests'[t][c]
        BY <3>4, <3>8, <4>2, <4>3, <4>4
      <4> QED  BY <4>1, <4>5
    <3>11. tests'[Second] # NoCount => tests'[0][0] > Enough
      <4>1. CASE Second \in used
        <5>1. t_push(tests[0], k)[0] = tests'[0][0]
          BY <3>1, <3>5, TestNumbers
        <5> QED  BY <3>1, <4>1, <5>1
      <4>2. CASE Second \notin used
        <5>1. tests'[Second] = tests[Second]
          BY <3>5, <4>2, TestNumbers
        <5>2. tests[0][0] <= tests'[0][0] /\ tests[0][0] \in Nat /\ tests'[0][0] \in Nat
          BY <3>4, <3>5, <3>7, <3>8, TestNumbers
        <5> QED  BY <1>2, <1>6, <5>1, <5>2
      <4> QED  BY <4>1, <4>2
    <3>12. \A c \in 0..1 : tests'[0][c] <= tests[0][c] + (IF c = k THEN 1 ELSE 0)
      BY <3>4, <3>7, <3>8, TestNumbers DEF d
    <3> QED  BY <3>5, <3>9, <3>10, <3>11, <3>12
  <2> QED  BY <2>1, <2>2
<1>9. ASSUME NEW c \in 0..1
      PROVE  Cardinality(Seen(c)') = Cardinality(Seen(c)) + (IF c = k THEN 1 ELSE 0)
  <2>1. IsFiniteSet(Seen(c)) /\ Cardinality(Seen(c)) \in Nat
    BY <1>1, SeenBound DEF EvidenceInv
  <2>2. index \notin Seen(c)
    BY <1>2 DEF Seen
  <2>3. CASE c = k
    <3>1. Seen(c)' = Seen(c) \cup {index}
      BY <1>1, <1>2, <1>3, <2>3 DEF Seen, k
    <3> QED  BY <2>1, <2>2, <2>3, <3>1, FS_AddElement
  <2>4. CASE c # k
    <3>1. Seen(c)' = Seen(c)
      BY <1>1, <1>2, <1>3, <2>4 DEF Seen, k
    <3> QED  BY <2>1, <2>4, <3>1
  <2> QED  BY <2>3, <2>4
<1>10. RawInv'
  <2> SUFFICES ASSUME NEW c \in 0..1
               PROVE  2 * tests'[0][c] <= (batch' - 1) * measurements'
                          + 2 * Cardinality(Seen(c)')
    BY <1>1, <1>3 DEF RawInv
  <2> DEFINE q == (batch - 1) * measurements
             r == tests[0][c]  n == Cardinality(Seen(c))
             d == IF c = k THEN 1 ELSE 0
  <2>1. q \in Int /\ (batch' - 1) * measurements' = q
    BY <1>1, <1>2
  <2>2. r \in Nat /\ 2 * r <= q + 2 * n
    BY <1>1, <1>3, <1>5 DEF EvidenceInv, RawInv
  <2>3. n \in Nat /\ d \in Nat
    BY <1>1, SeenBound DEF EvidenceInv
  <2>4. tests'[0][c] <= r + d /\ tests'[0][c] \in Nat
    BY <1>8, TestNumbers
  <2>5. Cardinality(Seen(c)') = n + d
    BY <1>9
  <2> HIDE DEF q, r, n, d
  <2>6. 2 * tests'[0][c] <= q + 2 * (n + d)
    BY <2>1, <2>2, <2>3, <2>4
  <2> QED  BY <2>1, <2>5, <2>6
<1>11. SubsetInv'
  BY <1>8 DEF SubsetInv, NoCount
<1>12. SummaryInv'
  BY <1>1 DEF EvidenceInv, SummaryInv
<1>13. TypeInv'
  BY <1>1, <1>2, <1>8 DEF EvidenceInv, TypeInv
<1>14. BatchInv' /\ IndexInv'
  BY <1>1, <1>2, <1>3 DEF EvidenceInv, BatchInv, IndexInv, InBatch
<1>15. ClassInv'
  BY <1>1, <1>2 DEF EvidenceInv, ClassInv, InBatch, ClassOf
<1> QED  BY <1>10, <1>11, <1>12, <1>13, <1>14, <1>15 DEF EvidenceInv

(* The verdict.                                                            *)
LEMMA SummarizeKeeps ==
    ASSUME EvidenceInv, summarize
    PROVE  EvidenceInv'
<1> DEFINE ready == {t \in DOMAIN tests : tests[t][0] > Enough /\ tests[t][1] > Enough}
<1>1. /\ pc = "batch" /\ batch > batches /\ pc' = "done" /\ config' = config
      /\ batch' = batch /\ index' = index /\ percentile' = percentile /\ tests' = tests
  BY DEF summarize
<1>2. /\ config \in Configs /\ measurements \in Nat /\ batches \in Nat /\ batch \in Nat
      /\ measurements' = measurements /\ batches' = batches
      /\ ValidConfig(config)' = ValidConfig(config) /\ Enough \in Nat
      /\ tests \in [Tests -> [0..1 -> Nat]]
  BY <1>1, ConfigFacts, ConfigUnchanged, CampaignAssumption DEF EvidenceInv, TypeInv
<1>3. batch = batches + 1
  BY <1>1, <1>2 DEF EvidenceInv, BatchInv
<1>4. summary'.leakage => ready # {}
  <2>1. \E m : summary' = [enough |-> ready # {}, maximum_t |-> m,
                           leakage |-> ready # {} /\ m > Threshold]
    BY Zenon DEF summarize
  <2>2. PICK m : summary' = [enough |-> ready # {}, maximum_t |-> m,
                             leakage |-> ready # {} /\ m > Threshold]
    BY <2>1
  <2> DEFINE found == ready # {}
             above == m > Threshold
  <2>3. summary'.leakage = (found /\ above)
    BY <2>2, Zenon
  <2> QED  BY <2>3, Zenon
<1>5. ASSUME ready # {}
      PROVE  /\ batches * measurements > 2 * Enough
             /\ \A c \in 0..1 : tests[0][c] > Enough
  <2>1. PICK t \in Tests : tests[t][0] > Enough /\ tests[t][1] > Enough
    BY <1>2, <1>5
  <2>2. /\ \A c \in 0..1 : \A u \in Tests : tests[u][c] <= tests[0][c]
        /\ \A u \in Tests, c \in 0..1 : tests[u][c] \in Nat
    BY <1>2 DEF EvidenceInv, SubsetInv
  <2>3. \A c \in 0..1 : tests[t][c] <= tests[0][c]
    BY <2>2
  <2>4. \A c \in 0..1 : tests[0][c] > Enough /\ tests[0][c] \in Nat
    BY <1>2, <2>1, <2>2, <2>3, TestNumbers
  <2> DEFINE r == tests[0][0]  q == batches * measurements
  <2>5. 2 * r <= (batch - 1) * measurements + 0
    BY <1>1, <1>2, <1>3 DEF EvidenceInv, RawInv
  <2>6. (batch - 1) * measurements = q /\ q \in Int
    BY <1>2, <1>3
  <2>7. r > Enough /\ r \in Nat
    BY <2>4
  <2> HIDE DEF r, q
  <2>8. q > 2 * Enough
    BY <1>2, <2>5, <2>6, <2>7
  <2> QED  BY <2>4, <2>8 DEF q
<1>6. SummaryInv'
  BY <1>1, <1>2, <1>4, <1>5 DEF SummaryInv
<1>7. RawInv'
  BY <1>1, <1>2 DEF EvidenceInv, RawInv
<1>8. SubsetInv'
  BY <1>1 DEF EvidenceInv, SubsetInv, NoCount
<1>9. TypeInv'
  BY <1>1 DEF EvidenceInv, TypeInv
<1>10. BatchInv' /\ ClassInv' /\ IndexInv'
  BY <1>1, <1>2 DEF EvidenceInv, BatchInv, ClassInv, IndexInv, InBatch
<1> QED  BY <1>6, <1>7, <1>8, <1>9, <1>10 DEF EvidenceInv

(* Every step keeps the invariant.                                         *)
LEMMA EvidenceStep ==
    ASSUME EvidenceInv, [Next]_vars
    PROVE  EvidenceInv'
<1>1. CASE RejectConfig       BY <1>1, RejectConfigKeeps
<1>2. CASE FillClasses        BY <1>2, FillClassesKeeps
<1>3. CASE Shuffle            BY <1>3, ShuffleKeeps
<1>4. CASE prepare_inputs     BY <1>4, SamplingKeeps
<1>5. CASE do_one_computation BY <1>5, SamplingKeeps
<1>6. CASE prepare_percentiles
  BY <1>6, NextBatchKeeps DEF prepare_percentiles
<1>7. CASE update_statistics  BY <1>7, UpdateKeeps
<1>8. CASE StatisticsDone
  BY <1>8, NextBatchKeeps DEF StatisticsDone, EvidenceInv, TypeInv
<1>9. CASE summarize          BY <1>9, SummarizeKeeps
<1>10. CASE UNCHANGED vars
  <2>1. \A c : Seen(c)' = Seen(c) /\ ClassOf(c)' = ClassOf(c)
    BY <1>10 DEF vars, Seen, ClassOf, measurements
  <2> QED  BY <1>10, <2>1 DEF vars, EvidenceInv, TypeInv, BatchInv, ClassInv, IndexInv,
              RawInv, SubsetInv, SummaryInv, NoCount, ValidConfig, measurements, batches
<1>11. CASE Terminated
  BY <1>10, <1>11 DEF Terminated
<1> QED  BY <1>1, <1>2, <1>3, <1>4, <1>5, <1>6, <1>7, <1>8, <1>9, <1>10, <1>11 DEF Next

(* The counts of the t-tests never run ahead of the balanced batches that  *)
(* fed them.                                                               *)
THEOREM EvidenceInvariance == Spec => []EvidenceInv
  BY EvidenceInit, EvidenceStep, PTL DEF Spec

(* No verdict without evidence: in every campaign, whatever the durations, *)
(* the percentiles and the shuffles, the tests count no more of a class    *)
(* than balanced batches after the warm-up hold, and leakage is reported   *)
(* only from more than Enough measurements of each class.                  *)
THEOREM EvidenceIsGrounded == Spec => []EvidenceGrounded
<1>1. EvidenceInv => EvidenceGrounded
  <2> SUFFICES ASSUME EvidenceInv PROVE EvidenceGrounded
    OBVIOUS
  <2>2. ASSUME NEW c \in 0..1
        PROVE  2 * tests[0][c] <= batch * measurements
    <3>1. CASE batch = 0
      <4>1. tests[0][c] = 0 /\ measurements \in Nat
        BY <3>1, ConfigFacts DEF EvidenceInv, RawInv, TypeInv
      <4> QED  BY <3>1, <4>1
    <3>2. CASE batch # 0
      BY <3>2, RawBound
    <3> QED  BY <3>1, <3>2
  <2> QED  BY <2>2 DEF EvidenceInv, SubsetInv, SummaryInv, EvidenceGrounded
<1> QED  BY <1>1, EvidenceInvariance, PTL

-----------------------------------------------------------------------------
(* The samples of a batch.                                                 *)

(* The images of a finite set under a map that is one-to-one on it.        *)
LEMMA OneToOne ==
    ASSUME NEW S, IsFiniteSet(S), NEW f, \A i, j \in S : f[i] = f[j] => i = j
    PROVE  /\ IsFiniteSet({f[i] : i \in S})
           /\ Cardinality({f[i] : i \in S}) = Cardinality(S)
<1> DEFINE T == {f[i] : i \in S}
           g == [i \in S |-> f[i]]
<1>1. g \in [S -> T]
  OBVIOUS
<1>2. \A i, j \in S : g[i] = g[j] => i = j
  OBVIOUS
<1>3. \A y \in T : \E x \in S : g[x] = y
  OBVIOUS
<1> HIDE DEF g, T
<1>4. g \in Bijection(S, T)
  BY <1>1, <1>2, <1>3, Fun_IsBij
<1>5. ExistsBijection(S, T)
  BY <1>4 DEF ExistsBijection
<1>6. IsFiniteSet(T) /\ Cardinality(T) = Cardinality(S)
  BY <1>5, FS_Bijection
<1> QED  BY <1>6 DEF T

(* One value on the one class, and different ones on the other.            *)
Separates(f, a, P, Q) == /\ \A i \in P : f[i] = a
                         /\ \A i \in Q : f[i] # a
                         /\ \A i, j \in Q : f[i] = f[j] => i = j

LEMMA OneAndMany ==
    ASSUME NEW P, P # {}, NEW Q, IsFiniteSet(Q), NEW f, NEW a, Separates(f, a, P, Q)
    PROVE  Cardinality({f[i] : i \in P \cup Q}) = Cardinality(Q) + 1
<1> USE DEF Separates
<1> DEFINE T == {f[i] : i \in Q}
<1>1. IsFiniteSet(T) /\ Cardinality(T) = Cardinality(Q)
  BY OneToOne
<1>2. a \notin T
  OBVIOUS
<1>3. {f[i] : i \in P \cup Q} = T \cup {a}
  OBVIOUS
<1> HIDE DEF T
<1>4. Cardinality(T \cup {a}) = Cardinality(T) + 1
  BY <1>1, <1>2, FS_AddElement
<1> QED  BY <1>1, <1>3, <1>4

(* A random field shows the draw it came from.                             *)
LEMMA FillInjective ==
    ASSUME NEW field, NEW d, NEW e, NEW n \in Nat, n > 0
    PROVE  /\ fill_random(field, d, n) = fill_random(field, e, n) => d = e
           /\ fill_random(field, d, n) # Zero(n)
<1> DEFINE x == [random |-> field, draw |-> d, i |-> 1]
           y == [random |-> field, draw |-> e, i |-> 1]
<1>1. /\ fill_random(field, d, n)[1] = {x} /\ fill_random(field, e, n)[1] = {y}
      /\ Zero(n)[1] = {}
  BY DEF fill_random, Zero
<1>2. x = y => d = e
  <2>1. x.draw = d /\ y.draw = e
    OBVIOUS
  <2> QED  BY <2>1
<1> HIDE DEF x, y
<1> QED  BY <1>1, <1>2

(* What Flip changes.                                                      *)
LEMMA FlipFacts ==
    ASSUME NEW S, NEW s \in Seq(S), NEW i \in 1..Len(s)
    PROVE  /\ Flip(s, i) = [j \in 1..Len(s) |-> IF j = i THEN Xor(s[i], One) ELSE s[j]]
           /\ Len(Flip(s, i)) = Len(s)
<1>1. s = [j \in 1..Len(s) |-> s[j]] /\ Len(s) \in Nat
  BY LenProperties
<1>2. Flip(s, i) = [j \in 1..Len(s) |-> IF j = i THEN Xor(s[i], One) ELSE s[j]]
  BY <1>1 DEF Flip
<1>3. Flip(s, i) \in Seq(S \cup {Xor(s[i], One)})
  BY <1>1, <1>2
<1>4. DOMAIN Flip(s, i) = 1..Len(s)
  BY <1>2
<1>5. Len(Flip(s, i)) = Len(s)
  BY <1>1, <1>3, <1>4
<1> QED  BY <1>2, <1>5

(* A flipped bit is seen in every byte.                                    *)
LEMMA XorOne ==
    ASSUME NEW a
    PROVE  Xor(a, One) # a /\ Xor(a, Xor(a, One)) # {}
<1> DEFINE z == [const |-> "1"]
<1>1. One = {z}
  BY DEF One, Const
<1> HIDE DEF z
<1>2. Xor(a, {z}) # a
  BY DEF Xor
<1>3. Xor(a, Xor(a, {z})) = {z}
  BY XorTwice
<1> QED  BY <1>1, <1>2, <1>3

(* The bytes of a field, zero or random.                                   *)
Field(r, field, d, n) == IF r THEN fill_random(field, d, n) ELSE Zero(n)

(* The fields of base_sample.                                              *)
LEMMA BaseFields ==
    ASSUME NEW t, NEW r \in BOOLEAN, NEW d
    PROVE  LET b == base_sample(t, r, d)
               whole == r /\ t \in CompleteBase
           IN  /\ b.keys = [encryption_key |-> Field(r /\ t \in CompleteBase \cup {"C1KeyOnly"},
                                           "encryption_key", d, 1),
                            authentication_key |-> Field(whole, "authentication_key", d, 1)]
               /\ b.nonce = Field(r /\ t \in CompleteBase \cup {"C1StreamFrameOnly"},
                                  "nonce", d, NonceBytes)
               /\ b.associated_data = Field(whole, "associated_data", d, 1)
               /\ b.payload = IF t = "PositiveControl"
                              THEN Flip(Zero(PayloadBytes), IF r THEN PayloadBytes ELSE 1)
                              ELSE Field(whole, "payload", d, PayloadBytes)
  BY DEF base_sample, Field, Randomized

(* The encryption key of base_sample.                                      *)
LEMMA BaseKey ==
    ASSUME NEW t, NEW r \in BOOLEAN, NEW d
    PROVE  base_sample(t, r, d).keys.encryption_key
               = Field(r /\ t \in CompleteBase \cup {"C1KeyOnly"}, "encryption_key", d, 1)
<1> DEFINE x == Field(r /\ t \in CompleteBase \cup {"C1KeyOnly"}, "encryption_key", d, 1)
           y == Field(r /\ t \in CompleteBase, "authentication_key", d, 1)
<1>1. base_sample(t, r, d).keys = [encryption_key |-> x, authentication_key |-> y]
  BY BaseFields
<1> HIDE DEF x, y
<1>2. [encryption_key |-> x, authentication_key |-> y].encryption_key = x
  OBVIOUS
<1> QED  BY <1>1, <1>2, Zenon DEF x

(* The fixed class: neither the draw nor the counter is used.              *)
LEMMA FixedBase ==
    ASSUME NEW t, NEW d, NEW e
    PROVE  base_sample(t, FALSE, d) = base_sample(t, FALSE, e)
  BY DEF base_sample

(* So all samples of the fixed class are equal.                            *)
LEMMA FixedSample ==
    ASSUME NEW t, NEW d, NEW e, NEW k, NEW l
    PROVE  make_sample(t, 0, d, k) = make_sample(t, 0, e, l)
<1>1. (0 = 1) = FALSE
  OBVIOUS
<1>2. base_sample(t, 0 = 1, d) = base_sample(t, 0 = 1, e)
  BY <1>1, FixedBase, Zenon
<1> QED  BY <1>1, <1>2 DEF make_sample

(* What a sample holds.                                                    *)
LEMMA SampleFields ==
    ASSUME NEW t, NEW c, NEW d, NEW k, NEW b, b = base_sample(t, c = 1, d)
    PROVE  LET s == make_sample(t, c, d, k)
               m == prepare_sealed_message(b)
               x == prepare_authentication_context(b)
           IN  /\ s.base = b
               /\ t \in C1Targets =>
                     s.stream_frame = prepare_stream_frame(
                         b, IF c = 1 /\ t # "C1KeyOnly" THEN k ELSE 0)
               /\ t = "M1VerifyMismatchPosition" =>
                     /\ s.context = x
                     /\ s.tag = Flip(compute_tag(b.keys.authentication_key, x, b.payload,
                                                 BlockSize),
                                     IF c = 1 THEN BlockSize ELSE 1)
               /\ t \in OpenTargets =>
                     /\ s.ciphertext = m.ciphertext
                     /\ s.tag = IF t = "OpenFailure" \/ (t = "OpenValidityControl" /\ c # 1)
                                THEN Flip(m.tag, 1) ELSE m.tag
<1>1. t = "M1VerifyMismatchPosition" => t \notin OpenTargets
  BY DEF OpenTargets
<1>2. t \in OpenTargets => t # "M1VerifyMismatchPosition"
  BY DEF OpenTargets
<1> QED  BY <1>1, <1>2, Zenon DEF make_sample

(* The fields of a sample that a target leaves empty.                      *)
LEMMA EmptyFields ==
    ASSUME NEW t, NEW c, NEW d, NEW k
    PROVE  LET s == make_sample(t, c, d, k)
           IN  /\ t \notin C1Targets => s.stream_frame = <<>>
               /\ t \notin {"M1Compute", "M1VerifyMismatchPosition"} => s.context = <<>>
               /\ t \notin OpenTargets => s.ciphertext = <<>>
               /\ t \notin OpenTargets \cup {"M1VerifyMismatchPosition"} => s.tag = <<>>
<1> DEFINE b == base_sample(t, c = 1, d)
           sealed == [ciphertext |-> <<>>, tag |-> <<>>]
<1>1. sealed.ciphertext = <<>> /\ sealed.tag = <<>>
  OBVIOUS
<1>2. t \notin C1Targets => make_sample(t, c, d, k).stream_frame = <<>>
  BY Zenon DEF make_sample
<1>3. t \notin {"M1Compute", "M1VerifyMismatchPosition"} => make_sample(t, c, d, k).context = <<>>
  BY Zenon DEF make_sample
<1>4. t \notin OpenTargets => make_sample(t, c, d, k).ciphertext = <<>>
  BY <1>1, Zenon DEF make_sample
<1>5. t \notin OpenTargets \cup {"M1VerifyMismatchPosition"} => make_sample(t, c, d, k).tag = <<>>
  <2>1. t \notin OpenTargets => t # "OpenFailure" /\ t # "OpenValidityControl"
    BY DEF OpenTargets
  <2> QED  BY <1>1, <2>1, Zenon DEF make_sample
<1> QED  BY <1>2, <1>3, <1>4, <1>5

(* A sample is its five fields, its base the four of base_sample.          *)
IsSample(s) == s = [base |-> s.base, stream_frame |-> s.stream_frame, context |-> s.context,
                    ciphertext |-> s.ciphertext, tag |-> s.tag]
IsBase(b) == b = [keys |-> b.keys, nonce |-> b.nonce,
                  associated_data |-> b.associated_data, payload |-> b.payload]

LEMMA Shapes ==
    ASSUME NEW t, NEW c, NEW d, NEW k
    PROVE  IsSample(make_sample(t, c, d, k)) /\ IsBase(base_sample(t, c, d))
<1>1. IsSample(make_sample(t, c, d, k))
  BY DEF IsSample, make_sample
<1>2. IsBase(base_sample(t, c, d))
  BY DEF IsBase, base_sample
<1> QED  BY <1>1, <1>2

(* Two samples of the random class have different draws.                   *)
LEMMA RandomSamples ==
    ASSUME NEW t \in CompleteBase \cup {"C1KeyOnly", "C1StreamFrameOnly"},
           NEW d, NEW e, NEW k, NEW l, make_sample(t, 1, d, k) = make_sample(t, 1, e, l)
    PROVE  d = e
<1> DEFINE b == base_sample(t, TRUE, d)
           f == base_sample(t, TRUE, e)
<1>1. (1 = 1) = TRUE
  OBVIOUS
<1>2. make_sample(t, 1, d, k).base = b
  BY <1>1, Zenon DEF make_sample
<1>3. make_sample(t, 1, e, l).base = f
  BY <1>1, Zenon DEF make_sample
<1>4. b = f
  BY <1>2, <1>3, Zenon
<1>5. CASE t \in CompleteBase \cup {"C1KeyOnly"}
  <2>1. /\ b.keys.encryption_key = fill_random("encryption_key", d, 1)
        /\ f.keys.encryption_key = fill_random("encryption_key", e, 1)
    BY <1>5, BaseKey DEF Field
  <2>2. fill_random("encryption_key", d, 1) = fill_random("encryption_key", e, 1)
    BY <1>4, <2>1, Zenon
  <2> QED  BY <2>2, FillInjective
<1>6. CASE t = "C1StreamFrameOnly"
  <2>1. b.nonce = fill_random("nonce", d, NonceBytes)
    BY <1>6, BaseFields DEF Field
  <2>2. f.nonce = fill_random("nonce", e, NonceBytes)
    BY <1>6, BaseFields DEF Field
  <2>3. NonceBytes \in Nat /\ NonceBytes > 0
    BY NonceBytesAssumption, CampaignAssumption
  <2> QED  BY <1>4, <2>1, <2>2, <2>3, FillInjective
<1> QED  BY <1>5, <1>6

(* Equal outputs of C1 on one frame come from one key.                     *)
LEMMA C1Injective ==
    ASSUME NEW x, NEW y, NEW f, C1(x, f) = C1(y, f)
    PROVE  x = y
<1>1. 1 \in 1..BlockSize
  BY BlockSizeAssumption
<1>2. C1(x, f)[1] = Atom(x, f, 1) /\ C1(y, f)[1] = Atom(y, f, 1)
  BY <1>1, Zenon DEF C1, Atom
<1> QED  BY <1>2, AtomInjective

(* C1KeyOnly: one stream frame, and different outputs of C1.               *)
LEMMA KeyOnly ==
    ASSUME NEW d, NEW k, NEW e, NEW l, NEW g, NEW h, NEW s1, NEW s2, NEW s0,
           s1 = make_sample("C1KeyOnly", 1, d, k),
           s2 = make_sample("C1KeyOnly", 1, e, l),
           s0 = make_sample("C1KeyOnly", 0, g, h)
    PROVE  LET out(s) == C1(s.base.keys.encryption_key, s.stream_frame)
           IN  /\ s1.stream_frame = s0.stream_frame
               /\ out(s1) # out(s0)
               /\ out(s1) = out(s2) => d = e
<1> DEFINE t == "C1KeyOnly"
           b1 == base_sample(t, TRUE, d)
           b2 == base_sample(t, TRUE, e)
           b0 == base_sample(t, FALSE, g)
           f == frame_stream_block(Zero(NonceBytes), 0, BlockSize)
<1>1. (1 = 1) = TRUE /\ (0 = 1) = FALSE
  OBVIOUS
<1>2. t \in C1Targets /\ t \notin CompleteBase
  BY DEF C1Targets, CompleteBase
<1>3. /\ b1.nonce = Zero(NonceBytes) /\ b2.nonce = Zero(NonceBytes)
      /\ b0.nonce = Zero(NonceBytes)
  BY <1>2, BaseFields DEF Field
<1>4. /\ b1.keys.encryption_key = fill_random("encryption_key", d, 1)
      /\ b2.keys.encryption_key = fill_random("encryption_key", e, 1)
      /\ b0.keys.encryption_key = Zero(1)
  BY <1>2, BaseKey DEF Field
<1>5. s1.base = b1 /\ s2.base = b2 /\ s0.base = b0
  <2>1. s1.base = b1
    BY <1>1, Zenon DEF make_sample
  <2>2. s2.base = b2
    BY <1>1, Zenon DEF make_sample
  <2>3. s0.base = b0
    BY <1>1, Zenon DEF make_sample
  <2> QED  BY <2>1, <2>2, <2>3
<1>6. s1.stream_frame = f /\ s2.stream_frame = f /\ s0.stream_frame = f
  <2>1. s1.stream_frame = f
    BY <1>1, <1>2, <1>3, Zenon DEF make_sample, prepare_stream_frame
  <2>2. s2.stream_frame = f
    BY <1>1, <1>2, <1>3, Zenon DEF make_sample, prepare_stream_frame
  <2>3. s0.stream_frame = f
    BY <1>1, <1>2, <1>3, Zenon DEF make_sample, prepare_stream_frame
  <2> QED  BY <2>1, <2>2, <2>3
<1> DEFINE k1 == s1.base.keys.encryption_key
           k2 == s2.base.keys.encryption_key
           k0 == s0.base.keys.encryption_key
<1>7. /\ k1 = fill_random("encryption_key", d, 1)
      /\ k2 = fill_random("encryption_key", e, 1)
      /\ k0 = Zero(1)
  BY <1>4, <1>5, Zenon
<1>8. k1 # k0 /\ (k1 = k2 => d = e)
  <2> HIDE DEF k1, k2, k0
  <2> QED  BY <1>7, FillInjective
<1> HIDE DEF f, k1, k2, k0
<1>9. /\ C1(k1, f) # C1(k0, f)
      /\ C1(k1, f) = C1(k2, f) => d = e
  BY <1>8, C1Injective
<1> QED  BY <1>6, <1>9 DEF k1, k2, k0

(* Equal stream frames come from one nonce, zero or random.                *)
LEMMA FrameNonce ==
    ASSUME NEW B, HeaderBytes \subseteq B,
           NEW m \in [1..NonceBytes -> B], NEW n \in [1..NonceBytes -> B],
           NEW v \in U64, NEW w \in U64,
           frame_stream_block(m, v, BlockSize) = frame_stream_block(n, w, BlockSize)
    PROVE  m = n
<1>1. NonceBytes \in Nat /\ BlockSize \in Nat
  BY NonceBytesAssumption, BlockSizeAssumption
<1>2. m \in Seq(B) /\ n \in Seq(B) /\ Len(m) = NonceBytes /\ Len(n) = NonceBytes
  BY <1>1
<1> QED  BY <1>1, <1>2, NonceBytesAssumption, StreamFrameInjective

(* C1StreamFrameOnly: one pair of keys, and different stream frames.       *)
LEMMA StreamFrameOnly ==
    ASSUME NEW d, NEW k \in 0..MaxCounter, NEW e, NEW l \in 0..MaxCounter, NEW g, NEW h,
           NEW s1, NEW s2, NEW s0,
           s1 = make_sample("C1StreamFrameOnly", 1, d, k),
           s2 = make_sample("C1StreamFrameOnly", 1, e, l),
           s0 = make_sample("C1StreamFrameOnly", 0, g, h)
    PROVE  /\ s1.base.keys = s0.base.keys
           /\ s1.stream_frame # s0.stream_frame
           /\ s1.stream_frame = s2.stream_frame => d = e
<1> DEFINE t == "C1StreamFrameOnly"
           b1 == base_sample(t, TRUE, d)
           b2 == base_sample(t, TRUE, e)
           b0 == base_sample(t, FALSE, g)
           n1 == fill_random("nonce", d, NonceBytes)
           n2 == fill_random("nonce", e, NonceBytes)
           n0 == Zero(NonceBytes)
           frame(n, v) == frame_stream_block(n, v, BlockSize)
<1>1. (1 = 1) = TRUE /\ (0 = 1) = FALSE
  OBVIOUS
<1>2. t \in C1Targets /\ t \notin CompleteBase /\ t # "C1KeyOnly"
  BY DEF C1Targets, CompleteBase
<1>3. b1.nonce = n1 /\ b2.nonce = n2 /\ b0.nonce = n0
  BY <1>2, BaseFields DEF Field
<1>4. b1.keys = b0.keys
  <2>1. /\ b1.keys = [encryption_key |-> Zero(1), authentication_key |-> Zero(1)]
        /\ b0.keys = [encryption_key |-> Zero(1), authentication_key |-> Zero(1)]
    BY <1>2, BaseFields DEF Field
  <2> QED  BY <2>1, Zenon
<1>5. s1.base = b1 /\ s0.base = b0
  <2>1. s1.base = b1
    BY <1>1, Zenon DEF make_sample
  <2>2. s0.base = b0
    BY <1>1, Zenon DEF make_sample
  <2> QED  BY <2>1, <2>2
<1>6. /\ s1.stream_frame = frame(n1, k) /\ s2.stream_frame = frame(n2, l)
      /\ s0.stream_frame = frame(n0, 0)
  <2>1. s1.stream_frame = frame(n1, k)
    BY <1>1, <1>2, <1>3, Zenon DEF make_sample, prepare_stream_frame
  <2>2. s2.stream_frame = frame(n2, l)
    BY <1>1, <1>2, <1>3, Zenon DEF make_sample, prepare_stream_frame
  <2>3. s0.stream_frame = frame(n0, 0)
    BY <1>1, <1>2, <1>3, Zenon DEF make_sample, prepare_stream_frame
  <2> QED  BY <2>1, <2>2, <2>3
<1>7. k \in U64 /\ l \in U64 /\ 0 \in U64
  <2>1. MaxCounter \in U64 /\ MaxCounter \in Nat
    BY CampaignAssumption DEF U64
  <2>2. /\ k \in Nat /\ k <= MaxCounter /\ l \in Nat /\ l <= MaxCounter
        /\ 0 \in Nat /\ 0 <= MaxCounter
    BY <2>1
  <2> QED  BY <2>1, <2>2, U64Smaller
<1>8. /\ n1 # n0 /\ (n1 = n2 => d = e)
  BY NonceBytesAssumption, CampaignAssumption, FillInjective
<1> DEFINE B == HeaderBytes \cup {n1[i] : i \in 1..NonceBytes}
                  \cup {n2[i] : i \in 1..NonceBytes} \cup {{}}
<1>9. /\ n1 \in [1..NonceBytes -> B] /\ n2 \in [1..NonceBytes -> B]
      /\ n0 \in [1..NonceBytes -> B] /\ HeaderBytes \subseteq B
  <2>1. /\ \A i \in 1..NonceBytes : n1[i] \in B /\ n2[i] \in B
        /\ {} \in B /\ HeaderBytes \subseteq B
    OBVIOUS
  <2> HIDE DEF B
  <2> QED  BY <2>1 DEF fill_random, Zero
<1> HIDE DEF B
<1>10. s1.base.keys = s0.base.keys
  BY <1>4, <1>5, Zenon
<1> HIDE DEF n1, n2, n0
<1>11. frame(n1, k) # frame(n0, 0)
  BY <1>7, <1>8, <1>9, FrameNonce
<1>12. frame(n1, k) = frame(n2, l) => d = e
  BY <1>7, <1>8, <1>9, FrameNonce
<1> HIDE DEF frame
<1> QED  BY <1>6, <1>10, <1>11, <1>12

(* The fields of the bases in which the classes of a target agree.         *)
Agree(t, b, a) ==
    t \notin CompleteBase => /\ t # "C1KeyOnly" => b.keys = a.keys
                             /\ t # "C1StreamFrameOnly" => b.nonce = a.nonce
                             /\ b.associated_data = a.associated_data
                             /\ t # "PositiveControl" => b.payload = a.payload

LEMMA BasesAgree ==
    ASSUME NEW t, NEW d, NEW g
    PROVE  Agree(t, base_sample(t, TRUE, d), base_sample(t, FALSE, g))
<1> DEFINE b == base_sample(t, TRUE, d)
           a == base_sample(t, FALSE, g)
<1>1. /\ a.keys = [encryption_key |-> Zero(1), authentication_key |-> Zero(1)]
      /\ a.nonce = Zero(NonceBytes) /\ a.associated_data = Zero(1)
      /\ t # "PositiveControl" => a.payload = Zero(PayloadBytes)
  BY BaseFields DEF Field
<1>2. ASSUME t \notin CompleteBase
      PROVE  /\ t # "C1KeyOnly" =>
                    b.keys = [encryption_key |-> Zero(1), authentication_key |-> Zero(1)]
             /\ t # "C1StreamFrameOnly" => b.nonce = Zero(NonceBytes)
             /\ b.associated_data = Zero(1)
             /\ t # "PositiveControl" => b.payload = Zero(PayloadBytes)
  BY <1>2, BaseFields DEF Field
<1> HIDE DEF a, b
<1>3. Agree(t, b, a)
  BY <1>1, <1>2, Zenon DEF Agree
<1> QED  BY <1>3, Zenon DEF a, b

(* A sample without its nonce and its stream frame.                        *)
LEMMA WithoutFrame ==
    ASSUME NEW s, IsSample(s), IsBase(s.base)
    PROVE  [s EXCEPT !.base.nonce = <<>>, !.stream_frame = <<>>]
               = [base |-> [keys |-> s.base.keys, nonce |-> <<>>,
                            associated_data |-> s.base.associated_data,
                            payload |-> s.base.payload],
                  stream_frame |-> <<>>, context |-> s.context,
                  ciphertext |-> s.ciphertext, tag |-> s.tag]
<1> DEFINE b == [keys |-> s.base.keys, nonce |-> <<>>,
                 associated_data |-> s.base.associated_data, payload |-> s.base.payload]
           u == [s EXCEPT !.base.nonce = <<>>]
<1>1. u = [base |-> b, stream_frame |-> s.stream_frame, context |-> s.context,
           ciphertext |-> s.ciphertext, tag |-> s.tag]
  BY DEF IsSample, IsBase
<1> HIDE DEF b
<1>2. [u EXCEPT !.stream_frame = <<>>]
          = [base |-> b, stream_frame |-> <<>>, context |-> s.context,
             ciphertext |-> s.ciphertext, tag |-> s.tag]
  <2> HIDE DEF u
  <2> QED  BY <1>1
<1> QED  BY <1>2 DEF b, u

(* Apart from the named input the second class equals the first.           *)
LEMMA SharedSample ==
    ASSUME NEW t \in Targets, NEW d, NEW k, NEW g, NEW h, NEW s, NEW z,
           s = make_sample(t, 1, d, k), z = make_sample(t, 0, g, h)
    PROVE  Shared(t, s) = Shared(t, z)
<1> DEFINE b == base_sample(t, TRUE, d)
           a == base_sample(t, FALSE, g)
<1>1. (1 = 1) = TRUE /\ (0 = 1) = FALSE
  OBVIOUS
<1>2. s.base = b /\ z.base = a
  <2>1. s.base = b
    BY <1>1, Zenon DEF make_sample
  <2>2. z.base = a
    BY <1>1, Zenon DEF make_sample
  <2> QED  BY <2>1, <2>2
<1>3. IsSample(s) /\ IsSample(z) /\ IsBase(b) /\ IsBase(a)
  BY Shapes
<1>4. Agree(t, b, a)
  BY BasesAgree
<1>5. CASE t = "PositiveControl"
  <2>1. /\ t \notin CompleteBase /\ t # "C1KeyOnly" /\ t # "C1StreamFrameOnly"
        /\ t \notin {"M1VerifyMismatchPosition", "OpenValidityControl"}
    BY <1>5 DEF CompleteBase
  <2>2. /\ s.stream_frame = <<>> /\ s.context = <<>> /\ s.ciphertext = <<>> /\ s.tag = <<>>
        /\ z.stream_frame = <<>> /\ z.context = <<>> /\ z.ciphertext = <<>> /\ z.tag = <<>>
    <3>1. /\ t \notin C1Targets /\ t \notin {"M1Compute", "M1VerifyMismatchPosition"}
          /\ t \notin OpenTargets /\ t \notin OpenTargets \cup {"M1VerifyMismatchPosition"}
      BY <1>5 DEF C1Targets, OpenTargets
    <3> QED  BY <3>1, EmptyFields, Zenon
  <2>3. [s EXCEPT !.base.payload = <<>>] = [z EXCEPT !.base.payload = <<>>]
    <3> HIDE DEF a, b
    <3> QED  BY <1>2, <1>3, <1>4, <2>1, <2>2 DEF IsSample, IsBase, Agree
  <2> QED  BY <1>5, <2>1, <2>3, Zenon DEF Shared
<1>6. CASE t = "C1KeyOnly"
  <2>1. t \notin CompleteBase /\ t # "PositiveControl" /\ t # "C1StreamFrameOnly"
    BY <1>6 DEF CompleteBase
  <2>2. /\ s.context = <<>> /\ s.ciphertext = <<>> /\ s.tag = <<>>
        /\ z.context = <<>> /\ z.ciphertext = <<>> /\ z.tag = <<>>
    <3>1. /\ t \notin {"M1Compute", "M1VerifyMismatchPosition"}
          /\ t \notin OpenTargets /\ t \notin OpenTargets \cup {"M1VerifyMismatchPosition"}
      BY <1>6 DEF OpenTargets
    <3> QED  BY <3>1, EmptyFields, Zenon
  <2>3. s.stream_frame = z.stream_frame
    BY <1>6, KeyOnly
  <2>4. /\ b.keys = [encryption_key |-> fill_random("encryption_key", d, 1),
                     authentication_key |-> Zero(1)]
        /\ a.keys = [encryption_key |-> Zero(1), authentication_key |-> Zero(1)]
    BY <1>6, <2>1, BaseFields DEF Field
  <2>5. [s EXCEPT !.base.keys.encryption_key = <<>>]
            = [z EXCEPT !.base.keys.encryption_key = <<>>]
    <3> HIDE DEF a, b
    <3> QED  BY <1>2, <1>3, <1>4, <2>1, <2>2, <2>3, <2>4 DEF IsSample, IsBase, Agree
  <2> QED  BY <1>6, <2>1, <2>5, Zenon DEF Shared
<1>7. CASE t = "C1StreamFrameOnly"
  <2>1. t \notin CompleteBase /\ t # "PositiveControl" /\ t # "C1KeyOnly"
    BY <1>7 DEF CompleteBase
  <2>2. /\ s.context = <<>> /\ s.ciphertext = <<>> /\ s.tag = <<>>
        /\ z.context = <<>> /\ z.ciphertext = <<>> /\ z.tag = <<>>
    <3>1. /\ t \notin {"M1Compute", "M1VerifyMismatchPosition"}
          /\ t \notin OpenTargets /\ t \notin OpenTargets \cup {"M1VerifyMismatchPosition"}
      BY <1>7 DEF OpenTargets
    <3> QED  BY <3>1, EmptyFields, Zenon
  <2>3. [s EXCEPT !.base.nonce = <<>>, !.stream_frame = <<>>]
            = [z EXCEPT !.base.nonce = <<>>, !.stream_frame = <<>>]
    <3> HIDE DEF a, b
    <3>1. /\ s.base.keys = z.base.keys /\ s.base.payload = z.base.payload
          /\ s.base.associated_data = z.base.associated_data
          /\ IsBase(s.base) /\ IsBase(z.base)
      BY <1>2, <1>3, <1>4, <2>1, Zenon DEF Agree
    <3> DEFINE rest(v) == [base |-> [keys |-> v.base.keys, nonce |-> <<>>,
                                     associated_data |-> v.base.associated_data,
                                     payload |-> v.base.payload],
                           stream_frame |-> <<>>, context |-> v.context,
                           ciphertext |-> v.ciphertext, tag |-> v.tag]
    <3>2. [s EXCEPT !.base.nonce = <<>>, !.stream_frame = <<>>] = rest(s)
      <4>1. IsSample(s) /\ IsBase(s.base)
        BY <1>3, <3>1
      <4> QED  BY <4>1, WithoutFrame, Zenon
    <3>3. [z EXCEPT !.base.nonce = <<>>, !.stream_frame = <<>>] = rest(z)
      <4>1. IsSample(z) /\ IsBase(z.base)
        BY <1>3, <3>1
      <4> QED  BY <4>1, WithoutFrame, Zenon
    <3>4. rest(s) = rest(z)
      BY <2>2, <3>1, Zenon
    <3> HIDE DEF rest
    <3> QED  BY <3>2, <3>3, <3>4
  <2> QED  BY <1>7, <2>1, <2>3, Zenon DEF Shared
<1>8. CASE t \in {"M1VerifyMismatchPosition", "OpenValidityControl"}
  <2>1. /\ t \notin CompleteBase /\ t # "PositiveControl" /\ t # "C1KeyOnly"
        /\ t # "C1StreamFrameOnly" /\ t \notin C1Targets
    BY <1>8 DEF CompleteBase, C1Targets
  <2>2. b = a
    <3> HIDE DEF a, b
    <3> QED  BY <1>3, <1>4, <2>1, Zenon DEF IsBase, Agree
  <2>3. /\ s.stream_frame = z.stream_frame /\ s.context = z.context
        /\ s.ciphertext = z.ciphertext
    <3>1. s.stream_frame = <<>> /\ z.stream_frame = <<>>
      BY <2>1, EmptyFields, Zenon
    <3>2. base_sample(t, 1 = 1, d) = base_sample(t, 0 = 1, g)
      BY <1>1, <2>2, Zenon
    <3>3. s.context = z.context
      BY <3>2, Zenon DEF make_sample
    <3>4. s.ciphertext = z.ciphertext
      BY <3>2, Zenon DEF make_sample
    <3> QED  BY <3>1, <3>3, <3>4
  <2>4. [s EXCEPT !.tag = <<>>] = [z EXCEPT !.tag = <<>>]
    <3> HIDE DEF a, b
    <3> QED  BY <1>2, <1>3, <2>2, <2>3 DEF IsSample
  <2> QED  BY <1>8, <2>1, <2>4, Zenon DEF Shared
<1>9. CASE t \in CompleteBase
  <2>1. /\ t # "PositiveControl" /\ t # "C1KeyOnly" /\ t # "C1StreamFrameOnly"
        /\ t \notin {"M1VerifyMismatchPosition", "OpenValidityControl"}
    BY <1>9 DEF CompleteBase
  <2> QED  BY <1>9, <2>1, Zenon DEF Shared
<1> QED  BY <1>5, <1>6, <1>7, <1>8, <1>9 DEF Targets, C1Targets, OpenTargets, CompleteBase

(* M1VerifyMismatchPosition: the tag is wrong in the byte of its class and *)
(* is rejected.                                                            *)
LEMMA Mismatch ==
    ASSUME NEW c \in 0..1, NEW d, NEW k, NEW s,
           s = make_sample("M1VerifyMismatchPosition", c, d, k)
    PROVE  LET right == compute_tag(s.base.keys.authentication_key, s.context,
                                    s.base.payload, BlockSize)
           IN  /\ {i \in 1..BlockSize : s.tag[i] # right[i]}
                      = {IF c = 0 THEN 1 ELSE BlockSize}
               /\ evaluate_sample("M1VerifyMismatchPosition", s) = {}
<1> DEFINE t == "M1VerifyMismatchPosition"
           b == base_sample(t, c = 1, d)
           key == b.keys.authentication_key
           x == prepare_authentication_context(b)
           f == frame_message(x, b.payload, BlockSize)
           right == compute_tag(key, x, b.payload, BlockSize)
           p == IF c = 0 THEN 1 ELSE BlockSize
<1>1. s.base = b /\ s.context = x /\ s.tag = Flip(right, IF c = 1 THEN BlockSize ELSE 1)
  BY SampleFields
<1>2. (IF c = 1 THEN BlockSize ELSE 1) = p /\ p \in 1..BlockSize
  BY BlockSizeAssumption
<1>3. s.tag = Flip(right, p)
  BY <1>1, <1>2, Zenon
<1>4. /\ right \in Seq({Atom(key, f, i) : i \in Nat}) /\ Len(right) = BlockSize
      /\ \A i \in 1..BlockSize : right[i] = Atom(key, f, i)
  <2>1. right = Prefix(C1(key, f), BlockSize) /\ BlockSize \in TagSizes
    BY CampaignAssumption DEF compute_tag
  <2> HIDE DEF right, key, f
  <2> QED  BY <2>1, TagFacts
<1> DEFINE S == {Atom(key, f, i) : i \in Nat}
           tag == Flip(right, p)
<1> HIDE DEF right, key, f, p, x, b
<1>5. /\ tag = [j \in 1..BlockSize |-> IF j = p THEN Xor(right[p], One) ELSE right[j]]
      /\ Len(tag) = BlockSize
  <2> HIDE DEF S
  <2>1. right \in Seq(S) /\ p \in 1..Len(right)
    BY <1>2, <1>4 DEF S
  <2> QED  BY <1>4, <2>1, FlipFacts
<1> HIDE DEF tag
<1>6. /\ tag[p] = Xor(right[p], One) /\ tag[p] # right[p]
      /\ \A i \in 1..BlockSize : i # p => tag[i] = right[i]
  BY <1>2, <1>5, XorOne
<1>7. {i \in 1..BlockSize : tag[i] # right[i]} = {p}
  BY <1>2, <1>6
<1>8. ~verify_tag(key, x, b.payload, tag)
  <2>1. C1(key, f)[p] = right[p]
    BY <1>2, <1>4, Zenon DEF C1, Atom
  <2>2. Xor(C1(key, f)[p], tag[p]) # {}
    BY <1>6, <2>1, XorOne
  <2>3. SUFFICES ASSUME verify_tag(key, x, b.payload, tag) PROVE FALSE
    OBVIOUS
  <2>4. \A i \in 1..Len(tag) : Xor(C1(key, frame_message(x, b.payload, Len(tag)))[i], tag[i]) = {}
    BY <2>3, Zenon DEF verify_tag
  <2>5. \A i \in 1..BlockSize : Xor(C1(key, f)[i], tag[i]) = {}
    BY <1>5, <2>4, Zenon DEF f
  <2> QED  BY <1>2, <2>2, <2>5
<1>9. s.tag = tag /\ s.base.keys.authentication_key = key /\ s.base.payload = b.payload
  BY <1>1, <1>3, Zenon DEF tag, key
<1>10. evaluate_sample(t, s) = {}
  <2>1. ~verify_tag(s.base.keys.authentication_key, s.context, s.base.payload, s.tag)
    BY <1>1, <1>8, <1>9, Zenon
  <2>2. t # "PositiveControl" /\ t \notin C1Targets /\ t # "M1Compute" /\ t # "Seal"
           /\ t \notin OpenTargets
    BY DEF C1Targets, OpenTargets
  <2> QED  BY <2>1, <2>2 DEF evaluate_sample
<1>11. compute_tag(s.base.keys.authentication_key, s.context, s.base.payload, BlockSize) = right
  BY <1>1, <1>9, Zenon DEF right
<1> QED  BY <1>7, <1>9, <1>10, <1>11, Zenon DEF p, t

(* The payload is a byte string.                                           *)
LEMMA PayloadType ==
    ASSUME NEW t, t # "PositiveControl", NEW c, NEW d, NEW p,
           p = base_sample(t, c = 1, d).payload
    PROVE  \E S : p \in Seq(S)
<1> DEFINE B == {p[i] : i \in 1..PayloadBytes}
<1>1. PayloadBytes \in Nat
  BY CampaignAssumption
<1>2. p = Field(c = 1 /\ t \in CompleteBase, "payload", d, PayloadBytes)
  BY DEF base_sample, Field, Randomized
<1>3. p = [i \in 1..PayloadBytes |-> p[i]]
  BY <1>2 DEF Field, fill_random, Zero
<1>4. \A i \in 1..PayloadBytes : p[i] \in B
  OBVIOUS
<1> HIDE DEF B
<1>5. p \in [1..PayloadBytes -> B]
  BY <1>3, <1>4, Zenon
<1>6. p \in Seq(B)
  BY <1>1, <1>5
<1> QED  BY <1>6

(* The targets that open: a sample opens, to its payload, exactly when its *)
(* tag is the sealed one.                                                  *)
LEMMA OpenTarget ==
    ASSUME NEW t \in OpenTargets, NEW c \in 0..1, NEW d, NEW k, NEW s,
           s = make_sample(t, c, d, k)
    PROVE  /\ open_sample(s).opened <=> \/ t = "OpenSuccess"
                                        \/ t = "OpenValidityControl" /\ c = 1
           /\ open_sample(s).opened => open_sample(s).plaintext = s.base.payload
<1> DEFINE b == base_sample(t, c = 1, d)
           m == prepare_sealed_message(b)
           good == t = "OpenSuccess" \/ (t = "OpenValidityControl" /\ c = 1)
<1>1. /\ s.base = b /\ s.ciphertext = m.ciphertext
      /\ s.tag = IF t = "OpenFailure" \/ (t = "OpenValidityControl" /\ c # 1)
                 THEN Flip(m.tag, 1) ELSE m.tag
  BY SampleFields
<1>2. s.tag = IF good THEN m.tag ELSE Flip(m.tag, 1)
  BY <1>1 DEF OpenTargets
<1>3. open_sample(s) = open(b.keys, b.nonce, b.associated_data, m.ciphertext, s.tag)
  BY <1>1, Zenon DEF open_sample
<1>4. BlockSize \in TagSizes /\ BlockSize \in Nat /\ BlockSize > 0
  BY CampaignAssumption, BlockSizeAssumption
<1>5. CASE good
  <2> DEFINE p == b.payload
  <2>1. PICK S : p \in Seq(S)
    <3>1. t # "PositiveControl"
      BY DEF OpenTargets
    <3>2. p = base_sample(t, c = 1, d).payload
      OBVIOUS
    <3> HIDE DEF p, b
    <3> QED  BY <3>1, <3>2, PayloadType
  <2>2. m = seal(b.keys, b.nonce, b.associated_data, p, BlockSize)
    BY Zenon DEF prepare_sealed_message
  <2> HIDE DEF p, b, m
  <2>3. open(b.keys, b.nonce, b.associated_data, m.ciphertext, m.tag)
          = [opened |-> TRUE, plaintext |-> p]
    BY <1>4, <2>1, <2>2, OpenInvertsSeal
  <2>4. s.tag = m.tag
    BY <1>2, <1>5
  <2>5. open_sample(s) = [opened |-> TRUE, plaintext |-> p]
    BY <1>3, <2>3, <2>4, Zenon
  <2>6. open_sample(s).opened /\ open_sample(s).plaintext = p
    BY <2>5
  <2> QED  BY <1>1, <1>5, <2>6 DEF p, good
<1>6. CASE ~good
  <2> DEFINE key == b.keys.authentication_key
             f == OpenFrame(b.nonce, b.associated_data, m.ciphertext, BlockSize)
             S == {Atom(key, f, i) : i \in Nat}
  <2>1. m.tag = Prefix(C1(key, f), BlockSize)
    BY DEF prepare_sealed_message, seal, compute_tag, OpenFrame
  <2> HIDE DEF b, m, key, f
  <2>2. m.tag \in Seq(S) /\ Len(m.tag) = BlockSize /\ m.tag[1] = Atom(key, f, 1)
    <3> DEFINE g == m.tag
    <3>1. g = Prefix(C1(key, f), BlockSize)
      BY <2>1
    <3> HIDE DEF g, S, good
    <3>2. BlockSize \in TagSizes
      BY <1>4
    <3>3. /\ g \in Seq({Atom(key, f, i) : i \in Nat}) /\ Len(g) = BlockSize
          /\ \A i \in 1..BlockSize : g[i] = Atom(key, f, i)
      BY <3>1, <3>2, TagFacts, SMTT(30)
    <3> QED  BY <1>4, <3>3 DEF g, S
  <2> HIDE DEF S
  <2>3. s.tag = Flip(m.tag, 1)
    BY <1>2, <1>6
  <2>4. 1 \in 1..Len(m.tag)
    BY <1>4, <2>2
  <2>5. s.tag[1] = Xor(m.tag[1], One) /\ Len(s.tag) = BlockSize
    BY <2>2, <2>3, <2>4, FlipFacts
  <2>6. s.tag[1] # Atom(key, f, 1)
    BY <2>2, <2>5, XorOne
  <2>7. ASSUME open(b.keys, b.nonce, b.associated_data, m.ciphertext, s.tag).opened
        PROVE  FALSE
    <3>1. \A i \in 1..Len(s.tag) :
              s.tag[i] = Atom(b.keys.authentication_key,
                  OpenFrame(b.nonce, b.associated_data, m.ciphertext, Len(s.tag)), i)
      BY <2>7, AcceptedTag
    <3>2. s.tag[1] = Atom(key, f, 1)
      BY <1>4, <2>5, <3>1 DEF key, f
    <3> QED  BY <2>6, <3>2
  <2>8. ~open_sample(s).opened
    BY <1>3, <2>7
  <2> QED  BY <1>6, <2>8
<1> QED  BY <1>5, <1>6

(* A tag of full length.                                                   *)
LEMMA FullTag ==
    ASSUME NEW k, NEW f, NEW tag, tag = Prefix(C1(k, f), BlockSize)
    PROVE  \E S : tag \in Seq(S) /\ Len(tag) = BlockSize
<1> DEFINE A == {Atom(k, f, i) : i \in Nat}
<1>1. BlockSize \in TagSizes
  BY CampaignAssumption
<1>2. tag \in Seq(A) /\ Len(tag) = BlockSize /\ \A i \in 1..BlockSize : tag[i] = Atom(k, f, i)
  BY <1>1, TagFacts, SMTT(30)
<1> HIDE DEF A
<1> QED  BY <1>2

(* OpenValidityControl: the tags of the classes differ in their first byte.*)
LEMMA ValidityTags ==
    ASSUME NEW d, NEW k, NEW g, NEW h, NEW s, NEW z,
           s = make_sample("OpenValidityControl", 1, d, k),
           z = make_sample("OpenValidityControl", 0, g, h)
    PROVE  {i \in 1..BlockSize : z.tag[i] # s.tag[i]} = {1}
<1> DEFINE t == "OpenValidityControl"
           b == base_sample(t, TRUE, d)
           a == base_sample(t, FALSE, g)
           m == prepare_sealed_message(b)
           n == prepare_sealed_message(a)
<1>1. (1 = 1) = TRUE /\ (0 = 1) = FALSE /\ t \in OpenTargets /\ t \in Targets
  BY DEF OpenTargets, Targets
<1>2. /\ \A v : v = base_sample(t, 1 = 1, d) => s.base = v /\ s.tag = prepare_sealed_message(v).tag
      /\ \A v : v = base_sample(t, 0 = 1, g) =>
             z.base = v /\ z.tag = Flip(prepare_sealed_message(v).tag, 1)
  BY <1>1, SampleFields
<1>3. s.base = b /\ s.tag = m.tag /\ z.base = a /\ z.tag = Flip(n.tag, 1)
  BY <1>1, <1>2, Zenon
<1>4. a = b
  <2>1. /\ b.keys = a.keys /\ b.nonce = a.nonce /\ b.associated_data = a.associated_data
        /\ b.payload = a.payload
    <3>1. /\ t \notin CompleteBase /\ t # "C1KeyOnly" /\ t # "C1StreamFrameOnly"
          /\ t # "PositiveControl"
      BY DEF CompleteBase
    <3>2. Agree(t, b, a)
      BY BasesAgree
    <3> HIDE DEF a, b
    <3> QED  BY <3>1, <3>2, Zenon DEF Agree
  <2>2. IsBase(b) /\ IsBase(a)
    BY Shapes
  <2> HIDE DEF a, b
  <2> QED  BY <2>1, <2>2, Zenon DEF IsBase
<1>5. BlockSize \in TagSizes /\ BlockSize \in Nat /\ BlockSize > 0
  BY CampaignAssumption, BlockSizeAssumption
<1> DEFINE key == b.keys.authentication_key
           f == OpenFrame(b.nonce, b.associated_data, m.ciphertext, BlockSize)
           x == m.tag
<1>6. x = Prefix(C1(key, f), BlockSize)
  BY DEF prepare_sealed_message, seal, compute_tag, OpenFrame
<1>7. s.tag = x /\ z.tag = Flip(x, 1)
  BY <1>3, <1>4, Zenon
<1> HIDE DEF a, b, m, n, key, f, x
<1>8. PICK S : x \in Seq(S) /\ Len(x) = BlockSize
  BY <1>6, FullTag
<1>9. Flip(x, 1) = [j \in 1..BlockSize |-> IF j = 1 THEN Xor(x[1], One) ELSE x[j]]
  BY <1>5, <1>8, FlipFacts
<1> DEFINE y == Flip(x, 1)
<1> HIDE DEF y
<1>10. y[1] # x[1] /\ \A i \in 1..BlockSize : i # 1 => y[i] = x[i]
  BY <1>5, <1>9, XorOne DEF y
<1>11. {i \in 1..BlockSize : y[i] # x[i]} = {1}
  BY <1>5, <1>10
<1> QED  BY <1>7, <1>11, Zenon DEF y

(* PositiveControl: one byte, and with it the result, shows the class.     *)
LEMMA Control ==
    ASSUME NEW c \in 0..1, NEW d, NEW k, NEW s, s = make_sample("PositiveControl", c, d, k)
    PROVE  /\ evaluate_sample("PositiveControl", s) = {} <=> c = 0
           /\ {i \in 1..PayloadBytes : s.base.payload[i] # {}}
                  = {IF c = 0 THEN 1 ELSE PayloadBytes}
<1> DEFINE t == "PositiveControl"
           b == base_sample(t, c = 1, d)
           p == IF c = 1 THEN PayloadBytes ELSE 1
           z == Zero(PayloadBytes)
<1>1. s.base = b
  BY SampleFields
<1>2. b.payload = Flip(z, p)
  BY Zenon DEF base_sample
<1>3. PayloadBytes \in Nat /\ PayloadBytes > 1 /\ p \in 1..PayloadBytes
  BY CampaignAssumption
<1>4. z \in Seq({{}}) /\ Len(z) = PayloadBytes /\ \A i \in 1..PayloadBytes : z[i] = {}
  BY <1>3 DEF Zero
<1> HIDE DEF z, p
<1>5. /\ Flip(z, p) = [j \in 1..PayloadBytes |-> IF j = p THEN Xor(z[p], One) ELSE z[j]]
      /\ Len(Flip(z, p)) = PayloadBytes
  BY <1>3, <1>4, FlipFacts
<1> DEFINE y == Flip(z, p)
           N == {i \in 1..Len(y) : y[i] # {}}
<1>6. \A i \in 1..PayloadBytes : y[i] # {} <=> i = p
  <2>1. Xor(z[p], One) # z[p] /\ z[p] = {}
    BY <1>3, <1>4, XorOne
  <2> QED  BY <1>3, <1>4, <1>5, <2>1
<1> HIDE DEF y
<1>7. N = {p}
  BY <1>3, <1>5, <1>6 DEF y
<1>8. Min(N) = p
  BY <1>3, <1>7 DEF Min
<1>9. positive_control(y) = IF p = 1 THEN {} ELSE Octet(p - 1)
  <2> HIDE DEF N
  <2> QED  BY <1>7, <1>8 DEF positive_control, N
<1>10. \A n : Octet(n) # {}
  BY DEF Octet
<1>11. positive_control(y) = {} <=> c = 0
  <2>1. p = 1 <=> c = 0
    BY <1>3 DEF p
  <2> QED  BY <1>9, <1>10, <2>1
<1>12. s.base.payload = y
  BY <1>1, <1>2, Zenon DEF y
<1>13. evaluate_sample(t, s) = positive_control(s.base.payload)
  BY DEF evaluate_sample, C1Targets, OpenTargets
<1>14. p = IF c = 0 THEN 1 ELSE PayloadBytes
  BY DEF p
<1>15. {i \in 1..PayloadBytes : y[i] # {}} = {IF c = 0 THEN 1 ELSE PayloadBytes}
  BY <1>3, <1>6, <1>14
<1> QED  BY <1>11, <1>12, <1>13, <1>15, Zenon

-----------------------------------------------------------------------------
(* The inductive invariant of the samples: each was made for the class of  *)
(* its position, from a draw of its own, and each result is that of its    *)
(* sample.                                                                 *)
Draws   == Nat \X Nat
Samples == {make_sample(target, x[1], x[2], x[3]) : x \in (0..1) \X Draws \X (0..MaxCounter)}
Results == {evaluate_sample(target, s) : s \in Samples}

Made(n) == /\ samples \in Seq(Samples) /\ Len(samples) = n
           /\ \A i \in 1..n : \E counter \in 0..MaxCounter :
                  samples[i] = make_sample(target, classes[i], <<batch, i>>, counter)

Measured(n) == /\ results \in Seq(Results) /\ Len(results) = n
               /\ \A i \in 1..n : results[i] = evaluate_sample(target, samples[i])

SampleInv ==
    /\ pc \in {"prepare", "measure"} => index \in 1..measurements
    /\ pc = "shuffle"    => Made(0) /\ Measured(0)
    /\ pc = "prepare"    => Made(index - 1) /\ Measured(0)
    /\ pc = "measure"    => Made(measurements) /\ Measured(index - 1)
    /\ pc = "statistics" => Made(measurements) /\ Measured(measurements)

(* A sequence with one more element.                                       *)
LEMMA Extended ==
    ASSUME NEW S, NEW q \in Seq(S), NEW e \in S, NEW n \in Nat, Len(q) = n
    PROVE  /\ Append(q, e) \in Seq(S) /\ Len(Append(q, e)) = n + 1
           /\ \A i \in 1..n : Append(q, e)[i] = q[i]
           /\ Append(q, e)[n + 1] = e
           /\ \A i \in 1..(n + 1) : i \in 1..n \/ i = n + 1
  OBVIOUS

(* A new batch has no samples.                                             *)
LEMMA SampleStarts ==
    ASSUME EvidenceInv, FillClasses
    PROVE  SampleInv'
<1>1. pc' = "shuffle" /\ samples' = <<>> /\ results' = <<>>
  BY DEF FillClasses
<1>2. Made(0)' /\ Measured(0)'
  <2> DEFINE S == Samples'  R == Results'
  <2>1. Made(0)' <=> /\ samples' \in Seq(S) /\ Len(samples') = 0
                     /\ \A i \in 1..0 : \E counter \in 0..MaxCounter :
                          samples'[i] = make_sample(target', classes'[i], <<batch', i>>, counter)
    BY DEF Made
  <2>2. Measured(0)' <=> /\ results' \in Seq(R) /\ Len(results') = 0
                         /\ \A i \in 1..0 : results'[i] = evaluate_sample(target', samples'[i])
    BY DEF Measured
  <2> HIDE DEF S, R
  <2> QED  BY <1>1, <2>1, <2>2
<1> QED  BY <1>1, <1>2 DEF SampleInv

(* Samples stay made while nothing they depend on changes.                 *)
LEMMA MadeKept ==
    ASSUME NEW n, Made(n), UNCHANGED <<config, batch, classes, samples>>
    PROVE  Made(n)'
  BY DEF Made, Samples, target

(* And so do results.                                                      *)
LEMMA MeasuredKept ==
    ASSUME NEW n, Measured(n), UNCHANGED <<config, samples, results>>
    PROVE  Measured(n)'
  BY DEF Measured, Results, Samples, target

(* prepare_inputs makes the next sample.                                   *)
LEMMA PrepareSamples ==
    ASSUME EvidenceInv, SampleInv, prepare_inputs
    PROVE  SampleInv'
<1> DEFINE m == measurements
<1>1. /\ pc = "prepare"
      /\ config' = config /\ batch' = batch /\ classes' = classes /\ results' = results
      /\ \/ index < m /\ index' = index + 1 /\ pc' = pc
         \/ ~(index < m) /\ index' = 1 /\ pc' = "measure"
  BY DEF prepare_inputs
<1>2. PICK counter \in 0..MaxCounter :
          samples' = Append(samples, make_sample(target, classes[index],
                                                 <<batch, index>>, counter))
  BY DEF prepare_inputs
<1>3. /\ index \in 1..m /\ m \in Nat /\ batch \in Nat /\ index \in Nat
      /\ classes[index] \in 0..1
  BY <1>1, ConfigFacts DEF EvidenceInv, TypeInv, SampleInv, ClassInv, InBatch
<1>4. measurements' = m /\ target' = target
  BY <1>1, ConfigUnchanged
<1>5. Made(index - 1) /\ Measured(0)
  BY <1>1 DEF SampleInv
<1> DEFINE e == make_sample(target, classes[index], <<batch, index>>, counter)
           n == index - 1
           S == Samples
<1>6. e \in S
  <2> DEFINE x == <<classes[index], <<batch, index>>, counter>>
  <2>1. x \in (0..1) \X Draws \X (0..MaxCounter)
    BY <1>3 DEF Draws
  <2>2. e = make_sample(target, x[1], x[2], x[3])
    OBVIOUS
  <2> QED  BY <2>1, <2>2 DEF Samples
<1>7. PICK q : q = index
  OBVIOUS
<1>8. Made(q)'
  <2>1. /\ samples \in Seq(S) /\ Len(samples) = n
        /\ \A i \in 1..n : \E k \in 0..MaxCounter :
              samples[i] = make_sample(target, classes[i], <<batch, i>>, k)
    BY <1>5 DEF Made
  <2>2. samples' = Append(samples, e) /\ n \in Nat /\ n + 1 = index
    BY <1>2, <1>3
  <2>3. \E k \in 0..MaxCounter : e = make_sample(target, classes[index], <<batch, index>>, k)
    OBVIOUS
  <2>4. Samples' = S
    BY <1>4 DEF Samples
  <2> HIDE DEF e, n, S
  <2>5. /\ samples' \in Seq(S) /\ Len(samples') = index
        /\ \A i \in 1..n : samples'[i] = samples[i]
        /\ samples'[index] = e
        /\ \A i \in 1..index : i \in 1..n \/ i = index
    BY <1>6, <2>1, <2>2, Extended
  <2>6. \A i \in 1..index : \E k \in 0..MaxCounter :
            samples'[i] = make_sample(target, classes[i], <<batch, i>>, k)
    BY <2>1, <2>3, <2>5, Zenon
  <2> QED  BY <1>1, <1>4, <1>7, <2>4, <2>5, <2>6 DEF Made
<1>9. Measured(0)'
  <2>1. results \in Seq(Results) /\ Len(results) = 0
    BY <1>5 DEF Measured
  <2>2. Results' = Results
    BY <1>4 DEF Results, Samples
  <2>3. \A i \in 1..0 : FALSE
    OBVIOUS
  <2> QED  BY <1>1, <2>1, <2>2, <2>3, Zenon DEF Measured
<1>10. CASE pc' = "prepare"
  <2>1. index' = index + 1 /\ index < m
    BY <1>1, <1>10
  <2>2. index' - 1 = q /\ index' \in 1..measurements'
    BY <1>3, <1>4, <1>7, <2>1
  <2>3. Made(index - 1)'
    BY <1>8, <2>2, Zenon DEF Made
  <2> QED  BY <1>9, <1>10, <2>2, <2>3 DEF SampleInv
<1>11. CASE pc' = "measure"
  <2>1. index' = 1 /\ index = m
    BY <1>1, <1>3, <1>11
  <2>2. q = measurements' /\ index' - 1 = 0 /\ index' \in 1..measurements'
    BY <1>3, <1>4, <1>7, <2>1
  <2>3. Made(measurements)' /\ Measured(index - 1)'
    BY <1>8, <1>9, <2>2, Zenon DEF Made, Measured
  <2> QED  BY <1>11, <2>2, <2>3 DEF SampleInv
<1> QED  BY <1>1, <1>10, <1>11

(* do_one_computation measures the next sample.                            *)
LEMMA MeasureSamples ==
    ASSUME EvidenceInv, SampleInv, do_one_computation
    PROVE  SampleInv'
<1> DEFINE m == measurements
           e == evaluate_sample(target, samples[index])
           n == index - 1
           R == Results
<1>1. /\ pc = "measure" /\ results' = Append(results, e)
      /\ config' = config /\ batch' = batch /\ classes' = classes /\ samples' = samples
      /\ \/ index < m /\ index' = index + 1 /\ pc' = pc
         \/ ~(index < m) /\ pc' = "statistics"
  BY DEF do_one_computation
<1>2. /\ index \in 1..m /\ m \in Nat /\ index \in Nat /\ n \in Nat /\ n + 1 = index
  BY <1>1, ConfigFacts DEF EvidenceInv, TypeInv, SampleInv
<1>3. measurements' = m /\ target' = target
  BY <1>1, ConfigUnchanged
<1>4. Made(m) /\ Measured(n)
  BY <1>1 DEF SampleInv
<1>5. Made(measurements)'
  <2>1. PICK p : p = m
    OBVIOUS
  <2>2. Made(p)'
    BY <1>1, <1>4, <2>1, MadeKept
  <2> QED  BY <1>3, <2>1, <2>2, Zenon DEF Made
<1>6. PICK q : q = index
  OBVIOUS
<1>7. Measured(q)'
  <2>1. /\ results \in Seq(R) /\ Len(results) = n
        /\ \A i \in 1..n : results[i] = evaluate_sample(target, samples[i])
    BY <1>4 DEF Measured
  <2>2. e \in R
    <3>1. samples[index] \in Samples
      BY <1>2, <1>4 DEF Made
    <3> QED  BY <3>1 DEF Results
  <2>3. Results' = R
    BY <1>3 DEF Results, Samples
  <2>4. e = evaluate_sample(target, samples[index])
    OBVIOUS
  <2> HIDE DEF e, n, R
  <2>5. /\ results' \in Seq(R) /\ Len(results') = index
        /\ \A i \in 1..n : results'[i] = results[i]
        /\ results'[index] = e
        /\ \A i \in 1..index : i \in 1..n \/ i = index
    BY <1>1, <1>2, <2>1, <2>2, Extended
  <2>6. \A i \in 1..index : results'[i] = evaluate_sample(target, samples[i])
    BY <2>1, <2>4, <2>5, Zenon
  <2> QED  BY <1>1, <1>3, <1>6, <2>3, <2>5, <2>6 DEF Measured
<1>8. CASE pc' = "measure"
  <2>1. index' = index + 1 /\ index < m
    BY <1>1, <1>8
  <2>2. index' - 1 = q /\ index' \in 1..measurements'
    BY <1>2, <1>3, <1>6, <2>1
  <2>3. Measured(index - 1)'
    BY <1>7, <2>2, Zenon DEF Measured
  <2> QED  BY <1>5, <1>8, <2>2, <2>3 DEF SampleInv
<1>9. CASE pc' = "statistics"
  <2>1. index = m
    BY <1>1, <1>2, <1>9
  <2>2. q = measurements'
    BY <1>3, <1>6, <2>1
  <2>3. Measured(measurements)'
    BY <1>7, <2>2, Zenon DEF Measured
  <2> QED  BY <1>5, <1>9, <2>3 DEF SampleInv
<1> QED  BY <1>1, <1>8, <1>9

(* Every step keeps the samples.                                           *)
LEMMA SampleStep ==
    ASSUME EvidenceInv, SampleInv, [Next]_vars
    PROVE  SampleInv'
<1>1. CASE FillClasses        BY <1>1, SampleStarts
<1>2. CASE prepare_inputs     BY <1>2, PrepareSamples
<1>3. CASE do_one_computation BY <1>3, MeasureSamples
<1>4. CASE RejectConfig \/ prepare_percentiles \/ StatisticsDone \/ summarize
  <2>1. pc' \in {"error", "batch", "done"}
    BY <1>4 DEF RejectConfig, prepare_percentiles, StatisticsDone, summarize, NextBatch
  <2> QED  BY <2>1 DEF SampleInv
<1>5. CASE Shuffle
  <2>1. /\ pc = "shuffle" /\ config' = config /\ batch' = batch /\ samples' = samples
        /\ results' = results
        /\ pc' = "shuffle" \/ (pc' = "prepare" /\ index' = 1)
    BY <1>5 DEF Shuffle
  <2>2. measurements' = measurements /\ target' = target
    BY <2>1, ConfigUnchanged
  <2>3. Made(0) /\ Measured(0)
    BY <2>1 DEF SampleInv
  <2>4. Measured(0)'
    BY <2>1, <2>3, MeasuredKept
  <2>5. Made(0)'
    <3>1. samples \in Seq(Samples) /\ Len(samples) = 0
      BY <2>3 DEF Made
    <3>2. Samples' = Samples
      BY <2>2 DEF Samples
    <3>3. \A i \in 1..0 : FALSE
      OBVIOUS
    <3> QED  BY <2>1, <3>1, <3>2, <3>3, Zenon DEF Made
  <2>6. CASE pc' = "shuffle"
    BY <2>4, <2>5, <2>6 DEF SampleInv
  <2>7. CASE pc' = "prepare" /\ index' = 1
    <3>1. measurements \in Nat /\ measurements > 0
      BY <2>1, ConfigFacts DEF EvidenceInv, TypeInv, BatchInv
    <3>2. index' - 1 = 0 /\ index' \in 1..measurements'
      BY <2>2, <2>7, <3>1
    <3>3. Made(index - 1)'
      BY <2>5, <3>2, Zenon DEF Made
    <3> QED  BY <2>4, <2>7, <3>2, <3>3 DEF SampleInv
  <2> QED  BY <2>1, <2>6, <2>7
<1>6. CASE update_statistics
  <2>1. /\ pc = "statistics" /\ pc' = pc /\ config' = config /\ batch' = batch
        /\ classes' = classes /\ samples' = samples /\ results' = results
    BY <1>6 DEF update_statistics
  <2>2. PICK p : p = measurements
    OBVIOUS
  <2>3. Made(p) /\ Measured(p)
    BY <2>1, <2>2 DEF SampleInv
  <2>4. Made(p)' /\ Measured(p)' /\ p = measurements'
    BY <2>1, <2>2, <2>3, MadeKept, MeasuredKept, ConfigUnchanged
  <2>5. Made(measurements)' /\ Measured(measurements)'
    BY <2>4, Zenon DEF Made, Measured
  <2> QED  BY <2>1, <2>5 DEF SampleInv
<1>7. CASE UNCHANGED vars
  BY <1>7 DEF vars, SampleInv, Made, Measured, Samples, Results, target, measurements
<1>8. CASE Terminated
  BY <1>7, <1>8 DEF Terminated
<1> QED  BY <1>1, <1>2, <1>3, <1>4, <1>5, <1>6, <1>7, <1>8 DEF Next

(* Every batch that is measured consists of samples made for their classes.*)
THEOREM SampleInvariance == Spec => [](EvidenceInv /\ SampleInv)
<1>1. Init => SampleInv
  BY DEF Init, SampleInv
<1>2. EvidenceInv /\ SampleInv /\ [Next]_vars => SampleInv'
  BY SampleStep
<1> QED  BY <1>1, <1>2, EvidenceInvariance, PTL DEF Spec

(* The samples of a batch that is complete.                                *)
LEMMA BatchFacts ==
    ASSUME EvidenceInv, SampleInv, pc \in {"measure", "statistics"}
    PROVE  /\ measurements \in Nat /\ measurements % 2 = 0
           /\ ClassOf(0) # {} /\ ClassOf(1) \subseteq 1..measurements
           /\ \A c \in 0..1 : /\ IsFiniteSet(ClassOf(c)) /\ Cardinality(ClassOf(c)) \in Nat
                              /\ 2 * Cardinality(ClassOf(c)) = measurements
           /\ \A c \in 0..1 : \A i \in ClassOf(c) : \E k \in 0..MaxCounter :
                  samples[i] = make_sample(target, c, <<batch, i>>, k)
           /\ \A i \in 1..Len(results) :
                  /\ classes[i] \in 0..1 /\ i \in ClassOf(classes[i])
                  /\ results[i] = evaluate_sample(target, samples[i])
<1>1. ValidConfig(config) /\ config \in Configs /\ pc \in InBatch /\ index \in Nat
  BY DEF EvidenceInv, BatchInv, TypeInv, InBatch
<1>2. measurements \in Nat /\ measurements > 0 /\ measurements % 2 = 0
  BY <1>1, ConfigFacts
<1>3. /\ classes \in [1..measurements -> 0..1]
      /\ \A c \in 0..1 : 2 * Cardinality(ClassOf(c)) = measurements
  BY <1>1 DEF EvidenceInv, ClassInv
<1>4. \A c : IsFiniteSet(ClassOf(c)) /\ Cardinality(ClassOf(c)) \in Nat
  BY <1>2, SelectionFinite DEF ClassOf
<1>5. ClassOf(0) # {}
  <2>1. Cardinality(ClassOf(0)) # 0
    BY <1>2, <1>3, <1>4
  <2> QED  BY <2>1, FS_EmptySet
<1>6. Made(measurements)
  BY DEF SampleInv
<1>7. ASSUME NEW c \in 0..1, NEW i \in ClassOf(c)
      PROVE  \E k \in 0..MaxCounter : samples[i] = make_sample(target, c, <<batch, i>>, k)
  <2>1. i \in 1..measurements /\ classes[i] = c
    BY <1>7 DEF ClassOf
  <2> QED  BY <1>6, <2>1, Zenon DEF Made
<1>8. PICK n \in Nat : Measured(n) /\ n <= measurements
  <2>1. CASE pc = "measure"
    <3>1. Measured(index - 1) /\ index \in 1..measurements
      BY <2>1 DEF SampleInv
    <3>2. index - 1 \in Nat /\ index - 1 <= measurements
      BY <1>1, <1>2, <3>1
    <3> QED  BY <3>1, <3>2
  <2>2. CASE pc = "statistics"
    BY <1>2, <2>2 DEF SampleInv
  <2> QED  BY <2>1, <2>2
<1>9. ASSUME NEW i \in 1..Len(results)
      PROVE  /\ classes[i] \in 0..1 /\ i \in ClassOf(classes[i])
             /\ results[i] = evaluate_sample(target, samples[i])
  <2>1. Len(results) = n /\ \A j \in 1..n : results[j] = evaluate_sample(target, samples[j])
    BY <1>8 DEF Measured
  <2>2. i \in 1..n /\ i \in 1..measurements
    BY <1>2, <1>8, <2>1
  <2> QED  BY <1>3, <2>1, <2>2 DEF ClassOf
<1>10. ClassOf(1) \subseteq 1..measurements
  BY DEF ClassOf
<1> QED  BY <1>2, <1>3, <1>4, <1>5, <1>7, <1>9, <1>10

(* The two classes of a batch, in every campaign, for every shuffle and    *)
(* for every draw: apart from the input that class_descriptions names they *)
(* agree, in it they differ, and the mismatch or the opening is where and  *)
(* when it is said to be.                                                  *)
THEOREM ClassesAreAsDescribed == Spec => []ClassesAsDescribed
<1>1. EvidenceInv /\ SampleInv => ClassesAsDescribed
  <2> SUFFICES ASSUME EvidenceInv, SampleInv, pc \in {"measure", "statistics"}
               PROVE  ClassesAsDescribed
    BY DEF ClassesAsDescribed
  <2> DEFINE m == measurements
             Class(c) == {samples[i] : i \in {j \in 1..m : classes[j] = c}}
             All == Class(0) \cup Class(1)
             right(s) == compute_tag(s.base.keys.authentication_key, s.context,
                                     s.base.payload, BlockSize)
             P == ClassOf(0)
             Q == ClassOf(1)
             out(s) == C1(s.base.keys.encryption_key, s.stream_frame)
  <2>1. /\ m \in Nat /\ m % 2 = 0 /\ P # {} /\ Q \subseteq 1..m
        /\ \A c \in 0..1 : /\ IsFiniteSet(ClassOf(c)) /\ Cardinality(ClassOf(c)) \in Nat
                           /\ 2 * Cardinality(ClassOf(c)) = m
        /\ \A c \in 0..1 : \A i \in ClassOf(c) : \E k \in 0..MaxCounter :
               samples[i] = make_sample(target, c, <<batch, i>>, k)
        /\ \A i \in 1..Len(results) :
               /\ classes[i] \in 0..1 /\ i \in ClassOf(classes[i])
               /\ results[i] = evaluate_sample(target, samples[i])
    BY BatchFacts
  <2>2. \A c : Class(c) = {samples[i] : i \in ClassOf(c)} /\ {j \in 1..m : classes[j] = c} = ClassOf(c)
    BY DEF ClassOf
  <2>3. All = {samples[i] : i \in P \cup Q}
    BY <2>2
  <2>4. /\ IsFiniteSet(Q) /\ Cardinality(Q) \in Nat /\ 2 * Cardinality(Q) = m
        /\ Cardinality(Q) + 1 = 1 + m \div 2
    BY <2>1
  <2>5. PICK p : p \in P
    BY <2>1
  <2>6. PICK z \in 0..MaxCounter : samples[p] = make_sample(target, 0, <<batch, p>>, z)
    BY <2>1, <2>5
  <2>7. \A i \in P : samples[i] = samples[p]
    <3> TAKE i \in P
    <3>1. PICK k \in 0..MaxCounter : samples[i] = make_sample(target, 0, <<batch, i>>, k)
      BY <2>1
    <3> QED  BY <2>6, <3>1, FixedSample, Zenon
  <2>8. \A i \in Q : \E k \in 0..MaxCounter : samples[i] = make_sample(target, 1, <<batch, i>>, k)
    BY <2>1
  <2>9. \A c \in 0..1 : 2 * Cardinality({i \in 1..m : classes[i] = c}) = m
    BY <2>1, <2>2
  <2>10. Cardinality(Class(0)) = 1
    <3>1. Class(0) = {samples[p]}
      BY <2>2, <2>5, <2>7
    <3> QED  BY <3>1, FS_Singleton
  <2>11. \A i, j \in Q : <<batch, i>> = <<batch, j>> => i = j
    OBVIOUS
  <2>12. target \in CompleteBase \cup {"C1KeyOnly", "C1StreamFrameOnly"} =>
             2 * Cardinality(Class(1)) = m
    <3> SUFFICES ASSUME target \in CompleteBase \cup {"C1KeyOnly", "C1StreamFrameOnly"}
                 PROVE  2 * Cardinality(Class(1)) = m
      OBVIOUS
    <3>1. ASSUME NEW i \in Q, NEW j \in Q, samples[i] = samples[j] PROVE i = j
      <4>1. PICK k \in 0..MaxCounter : samples[i] = make_sample(target, 1, <<batch, i>>, k)
        BY <2>8
      <4>2. PICK l \in 0..MaxCounter : samples[j] = make_sample(target, 1, <<batch, j>>, l)
        BY <2>8
      <4>3. make_sample(target, 1, <<batch, i>>, k) = make_sample(target, 1, <<batch, j>>, l)
        BY <3>1, <4>1, <4>2, Zenon
      <4>4. <<batch, i>> = <<batch, j>>
        BY <4>3, RandomSamples, Zenon
      <4> QED  BY <2>11, <4>4
    <3> HIDE DEF Q
    <3>2. Cardinality({samples[i] : i \in Q}) = Cardinality(Q)
      BY <2>4, <3>1, OneToOne
    <3>3. Class(1) = {samples[i] : i \in Q}
      BY <2>2 DEF Q
    <3> QED  BY <2>4, <3>2, <3>3
  <2>13. target = "C1KeyOnly" =>
             Cardinality({C1(s.base.keys.encryption_key, s.stream_frame) : s \in All})
                 = 1 + m \div 2
    <3> SUFFICES ASSUME target = "C1KeyOnly"
                 PROVE  Cardinality({out(s) : s \in All}) = 1 + m \div 2
      OBVIOUS
    <3>1. ASSUME NEW i \in Q
          PROVE  /\ out(samples[i]) # out(samples[p])
                 /\ \A j \in Q : out(samples[i]) = out(samples[j]) => i = j
      <4>1. PICK k \in 0..MaxCounter : samples[i] = make_sample("C1KeyOnly", 1, <<batch, i>>, k)
        BY <2>8
      <4>2. samples[p] = make_sample("C1KeyOnly", 0, <<batch, p>>, z)
        BY <2>6
      <4>3. out(samples[i]) # out(samples[p])
        BY <4>1, <4>2, KeyOnly
      <4>4. ASSUME NEW j \in Q, out(samples[i]) = out(samples[j]) PROVE i = j
        <5>1. PICK l \in 0..MaxCounter :
                  samples[j] = make_sample("C1KeyOnly", 1, <<batch, j>>, l)
          BY <2>8
        <5>2. <<batch, i>> = <<batch, j>>
          BY <2>6, <4>1, <4>4, <5>1, KeyOnly
        <5> QED  BY <2>11, <5>2
      <4> QED  BY <4>3, <4>4
    <3> DEFINE f == [i \in P \cup Q |-> out(samples[i])]
               a == out(samples[p])
    <3>3. {out(s) : s \in All} = {f[i] : i \in P \cup Q}
      <4> HIDE DEF All, P, Q, out
      <4> QED  BY <2>3
    <3>4. Separates(f, a, P, Q)
      <4> HIDE DEF P, Q, out
      <4> QED  BY <2>7, <3>1 DEF Separates
    <3> HIDE DEF f, a, P, Q, out
    <3>5. Cardinality({f[i] : i \in P \cup Q}) = Cardinality(Q) + 1
      <4>1. P # {} /\ IsFiniteSet(Q)
        BY <2>4, <2>5
      <4> QED  BY <3>4, <4>1, OneAndMany
    <3> QED  BY <2>4, <3>3, <3>5
  <2>14. target = "C1StreamFrameOnly" =>
             Cardinality({s.stream_frame : s \in All}) = 1 + m \div 2
    <3> SUFFICES ASSUME target = "C1StreamFrameOnly"
                 PROVE  Cardinality({s.stream_frame : s \in All}) = 1 + m \div 2
      OBVIOUS
    <3>1. ASSUME NEW i \in Q
          PROVE  /\ samples[i].stream_frame # samples[p].stream_frame
                 /\ \A j \in Q : samples[i].stream_frame = samples[j].stream_frame => i = j
      <4>1. PICK k \in 0..MaxCounter :
                samples[i] = make_sample("C1StreamFrameOnly", 1, <<batch, i>>, k)
        BY <2>8
      <4>2. samples[p] = make_sample("C1StreamFrameOnly", 0, <<batch, p>>, z)
        BY <2>6
      <4>3. samples[i].stream_frame # samples[p].stream_frame
        BY <4>1, <4>2, StreamFrameOnly
      <4>4. ASSUME NEW j \in Q, samples[i].stream_frame = samples[j].stream_frame PROVE i = j
        <5>1. PICK l \in 0..MaxCounter :
                  samples[j] = make_sample("C1StreamFrameOnly", 1, <<batch, j>>, l)
          BY <2>8
        <5>2. <<batch, i>> = <<batch, j>>
          BY <2>6, <4>1, <4>4, <5>1, StreamFrameOnly
        <5> QED  BY <2>11, <5>2
      <4> QED  BY <4>3, <4>4
    <3> DEFINE f == [i \in P \cup Q |-> samples[i].stream_frame]
               a == samples[p].stream_frame
    <3>3. {s.stream_frame : s \in All} = {f[i] : i \in P \cup Q}
      <4> HIDE DEF All, P, Q, out
      <4> QED  BY <2>3
    <3>4. Separates(f, a, P, Q)
      <4> HIDE DEF P, Q
      <4> QED  BY <2>7, <3>1 DEF Separates
    <3> HIDE DEF f, a, P, Q
    <3>5. Cardinality({f[i] : i \in P \cup Q}) = Cardinality(Q) + 1
      <4>1. P # {} /\ IsFiniteSet(Q)
        BY <2>4, <2>5
      <4> QED  BY <3>4, <4>1, OneAndMany
    <3> QED  BY <2>4, <3>3, <3>5
  <2>15. target = "M1VerifyMismatchPosition" =>
             \A c \in 0..1 : \A s \in Class(c) :
                 {i \in 1..BlockSize : s.tag[i] # right(s)[i]}
                     = {IF c = 0 THEN 1 ELSE BlockSize}
    <3> SUFFICES ASSUME target = "M1VerifyMismatchPosition", NEW c \in 0..1, NEW s \in Class(c)
                 PROVE  {i \in 1..BlockSize : s.tag[i] # right(s)[i]}
                            = {IF c = 0 THEN 1 ELSE BlockSize}
      OBVIOUS
    <3>1. PICK i \in ClassOf(c) : s = samples[i]
      BY <2>2
    <3>2. PICK k \in 0..MaxCounter : s = make_sample("M1VerifyMismatchPosition", c, <<batch, i>>, k)
      BY <2>1, <3>1
    <3> QED  BY <3>2, Mismatch
  <2>16. target \in OpenTargets =>
             \A c \in 0..1 : \A s \in Class(c) :
                 /\ open_sample(s).opened <=> \/ target = "OpenSuccess"
                                              \/ target = "OpenValidityControl" /\ c = 1
                 /\ open_sample(s).opened => open_sample(s).plaintext = s.base.payload
    <3> SUFFICES ASSUME target \in OpenTargets, NEW c \in 0..1, NEW s \in Class(c)
                 PROVE  /\ open_sample(s).opened <=> \/ target = "OpenSuccess"
                                                     \/ target = "OpenValidityControl" /\ c = 1
                        /\ open_sample(s).opened => open_sample(s).plaintext = s.base.payload
      OBVIOUS
    <3>1. PICK i \in ClassOf(c) : s = samples[i]
      BY <2>2
    <3>2. PICK k \in 0..MaxCounter : s = make_sample(target, c, <<batch, i>>, k)
      BY <2>1, <3>1
    <3> QED  BY <3>2, OpenTarget
  <2>17. \A i \in 1..Len(results) :
             /\ target = "M1VerifyMismatchPosition" => results[i] = {}
             /\ target = "PositiveControl" => (results[i] = {} <=> classes[i] = 0)
    <3> TAKE i \in 1..Len(results)
    <3> DEFINE c == classes[i]
               s == samples[i]
    <3>1. c \in 0..1 /\ i \in ClassOf(c) /\ results[i] = evaluate_sample(target, s)
      BY <2>1
    <3>2. PICK k \in 0..MaxCounter : s = make_sample(target, c, <<batch, i>>, k)
      BY <2>1, <3>1
    <3> HIDE DEF c, s
    <3>3. target = "M1VerifyMismatchPosition" => evaluate_sample(target, s) = {}
      BY <3>1, <3>2, Mismatch
    <3>4. target = "PositiveControl" => (evaluate_sample(target, s) = {} <=> c = 0)
      BY <3>1, <3>2, Control
    <3> QED  BY <3>1, <3>3, <3>4 DEF c
  <2>18. Cardinality({Shared(target, s) : s \in All}) = 1
    <3>1. target \in Targets
      BY DEF EvidenceInv, BatchInv, InBatch, ValidConfig, target
    <3>2. ASSUME NEW i \in P \cup Q
          PROVE  Shared(target, samples[i]) = Shared(target, samples[p])
      <4>1. CASE i \in P
        BY <2>7, <4>1
      <4>2. CASE i \in Q
        <5>1. PICK k \in 0..MaxCounter : samples[i] = make_sample(target, 1, <<batch, i>>, k)
          BY <2>8, <4>2
        <5> QED  BY <2>6, <3>1, <5>1, SharedSample
      <4> QED  BY <4>1, <4>2
    <3>3. {Shared(target, s) : s \in All} = {Shared(target, samples[p])}
      <4> HIDE DEF All, P, Q
      <4> QED  BY <2>3, <2>5, <3>2
    <3> QED  BY <3>3, FS_Singleton
  <2>19. target = "PositiveControl" =>
             \A c \in 0..1 : \A s \in Class(c) :
                 {i \in 1..PayloadBytes : s.base.payload[i] # {}}
                     = {IF c = 0 THEN 1 ELSE PayloadBytes}
    <3> SUFFICES ASSUME target = "PositiveControl", NEW c \in 0..1, NEW s \in Class(c)
                 PROVE  {i \in 1..PayloadBytes : s.base.payload[i] # {}}
                            = {IF c = 0 THEN 1 ELSE PayloadBytes}
      OBVIOUS
    <3>1. PICK i \in ClassOf(c) : s = samples[i]
      BY <2>2
    <3>2. PICK k \in 0..MaxCounter : s = make_sample("PositiveControl", c, <<batch, i>>, k)
      BY <2>1, <3>1
    <3> QED  BY <3>2, Control
  <2>20. target = "OpenValidityControl" =>
             \A s \in Class(0), u \in Class(1) :
                 {i \in 1..BlockSize : s.tag[i] # u.tag[i]} = {1}
    <3> SUFFICES ASSUME target = "OpenValidityControl", NEW s \in Class(0), NEW u \in Class(1)
                 PROVE  {i \in 1..BlockSize : s.tag[i] # u.tag[i]} = {1}
      OBVIOUS
    <3>1. PICK i \in P : s = samples[i]
      BY <2>2
    <3>2. PICK j \in Q : u = samples[j]
      BY <2>2
    <3>3. PICK k \in 0..MaxCounter : s = make_sample("OpenValidityControl", 0, <<batch, i>>, k)
      BY <2>1, <3>1
    <3>4. PICK l \in 0..MaxCounter : u = make_sample("OpenValidityControl", 1, <<batch, j>>, l)
      BY <2>8, <3>2
    <3> QED  BY <3>3, <3>4, ValidityTags
  <2> HIDE DEF right
  <2> QED  BY <2>9, <2>10, <2>12, <2>13, <2>14, <2>15, <2>16, <2>17, <2>18, <2>19, <2>20
           DEF ClassesAsDescribed, right
<1> QED  BY <1>1, SampleInvariance, PTL
=============================================================================
