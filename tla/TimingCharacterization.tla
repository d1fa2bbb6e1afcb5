------------------------ MODULE TimingCharacterization ------------------------
(***************************************************************************)
(* analysis/timing_characterization.cpp: the two-class timing campaign of  *)
(* one target, driven by dudect.  Each call of dudect_main prepares a      *)
(* batch (balanced classes, shuffled; one sample a class), measures every  *)
(* sample, and either sets the cropping percentiles (the warm-up) or feeds *)
(* the t-tests.  main then summarises the tests.                           *)
(*                                                                         *)
(* A byte is a set of atoms as in module AeadFunctions: zero is the empty  *)
(* set, a random byte an atom of its own.  Time is not modelled: how long  *)
(* a measurement took and how large a t value is are nondeterministic.     *)
(* g_sink and prepare_calls are write-only.  The throws on chunk size and  *)
(* field lengths, and on a failing dudect_init, cannot be reached: main    *)
(* sets the size, the lengths are constants, and dudect_init returns 0.    *)
(* dudect's report only prints: main ignores what it returns.              *)
(***************************************************************************)
EXTENDS AeadFunctions, FiniteSets, FiniteSetsExt

CONSTANTS Configs,          \* <<target, measurements, batches>> of a command line
          MinMeasurements,  \* 32 in the code
          Enough,           \* DUDECT_ENOUGH_MEASUREMENTS
          Discarded,        \* measurements dudect skips in every batch
          NumberPercentiles,  \* DUDECT_NUMBER_PERCENTILES
          PayloadBytes, MaxCounter,
          Threshold, MaxT   \* kDudectThreshold, and the largest |t| considered

ASSUME CampaignAssumption ==
    /\ \A c \in Configs : c[2] \in Nat /\ c[3] \in Nat
    /\ MinMeasurements \in Nat \ {0} /\ NumberPercentiles \in Nat \ {0}
    /\ Enough \in Nat /\ Discarded \in Nat /\ MaxT \in Nat
    /\ PayloadBytes \in Nat /\ PayloadBytes > 1
    /\ NonceBytes > 0
    /\ MaxCounter \in U64
    /\ BlockSize \in TagSizes

VARIABLES pc, config, batch,
          index,            \* the loop variable of the step under way
          classes, samples, results,   \* the batch
          percentile,       \* the last cropping percentile; 0: not set
          tests,            \* per t-test and class, the number of measurements
          summary

vars == <<pc, config, batch, index, classes, samples, results, percentile, tests,
          summary>>

C1Targets   == {"C1Evaluate", "C1KeyOnly", "C1StreamFrameOnly"}
OpenTargets == {"OpenFailure", "OpenSuccess", "OpenValidityControl"}
Targets     == {"PositiveControl", "M1Compute", "M1VerifyMismatchPosition", "Seal"}
                   \cup C1Targets \cup OpenTargets

(* The targets whose class 1 draws every input at random.                  *)
CompleteBase == {"C1Evaluate", "M1Compute", "Seal", "OpenFailure", "OpenSuccess"}

target       == config[1]
measurements == config[2]
batches      == config[3]

ValidConfig(c) == /\ c[1] \in Targets
                  /\ c[2] >= MinMeasurements
                  /\ c[2] % 2 = 0
                  /\ c[3] # 0

-----------------------------------------------------------------------------
(* Samples.  kTagBytes is the length of a C1 output.                       *)
One == Const("1")
Zero(n) == [i \in 1..n |-> {}]
fill_random(field, draw, n) ==
    [i \in 1..n |-> {[random |-> field, draw |-> draw, i |-> i]}]

MutantFlip(s, i) == [s EXCEPT ![1] = Xor(@, One)]
Flip(s, i) == [s EXCEPT ![i] = Xor(@, One)]

(* Whether a field is drawn for the second class of a target: with all     *)
(* others, or as the only one.                                             *)
MutantRandomized(t, only) == t # "PositiveControl"
Randomized(t, only) == t \in CompleteBase \cup only

base_sample(t, random_class, draw) ==
    LET random(field, only, n) ==
            IF random_class /\ Randomized(t, only)
            THEN fill_random(field, draw, n) ELSE Zero(n)
    IN  [keys |-> [encryption_key |-> random("encryption_key", {"C1KeyOnly"}, 1),
                   authentication_key |-> random("authentication_key", {}, 1)],
         nonce |-> random("nonce", {"C1StreamFrameOnly"}, NonceBytes),
         associated_data |-> random("associated_data", {}, 1),
         payload |-> IF t = "PositiveControl"
                     THEN Flip(Zero(PayloadBytes), IF random_class THEN PayloadBytes ELSE 1)
                     ELSE random("payload", {}, PayloadBytes)]

prepare_stream_frame(s, counter) == frame_stream_block(s.nonce, counter, BlockSize)

prepare_authentication_context(s) ==
    frame_authentication_context(s.nonce, s.associated_data, BlockSize)

prepare_sealed_message(s) ==
    seal(s.keys, s.nonce, s.associated_data, s.payload, BlockSize)

(* input_class 1 is the random, or second, class.  A field that the target *)
(* does not use stays zero, here the empty sequence.                       *)
make_sample(t, input_class, draw, counter) ==
    LET random_class == input_class = 1
        b == base_sample(t, random_class, draw)
        context == prepare_authentication_context(b)
        sealed == IF t \in OpenTargets THEN prepare_sealed_message(b)
                  ELSE [ciphertext |-> <<>>, tag |-> <<>>]
        expected == compute_tag(b.keys.authentication_key, context, b.payload, BlockSize)
    IN  [base |-> b,
         stream_frame |->
             IF t \in C1Targets
             THEN prepare_stream_frame(
                      b, IF random_class /\ t # "C1KeyOnly" THEN counter ELSE 0)
             ELSE <<>>,
         context |-> IF t \in {"M1Compute", "M1VerifyMismatchPosition"}
                     THEN context ELSE <<>>,
         ciphertext |-> sealed.ciphertext,
         tag |-> IF t = "M1VerifyMismatchPosition"
                 THEN Flip(expected, IF random_class THEN BlockSize ELSE 1)
                 ELSE IF t = "OpenFailure" \/ (t = "OpenValidityControl" /\ ~random_class)
                      THEN Flip(sealed.tag, 1)
                      ELSE sealed.tag]

open_sample(s) ==
    open(s.base.keys, s.base.nonce, s.base.associated_data, s.ciphertext, s.tag)

(* The index of the first byte that is not zero; index 0 is byte 0.        *)
positive_control(payload) ==
    LET nonzero == {i \in 1..Len(payload) : payload[i] # {}}
    IN  IF nonzero = {} \/ Min(nonzero) = 1 THEN {} ELSE Octet(Min(nonzero) - 1)

(* The byte returned.  verify_tag's 1 is One.                              *)
evaluate_sample(t, s) ==
    LET keys == s.base.keys
        sealed == prepare_sealed_message(s.base)
    IN  CASE t = "PositiveControl" -> positive_control(s.base.payload)
          [] t \in C1Targets -> C1(keys.encryption_key, s.stream_frame)[1]
          [] t = "M1Compute" -> compute_tag(keys.authentication_key, s.context,
                                            s.base.payload, BlockSize)[1]
          [] t = "M1VerifyMismatchPosition" ->
                 IF verify_tag(keys.authentication_key, s.context, s.base.payload, s.tag)
                 THEN One ELSE {}
          [] t = "Seal" -> Xor(sealed.ciphertext[1], sealed.tag[1])
          [] t \in OpenTargets ->
                 IF open_sample(s).opened THEN open_sample(s).plaintext[1] ELSE {}

-----------------------------------------------------------------------------
(* main and prepare_inputs.                                                *)
(* DUDECT_TESTS: test 0 is the raw one, test i that of percentile i, the   *)
(* last one the second-order test.                                         *)
Second == NumberPercentiles + 1
Tests  == 0..Second

NoCount == [c \in 0..1 |-> 0]
NoSummary == [enough |-> FALSE, maximum_t |-> 0, leakage |-> FALSE]

Init == /\ pc = "parse" /\ config \in Configs /\ batch = 0 /\ index = 0
        /\ classes = <<>> /\ samples = <<>> /\ results = <<>> /\ percentile = 0
        /\ tests = [t \in Tests |-> NoCount]
        /\ summary = NoSummary

RejectConfig == /\ pc = "parse" /\ ~ValidConfig(config) /\ pc' = "error"
                /\ UNCHANGED <<config, batch, index, classes, samples, results,
                               percentile, tests, summary>>

(* The first half 0, the second half 1.                                    *)
FillClasses == /\ \/ pc = "parse" /\ ValidConfig(config)
                  \/ pc = "batch" /\ batch <= batches
               /\ classes' = [i \in 1..measurements |->
                                 IF i <= measurements \div 2 THEN 0 ELSE 1]
               /\ index' = measurements /\ samples' = <<>> /\ results' = <<>>
               /\ pc' = "shuffle"
               /\ UNCHANGED <<config, batch, percentile, tests, summary>>

MutantSwap(s, i, j) == [s EXCEPT ![i] = s[j]]
Swap(s, i, j) == [s EXCEPT ![i] = s[j], ![j] = s[i]]

Shuffle == /\ pc = "shuffle"
           /\ IF index > 1
              THEN /\ \E other \in 1..index : classes' = Swap(classes, index, other)
                   /\ index' = index - 1 /\ pc' = pc
              ELSE /\ classes' = classes /\ index' = 1 /\ pc' = "prepare"
           /\ UNCHANGED <<config, batch, samples, results, percentile, tests, summary>>

prepare_inputs ==
    /\ pc = "prepare"
    /\ \E counter \in 0..MaxCounter :
           samples' = Append(samples, make_sample(target, classes[index],
                                                  <<batch, index>>, counter))
    /\ IF index < measurements THEN index' = index + 1 /\ pc' = pc
       ELSE index' = 1 /\ pc' = "measure"
    /\ UNCHANGED <<config, batch, classes, results, percentile, tests, summary>>

do_one_computation ==
    /\ pc = "measure"
    /\ results' = Append(results, evaluate_sample(target, samples[index]))
    /\ IF index < measurements THEN index' = index + 1 /\ pc' = pc
       ELSE index' = Discarded + 1 /\ pc' = "statistics"
    /\ UNCHANGED <<config, batch, classes, samples, percentile, tests, summary>>

-----------------------------------------------------------------------------
(* dudect: the first batch, and any batch as long as the last percentile   *)
(* is 0, only sets the percentiles.                                        *)
NextBatch == batch' = batch + 1 /\ index' = 0 /\ pc' = "batch"
             /\ classes' = <<>> /\ samples' = <<>> /\ results' = <<>>

prepare_percentiles ==
    /\ pc = "statistics" /\ percentile = 0
    /\ percentile' \in 0..1 /\ NextBatch /\ UNCHANGED <<config, tests, summary>>

t_push(n, c) == [n EXCEPT ![c] = @ + 1]

Pushed(used, c) == [t \in Tests |-> IF t \in used THEN t_push(tests[t], c) ELSE tests[t]]

(* One measurement, thrown away when the cycle counter overflowed.  The    *)
(* percentiles do not decrease, so its time is below those from some first *)
(* one on, if any.  The last measurement of a batch has no duration.       *)
update_statistics ==
    /\ pc = "statistics" /\ percentile # 0 /\ index < measurements
    /\ LET c == classes[index]
       IN  \/ tests' = tests
           \/ \E first \in 1..Second :
                  tests' = Pushed({0} \cup (first..NumberPercentiles)
                                  \cup {t \in {Second} : t_push(tests[0], c)[0] > Enough}, c)
    /\ index' = index + 1
    /\ UNCHANGED <<pc, config, batch, classes, samples, results, percentile, summary>>

StatisticsDone == /\ pc = "statistics" /\ percentile # 0 /\ index >= measurements
                  /\ NextBatch /\ UNCHANGED <<config, percentile, tests, summary>>

(* |welch_t|, of which only its zeros are determined.                      *)
welch_t(n) == IF n[0] < 2 \/ n[1] < 2 THEN {0} ELSE 0..MaxT

summarize ==
    /\ pc = "batch" /\ batch > batches
    /\ LET ready == {t \in DOMAIN tests : tests[t][0] > Enough /\ tests[t][1] > Enough}
       IN  \E value \in [ready -> 0..MaxT] :
               LET maximum == Max({0} \cup {value[t] : t \in ready})
               IN  /\ \A t \in ready : value[t] \in welch_t(tests[t])
                   /\ summary' = [enough |-> ready # {}, maximum_t |-> maximum,
                                  leakage |-> ready # {} /\ maximum > Threshold]
    /\ pc' = "done"
    /\ UNCHANGED <<config, batch, index, classes, samples, results, percentile, tests>>

Terminated == pc \in {"done", "error"} /\ UNCHANGED vars

Next == RejectConfig \/ FillClasses \/ Shuffle \/ prepare_inputs \/ do_one_computation
            \/ prepare_percentiles \/ update_statistics \/ StatisticsDone \/ summarize
            \/ Terminated

Spec == Init /\ [][Next]_vars

-----------------------------------------------------------------------------
(* What the classes of a target share: a sample without the inputs that    *)
(* class_descriptions names.  A complete random class shares nothing.      *)
Shared(t, s) ==
    CASE t = "PositiveControl"   -> [s EXCEPT !.base.payload = <<>>]
      [] t = "C1KeyOnly"         -> [s EXCEPT !.base.keys.encryption_key = <<>>]
      [] t = "C1StreamFrameOnly" -> [s EXCEPT !.base.nonce = <<>>, !.stream_frame = <<>>]
      [] t \in {"M1VerifyMismatchPosition", "OpenValidityControl"} ->
                                    [s EXCEPT !.tag = <<>>]
      [] t \in CompleteBase      -> <<>>

(* The two classes of a batch are what class_descriptions prints, in equal *)
(* numbers, however they were shuffled.  Apart from the input named there  *)
(* all samples of a batch are equal (docs/TIMING_CHARACTERIZATION.md:58:   *)
(* they "share the same key, context, message, and expected tag"); in it   *)
(* they differ as described: keys or frames are all different, a mismatch  *)
(* or a nonzero byte is where it is said to be, and a sample opens exactly *)
(* when its class says so.  A t value compares nothing else.               *)
ClassesAsDescribed ==
    pc \in {"measure", "statistics"} =>
        LET Class(c) == {samples[i] : i \in {j \in 1..measurements : classes[j] = c}}
            All == Class(0) \cup Class(1)
            right(s) == compute_tag(s.base.keys.authentication_key, s.context,
                                    s.base.payload, BlockSize)
        IN  /\ \A c \in 0..1 : 2 * Cardinality({i \in 1..measurements : classes[i] = c})
                                   = measurements
            /\ Cardinality(Class(0)) = 1
            /\ target \in CompleteBase \cup {"C1KeyOnly", "C1StreamFrameOnly"} =>
                   2 * Cardinality(Class(1)) = measurements
            /\ Cardinality({Shared(target, s) : s \in All}) = 1
            /\ target = "C1KeyOnly" =>
                   Cardinality({C1(s.base.keys.encryption_key, s.stream_frame) : s \in All})
                       = 1 + measurements \div 2
            /\ target = "C1StreamFrameOnly" =>
                   Cardinality({s.stream_frame : s \in All}) = 1 + measurements \div 2
            /\ target = "PositiveControl" =>
                   \A c \in 0..1 : \A s \in Class(c) :
                       {i \in 1..PayloadBytes : s.base.payload[i] # {}}
                           = {IF c = 0 THEN 1 ELSE PayloadBytes}
            /\ target = "M1VerifyMismatchPosition" =>
                   \A c \in 0..1 : \A s \in Class(c) :
                       {i \in 1..BlockSize : s.tag[i] # right(s)[i]}
                           = {IF c = 0 THEN 1 ELSE BlockSize}
            /\ target = "OpenValidityControl" =>
                   \A s \in Class(0), u \in Class(1) :
                       {i \in 1..BlockSize : s.tag[i] # u.tag[i]} = {1}
            /\ target \in OpenTargets =>
                   \A c \in 0..1 : \A s \in Class(c) :
                       /\ open_sample(s).opened <=> \/ target = "OpenSuccess"
                                                    \/ target = "OpenValidityControl" /\ c = 1
                       /\ open_sample(s).opened => open_sample(s).plaintext = s.base.payload
            /\ \A i \in 1..Len(results) :
                   /\ target = "M1VerifyMismatchPosition" => results[i] = {}
                   /\ target = "PositiveControl" =>
                          (results[i] = {} <=> classes[i] = 0)

(* docs/TIMING_CHARACTERIZATION.md: batches are exactly balanced and one   *)
(* warm-up batch is discarded.  So no class ever has more measurements     *)
(* than half of each statistics batch, the other tests count a subset of   *)
(* the raw one, a looser percentile counts what a tighter one counts, and  *)
(* leakage is reported only by a campaign long enough.                     *)
EvidenceGrounded ==
    /\ \A c \in 0..1 : /\ 2 * tests[0][c] <= batch * measurements
                       /\ \A t \in Tests : tests[t][c] <= tests[0][c]
                       /\ \A t \in 2..NumberPercentiles : tests[t - 1][c] <= tests[t][c]
    /\ tests[Second] # NoCount => tests[0][0] > Enough
    /\ summary.leakage => /\ batches * measurements > 2 * Enough
                          /\ \A c \in 0..1 : tests[0][c] > Enough
=============================================================================
