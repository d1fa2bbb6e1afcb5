-------------------------- MODULE StreamFrameAudit ---------------------------
(***************************************************************************)
(* analysis/streamframe_domain_audit.cpp: pairs of related stream frames,  *)
(* a census of outputs and Walsh spectra of output bits, with an alarm for *)
(* two equal outputs and for an affine output bit.                         *)
(*                                                                         *)
(* A stream frame is the nonce, counter and tag size it is injectively     *)
(* made of (StreamFrameInjective of AeadFunctionsProof); a nonce is a      *)
(* random draw and the bits flipped in it.  The audited function is ideal  *)
(* but may ignore one component of its frame.  Each output bit of a Walsh  *)
(* trial is any Boolean function that is equal on equal outputs.  The      *)
(* printed statistics and the pseudo-random control, which raise no alarm, *)
(* are left out.                                                           *)
(***************************************************************************)
EXTENDS Integers, Sequences, FiniteSets

CONSTANTS Configs,           \* <<samples, walsh variables, walsh trials>> given
          NonceBits,         \* 192
          CounterBits,       \* 59, of kMaximumPayloadCounter
          MinSamples,        \* 256
          MaxVariables,      \* 16
          CountersPerNonce,  \* kCountersPerNonce
          CensusNonces,      \* kCensusNonces
          OutputBits,        \* kOutputBits
          TagSizes

ASSUME AuditAssumption == /\ NonceBits \in Nat /\ CounterBits \in Nat
                          /\ NonceBits < MinSamples
                          /\ MaxVariables <= NonceBits /\ MaxVariables <= CounterBits
                          /\ CountersPerNonce > 0 /\ CensusNonces > 0
                          /\ OutputBits > 0

VARIABLES config,    \* the arguments
          ignored,   \* the component that the audited function ignores
          phase,     \* the loop of main that runs
          sample,    \* its loop counter; in the Walsh phase, the trial
          alarms,
          seen,      \* cross_profile_outputs
          candidate, \* candidate_outputs; <<>> between trials
          output_bit,\* the loop counter of measure_walsh_trial
          spectrum,  \* the vector under transformation; <<>> between bits
          length, at,\* fwht: butterfly `at` of the pass with this length
          bit,       \* history: the output bit that is transformed
          affine,    \* history: some transformed bit was affine
          code       \* main's return value, or -1

walsh == <<candidate, output_bit, spectrum, length, at, bit, affine>>
vars == <<config, ignored, phase, sample, alarms, seen, walsh, code>>

samples == config[1]
variables == config[2]
trials == config[3]

MutantValidConfig ==
    /\ samples >= CountersPerNonce
    /\ variables >= 2 /\ variables <= MaxVariables
    /\ trials # 0

(* parse_config *)
ValidConfig == /\ samples >= MinSamples
               /\ variables >= 2 /\ variables <= MaxVariables
               /\ trials # 0

-----------------------------------------------------------------------------
Nonce(draw, flipped) == [draw |-> draw, flipped |-> flipped]
Frame(nonce, counter, tag_size) == <<nonce, counter, tag_size>>

Bit(n, k) == (n \div 2^k) % 2

(* evaluate_frame, of a C1 that ignores one component.                     *)
evaluate_frame(frame) ==
    LET n == frame[1]  c == frame[2] IN
    CASE ignored[1] = "nonce"   -> <<Nonce(n.draw, n.flipped \ {ignored[2]}), c, frame[3]>>
      [] ignored[1] = "counter" -> <<n, c - 2^ignored[2] * Bit(c, ignored[2]), frame[3]>>
      [] ignored[1] = "tag"     -> <<n, c, "any">>
      [] OTHER                  -> frame

(* The pairs one sample of a differential family compares, for each tag    *)
(* size or pair of tag sizes.                                              *)
Pairs(family, s) ==
    LET counter == s % CountersPerNonce
        nonce   == Nonce(<<family, s \div CountersPerNonce>>, {})
        own     == Nonce(<<family, s>>, {})
        low     == 2^(s % CounterBits)
    IN  CASE family = "adjacent" ->
               {<<Frame(nonce, counter, t), Frame(nonce, counter + 1, t)>> : t \in TagSizes}
          [] family = "nonce_bit" ->
               {<<Frame(own, counter, t),
                  Frame([own EXCEPT !.flipped = {s % NonceBits}], counter, t)>>
                  : t \in TagSizes}
          [] family = "counter_weight" ->
               {<<Frame(own, low, t), Frame(own, 2^CounterBits - 1 - low, t)>>
                  : t \in TagSizes}
          [] family = "tag_relation" ->
               {<<Frame(nonce, counter, q[1]), Frame(nonce, counter, q[2])>>
                  : q \in {r \in TagSizes \X TagSizes : r[1] < r[2]}}

Families == <<"adjacent", "nonce_bit", "counter_weight", "tag_relation">>

Census(s) == {Frame(Nonce(<<"census", s % CensusNonces>>, {}), s \div CensusNonces, t)
                : t \in TagSizes}

-----------------------------------------------------------------------------
Strata == <<"nonce-spread", "counter-low", "mixed">>

choose_variables(family, count) ==
    LET spread(i, n) == <<"nonce", (i * NonceBits) \div n>>
        half == count \div 2
    IN  CASE family = "nonce-spread" -> [i \in 0..(count - 1) |-> spread(i, count)]
          [] family = "counter-low"  -> [i \in 0..(count - 1) |-> <<"counter", i>>]
          [] family = "mixed"        -> [i \in 0..(count - 1) |->
                 IF i < half THEN spread(i, half) ELSE <<"counter", i - half>>]

(* The flips of apply_walsh_mask: a variable chosen twice is flipped back. *)
Flipped(chosen, mask, kind) ==
    LET hits(b) == {i \in DOMAIN chosen : chosen[i] = <<kind, b>> /\ Bit(mask, i) = 1}
    IN  {b \in 0..(NonceBits + CounterBits) : Cardinality(hits(b)) % 2 = 1}

(* The frame of a mask; the counter variables are clear in base_counter.   *)
WalshFrame(stratum, trial, base_counter, mask) ==
    LET chosen == choose_variables(Strata[stratum], variables)
        low(b) == IF b \in Flipped(chosen, mask, "counter") THEN 2^b ELSE 0
        RaisedBy[b \in 0..CounterBits] ==
            IF b = 0 THEN 0 ELSE RaisedBy[b - 1] + low(b - 1)
    IN  Frame(Nonce(<<"walsh", stratum, trial>>, Flipped(chosen, mask, "nonce")),
              base_counter + RaisedBy[CounterBits], stratum)

Counters(stratum) ==
    LET chosen == choose_variables(Strata[stratum], variables)
    IN  {c \in 0..(2^CounterBits - 1) :
            \A b \in 0..(CounterBits - 1) :
                (\E i \in DOMAIN chosen : chosen[i] = <<"counter", b>>) => Bit(c, b) = 0}

(* candidate_outputs, for every base counter that may be drawn.            *)
TrialOutputs(stratum, trial) ==
    {[m \in 0..(2^variables - 1) |->
        evaluate_frame(WalshFrame(stratum, trial, base_counter, m))]
            : base_counter \in Counters(stratum)}

-----------------------------------------------------------------------------
Points == 2^variables
Masks  == 0..(Points - 1)

(* Butterfly number k of the pass with length h: base and offset.          *)
Left(h, k) == (k \div h) * 2 * h + (k % h)

MutantButterfly(v, h, k) ==
    LET i == Left(h, k)  j == i + h
    IN  [v EXCEPT ![i] = v[i] + v[j], ![j] = v[j] - v[i]]

Butterfly(v, h, k) ==
    LET i == Left(h, k)  j == i + h
    IN  [v EXCEPT ![i] = v[i] + v[j], ![j] = v[i] - v[j]]

Abs(n) == IF n < 0 THEN -n ELSE n
MaximumCorrelation(v) ==
    LET m == CHOOSE m \in DOMAIN v : \A n \in DOMAIN v : Abs(v[n]) <= Abs(v[m])
    IN  Abs(v[m])

-----------------------------------------------------------------------------
Init == /\ config \in Configs
        /\ ignored \in {<<"nothing">>, <<"tag">>}
               \cup {<<"nonce", b>> : b \in 0..(NonceBits - 1)}
               \cup {<<"counter", b>> : b \in 0..(CounterBits - 1)}
        /\ phase = 0 /\ sample = 0
        /\ alarms = 0 /\ seen = {}
        /\ candidate = <<>> /\ output_bit = 0
        /\ spectrum = <<>> /\ length = 1 /\ at = 0
        /\ bit = <<>> /\ affine = FALSE
        /\ code = -1

Return(c) == /\ code' = c
             /\ UNCHANGED <<config, ignored, phase, sample, alarms, seen, walsh>>

RejectConfig == phase = 0 /\ code = -1 /\ ~ValidConfig /\ Return(1)

Enter == /\ phase = 0 /\ code = -1 /\ ValidConfig
         /\ phase' = 1
         /\ UNCHANGED <<config, ignored, sample, alarms, seen, walsh, code>>

(* The next value of the loop counter, and the next loop after the last.   *)
Advance(last) ==
    IF sample + 1 < last THEN sample' = sample + 1 /\ UNCHANGED phase
                         ELSE sample' = 0 /\ phase' = phase + 1

(* run_differential_campaign *)
ComparePairs ==
    /\ phase \in 1..4
    /\ alarms' = alarms + Cardinality({q \in Pairs(Families[phase], sample) :
                                          evaluate_frame(q[1]) = evaluate_frame(q[2])})
    /\ Advance(samples)
    /\ UNCHANGED <<config, ignored, seen, walsh, code>>

(* run_output_census: an output that is not new is a collision.            *)
CensusSample ==
    LET outputs == {evaluate_frame(f) : f \in Census(sample)} IN
    /\ phase = 5
    /\ alarms' = alarms + Cardinality(Census(sample)) - Cardinality(outputs \ seen)
    /\ seen' = IF sample + 1 = samples THEN {} ELSE seen \cup outputs
    /\ Advance(samples)
    /\ UNCHANGED <<config, ignored, walsh, code>>

(* run_walsh_stratum: the outputs of a trial, and their collisions.        *)
WalshTrial ==
    /\ phase \in 6..8 /\ candidate = <<>>
    /\ candidate' \in TrialOutputs(phase - 5, sample)
    /\ alarms' = alarms + Points - Cardinality({candidate'[m] : m \in Masks})
    /\ UNCHANGED <<config, ignored, phase, sample, seen, output_bit, spectrum,
                   length, at, bit, affine, code>>

(* The vector of one bit of the outputs, which is the same on equal ones.  *)
SelectBit ==
    /\ candidate # <<>> /\ spectrum = <<>>
    /\ \E f \in [{candidate[m] : m \in Masks} -> {0, 1}] :
          bit' = [m \in Masks |-> f[candidate[m]]]
    /\ spectrum' = [m \in Masks |-> IF bit'[m] = 1 THEN -1 ELSE 1]
    /\ length' = 1 /\ at' = 0
    /\ UNCHANGED <<config, ignored, phase, sample, alarms, seen, candidate,
                   output_bit, affine, code>>

(* fwht: the innermost loop body.                                          *)
Fwht ==
    /\ spectrum # <<>> /\ length < Points
    /\ spectrum' = Butterfly(spectrum, length, at)
    /\ IF at + 1 < Points \div 2 THEN at' = at + 1 /\ UNCHANGED length
                                 ELSE at' = 0 /\ length' = 2 * length
    /\ UNCHANGED <<config, ignored, phase, sample, alarms, seen, candidate,
                   output_bit, bit, affine, code>>

IsAffine(f) ==
    \E m \in Masks, c \in {0, 1} :
        \A x \in Masks :
            f[x] = (c + Cardinality({i \in 0..(variables - 1) :
                                        Bit(m, i) = 1 /\ Bit(x, i) = 1})) % 2

(* measure_walsh_trial: the end of the loop body, and of the trial.        *)
Measure ==
    /\ spectrum # <<>> /\ length = Points
    /\ alarms' = alarms + (IF MaximumCorrelation(spectrum) = Points THEN 1 ELSE 0)
    /\ affine' = (affine \/ IsAffine(bit))
    /\ spectrum' = <<>> /\ bit' = <<>> /\ length' = 1 /\ at' = 0
    /\ IF output_bit + 1 < OutputBits
       THEN output_bit' = output_bit + 1 /\ UNCHANGED <<candidate, phase, sample>>
       ELSE output_bit' = 0 /\ candidate' = <<>> /\ Advance(trials)
    /\ UNCHANGED <<config, ignored, seen, code>>

Exit == phase = 9 /\ code = -1 /\ Return(IF alarms = 0 THEN 0 ELSE 2)

Ended == code # -1 /\ UNCHANGED vars

Next == \/ RejectConfig \/ Enter \/ ComparePairs \/ CensusSample \/ WalshTrial
        \/ SelectBit \/ Fwht \/ Measure \/ Exit \/ Ended

Spec == Init /\ [][Next]_vars

-----------------------------------------------------------------------------
(* What the accepted numbers of samples and variables leave unexamined:    *)
(* counter bits above the counters of the census and the Walsh variables.  *)
Unexamined == {<<"nothing">>}
    \cup {<<"counter", b>> : b \in {k \in 0..(CounterBits - 1) :
              k >= variables /\ 2^k > (samples - 1) \div CensusNonces}}

(* The audit is exact: an accepted configuration returns 0 if and only if  *)
(* the function ignores nothing, or a counter bit that no pair, sample or  *)
(* mask sets alone, and no examined bit is affine.  In particular an       *)
(* injective function never raises an alarm, and no ignored nonce bit or   *)
(* tag size escapes.                                                       *)
AuditExact ==
    /\ code = 0 => ignored \in Unexamined /\ ~affine
    /\ code = 2 => ignored \notin Unexamined \/ affine

(* When the in-place passes of fwht are done, coefficient m is the         *)
(* correlation of the bit with the linear function of mask m, so that the  *)
(* nonlinearity count/2 - max/2 does not wrap and the largest coefficient  *)
(* is the number of points exactly for an affine bit.                      *)
WalshExact ==
    spectrum # <<>> /\ length = Points =>
        /\ \A m \in Masks :
              spectrum[m] = 2 * Cardinality({x \in Masks :
                  bit[x] = Cardinality({i \in 0..(variables - 1) :
                               Bit(m, i) = 1 /\ Bit(x, i) = 1}) % 2}) - Points
        /\ MaximumCorrelation(spectrum) \div 2 <= Points \div 2
        /\ MaximumCorrelation(spectrum) = Points <=> IsAffine(bit)
=============================================================================
