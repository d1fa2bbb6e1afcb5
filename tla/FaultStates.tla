----------------------------- MODULE FaultStates -----------------------------
(***************************************************************************)
(* analysis/fault_injection_campaign.cpp, the C1 state faults: one bit of  *)
(* the working state is flipped before the finalization, and what becomes  *)
(* of it is measured.                                                      *)
(*                                                                         *)
(* Two runs of the finalizer are modelled by their difference: the bit     *)
(* distance of the working states at each recorded stage and the bits in   *)
(* which the output bytes differ.  Every difference is considered that the *)
(* following facts allow: equal states have equal futures, and a flipped   *)
(* cube bit never disappears, for moves permute the cells                  *)
(* (HistogramPreserved of module CubeWalk).                                *)
(***************************************************************************)
EXTENDS Naturals, Sequences, FiniteSets

CONSTANTS RegionBits,     \* bits of cube, axis, amount, feedback, transcript
          BindingBytes,   \* kFinalizationBindingBytes: 16
          CanonicalBytes, \* kCanonicalOutputBytes: 32
          ExtendedBytes,  \* kExtendedOutputBytes: 64
          ByteBits,       \* bits of a byte: 8
          NoIndex         \* kNoIndex, the largest std::size_t

ASSUME StageAssumption == /\ BindingBytes \in Nat /\ ExtendedBytes \in Nat
                          /\ ByteBits \in Nat \ {0}
                          /\ CanonicalBytes \in 1..ExtendedBytes
                          /\ NoIndex \in Nat
                          /\ NoIndex > 2 + BindingBytes + ExtendedBytes * ByteBits

(* An overlap is printed in parts of a million.                            *)
Million == 1000000

(* The cube has bits, and fewer of them than an overlap has parts.         *)
ASSUME RegionAssumption == /\ \A r \in 1..5 : RegionBits[r] \in Nat
                           /\ RegionBits[1] > 0 /\ RegionBits[1] <= Million

Least(S) == CHOOSE n \in S : \A m \in S : n <= m
Greatest(S) == CHOOSE n \in S : \A m \in S : m <= n
When(condition, e) == IF condition THEN {e} ELSE {}

-----------------------------------------------------------------------------
(* The modelled bits are numbered region after region.                     *)
RegionEnd == [r \in 1..5 |-> RegionBits[1] + (IF r > 1 THEN RegionBits[2] ELSE 0)
                + (IF r > 2 THEN RegionBits[3] ELSE 0)
                + (IF r > 3 THEN RegionBits[4] ELSE 0)
                + (IF r > 4 THEN RegionBits[5] ELSE 0)]

StateBits == 0..(RegionEnd[5] - 1)
CubeBits  == 0..(RegionBits[1] - 1)

state_region(bit) == Least({r \in 1..5 : bit < RegionEnd[r]})

-----------------------------------------------------------------------------
(* StateDistance, with the values that the diagnosis tells apart.          *)
Distance(cube, controller, metadata) ==
    [cube |-> cube, controller |-> controller, metadata |-> metadata]
Total(d) == d.cube + d.controller + d.metadata

Same == Distance(0, 0, 0)

(* flip_c1_state_bit: the distance at the entry of the finalizer when the  *)
(* flipped bit is one of the cube, or one of the controller.               *)
Entry(in_cube) == IF in_cube THEN Distance(1, 0, 0) ELSE Distance(0, 1, 0)

Later(in_cube) == IF in_cube
                  THEN {Distance(1, 0, 0), Distance(2, 0, 0), Distance(2, 1, 1)}
                  ELSE {Distance(0, 1, 0), Distance(2, 1, 1), Same}

(* Stage 0 is the entry, 1 the finalization domain, then one stage for     *)
(* each bound byte, the squeeze domain, and one for each output byte.      *)
SqueezeStage == 2 + BindingBytes
LastStage    == SqueezeStage + ExtendedBytes

(* trace_finalization of the canonical and of the faulted state.  Output   *)
(* byte i is read from the state of stage SqueezeStage + i.                *)
TracesOf(in_cube) ==
    LET stages == {s \in [0..LastStage -> Later(in_cube)] :
                      /\ s[0] = Entry(in_cube)
                      /\ \A k \in 1..LastStage : s[k - 1] = Same => s[k] = Same}
        outputs == [0..(ExtendedBytes - 1) -> SUBSET (0..(ByteBits - 1))]
    IN  {t \in [stages : stages, output : outputs] :
            \A i \in 0..(ExtendedBytes - 1) :
                t.stages[SqueezeStage + i] = Same => t.output[i] = {}}

Traces == [in_cube \in BOOLEAN |-> TracesOf(in_cube)]

(* The positions in which the first n output bytes differ.                 *)
ChangedBits(t, n) ==
    {p \in 0..(n * ByteBits - 1) : (p % ByteBits) \in t.output[p \div ByteBits]}

FirstOf(S) == IF S = {} THEN NoIndex ELSE Least(S)

first_changed_byte(t) == FirstOf({i \in DOMAIN t.output : t.output[i] # {}})
first_controller_stage(t) ==
    FirstOf({s \in DOMAIN t.stages : t.stages[s].controller # 0})
first_non_single_stage(t) ==
    FirstOf({s \in DOMAIN t.stages : Total(t.stages[s]) # 1})

MutantSingleBit(t, output_byte) ==
    \A s \in 0..(SqueezeStage - 1) : Total(t.stages[s]) = 1

remains_single_bit_until_output(t, output_byte) ==
    \A s \in 0..(SqueezeStage + output_byte) : Total(t.stages[s]) = 1

(* DiagnosticRecord of a retained fault: at most one bit of the tag.       *)
Record(t, in_cube, tag_bytes) ==
    LET prefix == ChangedBits(t, tag_bytes)
        first  == first_changed_byte(t)
    IN  [in_cube |-> in_cube,
         prefix_distance |-> Cardinality(prefix),
         full_distance |-> Cardinality(ChangedBits(t, CanonicalBytes)),
         extended_distance |-> Cardinality(ChangedBits(t, ExtendedBytes)),
         first_changed_byte |-> first,
         changed_prefix_bit |-> FirstOf(prefix),
         first_controller_stage |-> first_controller_stage(t),
         first_non_single_stage |-> first_non_single_stage(t),
         single_bit_until_first_output |->
             remains_single_bit_until_output(
                 t, IF first = NoIndex THEN ExtendedBytes - 1 ELSE first)]

Retained(in_cube, tag_bytes) ==
    {Record(t, in_cube, tag_bytes) :
        t \in {u \in Traces[in_cube] : Cardinality(ChangedBits(u, tag_bytes)) <= 1}}

-----------------------------------------------------------------------------
(* DistanceStats and observe.                                              *)
NoStats == [attempts |-> 0, unchanged |-> 0, one_bit |-> 0, distance_sum |-> 0,
            minimum |-> NoIndex, maximum |-> 0]

observe(stats, distance) ==
    [attempts  |-> stats.attempts + 1,
     unchanged |-> stats.unchanged + (IF distance = 0 THEN 1 ELSE 0),
     one_bit   |-> stats.one_bit + (IF distance = 1 THEN 1 ELSE 0),
     distance_sum |-> stats.distance_sum + distance,
     minimum |-> Least({stats.minimum, distance}),
     maximum |-> Greatest({stats.maximum, distance})]

(* DiagnosticAggregate: its counters, and the ones a record increases.     *)
ControllerCounters == {"finalization_entry", "binding", "squeeze_entry",
                       "squeeze", "never"}
Counters == {"count", "full_unchanged", "full_one_bit", "extended_unchanged",
             "extended_one_bit", "first_change_after_prefix",
             "no_change_in_extended", "single_bit_until_first_output",
             "non_cube"} \cup ControllerCounters

NoAggregate == [c \in Counters |-> 0]

controller_counter(stage) ==
    CASE stage = 1                    -> "finalization_entry"
      [] stage \in 2..(SqueezeStage - 1) -> "binding"
      [] stage = SqueezeStage         -> "squeeze_entry"
      [] stage = NoIndex              -> "never"
      [] OTHER                        -> "squeeze"

Increased(r, tag_bytes) ==
    {"count", controller_counter(r.first_controller_stage)}
      \cup When(r.full_distance = 0, "full_unchanged")
      \cup When(r.full_distance = 1, "full_one_bit")
      \cup When(r.extended_distance = 0, "extended_unchanged")
      \cup When(r.extended_distance = 1, "extended_one_bit")
      \cup When(r.first_changed_byte = NoIndex, "no_change_in_extended")
      \cup When(r.first_changed_byte # NoIndex /\ r.first_changed_byte >= tag_bytes,
                "first_change_after_prefix")
      \cup When(r.single_bit_until_first_output, "single_bit_until_first_output")
      \cup When(~r.in_cube, "non_cube")

observe_diagnostic(aggregate, r, tag_bytes) ==
    [c \in Counters |->
        aggregate[c] + (IF c \in Increased(r, tag_bytes) THEN 1 ELSE 0)]

-----------------------------------------------------------------------------
(* print_family_overlap for the sets of the cases of a family.             *)
MutantJaccard(a, b) ==
    IF b = {} THEN 0 ELSE (Cardinality(a \cap b) * Million) \div Cardinality(b)

Jaccard(a, b) == (Cardinality(a \cap b) * Million) \div Cardinality(a \cup b)

Overlap(sets) ==
    LET pairs == {q \in (DOMAIN sets) \X (DOMAIN sets) :
                     q[1] < q[2] /\ sets[q[1]] \cup sets[q[2]] # {}}
        ppm   == {Jaccard(sets[q[1]], sets[q[2]]) : q \in pairs}
    IN  [intersection |-> {b \in CubeBits : \A i \in DOMAIN sets : b \in sets[i]},
         combined |-> UNION {sets[i] : i \in DOMAIN sets},
         pair_count |-> Cardinality(pairs),
         pair_min_ppm |-> IF pairs = {} THEN 0 ELSE Least(ppm),
         pair_max_ppm |-> IF pairs = {} THEN 0 ELSE Greatest(ppm)]
=============================================================================
