---------------------------- MODULE FaultCampaign ----------------------------
(***************************************************************************)
(* analysis/fault_injection_campaign.cpp: main, the packet faults (tag,    *)
(* comparison, length, branch, counter and nonce) on the ideal A1 of       *)
(* module AeadFunctions, and the campaigns over the state faults of module *)
(* FaultStates.                                                            *)
(*                                                                         *)
(* Each test is a loop over profiles (tag sizes) and, for each of them,    *)
(* over faults; one step of the model injects one fault.  C1 being ideal,  *)
(* the distance of two byte strings is counted in bytes in the packet      *)
(* tests.  The two families of the diagnosis are two tests here: neither   *)
(* has state in common with the other.                                     *)
(***************************************************************************)
EXTENDS AeadFunctions, FaultStates

CONSTANTS LengthBits,     \* flipped bits of the tag length: 6
          CounterBits,    \* flipped bits of the block counter: 64
          CasesPerProfile,\* kReplicationCasesPerProfile: 8, for each campaign
          ExpectedSilent, ExpectedOneBit  \* per profile, of the diagnosis

VARIABLES mode, step, profile, item,    \* the loops of main and of the test
          count,          \* the counters of the running test
          stats,          \* DistanceStats of the running test or profile
          silent, one_bit,\* DiagnosticAggregates; sets of bits of a family
          candidates,     \* the one-bit candidates; the cases of a family
          unchanged_by_region, \* StateLocalization
          last,           \* history: the last fault, and what came of it
          verdict         \* "running" | "passed" | "failed"

vars == <<mode, step, profile, item, count, stats, silent, one_bit, candidates,
          unchanged_by_region, last, verdict>>

-----------------------------------------------------------------------------
Modes == {"default", "--localize", "--replicate", "--diagnose", "--map", "unknown"}

Tests(m) ==
    CASE m \in {"default", "--localize"} ->
             <<"tag_bits", "comparison_skip", "length_pre", "length_post",
               "branch_skip", "counter", "nonce", "stream_state", "mac_state">>
      [] m = "--replicate" -> <<"replication">>
      [] m = "--diagnose"  -> <<"diagnosis", "nonce_family", "key_family">>
      [] m = "--map"       -> <<"diagnosis">>
      [] OTHER             -> <<>>

Test == Tests(mode)[step]
Profiles == Cardinality(TagSizes)
TagBytes(p) == CHOOSE t \in TagSizes : Cardinality({u \in TagSizes : u <= t}) = p

-----------------------------------------------------------------------------
(* make_case: different keys, three blocks of plaintext, and the packet.   *)
Data(name, n) == [i \in 1..n |-> Const(<<name, i>>)]

make_case(tag_size) ==
    LET keys == [encryption_key |-> "e", authentication_key |-> "a"]
        c    == [keys |-> keys, nonce |-> Data("nonce", NonceBytes),
                 associated_data |-> Data("ad", 2),
                 plaintext |-> Data("plaintext", 3 * BlockSize)]
    IN  [case |-> c, tag_size |-> tag_size,
         sealed |-> seal(keys, c.nonce, c.associated_data, c.plaintext, tag_size)]

Cases == [p \in 1..Profiles |-> make_case(TagBytes(p))]
Case  == Cases[profile].case
Sealed == Cases[profile].sealed

mac_frame_for_case(c) ==
    frame_message(frame_authentication_context(c.case.nonce, c.case.associated_data,
                                               c.tag_size),
                  c.sealed.ciphertext, c.tag_size)

(* The round trip that make_case requires, and the tag that the state      *)
(* tests require.                                                          *)
Baseline ==
    \A p \in 1..Profiles :
        LET c == Cases[p].case
            s == Cases[p].sealed
        IN  /\ open(c.keys, c.nonce, c.associated_data, s.ciphertext, s.tag)
                  = [opened |-> TRUE, plaintext |-> c.plaintext]
            /\ s.tag = Prefix(C1(c.keys.authentication_key, mac_frame_for_case(Cases[p])),
                              Cases[p].tag_size)

OpenCase(nonce, ad, ciphertext, tag) == open(Case.keys, nonce, ad, ciphertext, tag)

FlipBit(s, n) == LET i == 1 + (n \div ByteBits)
                 IN  [s EXCEPT ![i] = Xor(@, {[bit |-> n % ByteBits]})]
FlipPower(n, b) == IF (n \div 2^b) % 2 = 0 THEN n + 2^b ELSE n - 2^b

(* Packets of three blocks, with lengths and counters of 64 bits; the tag  *)
(* sizes are those of the profiles, and a C1 output is a block.            *)
ASSUME PacketAssumption ==
    /\ TagSizes # {} /\ NonceBytes > 0 /\ CanonicalBytes = BlockSize
    /\ LengthBits \in Nat /\ CounterBits \in Nat \ {0}
    /\ 3 * BlockSize \in U64 /\ NonceBytes + 15 \in U64
    /\ \A block \in 0..2, bit \in 0..(CounterBits - 1) : FlipPower(block, bit) \in U64
    /\ \A test \in DOMAIN CasesPerProfile : CasesPerProfile[test] \in Nat

(* comparison_model: the loop over the first `length` bytes but `skipped`. *)
comparison_model(expected, supplied, length, skipped) ==
    \A i \in (1..length) \ skipped : expected[i] = supplied[i]

(* apply_stream with the counter of one block changed.                     *)
MutantApplyStream(nonce, input, tag_size, faulted_block, bit) ==
    [j \in 1..Len(input) |->
        LET block   == (j - 1) \div BlockSize
            counter == IF block >= faulted_block THEN FlipPower(block, bit) ELSE block
        IN  Xor(input[j], C1("e", frame_stream_block(nonce, counter, tag_size))
                              [1 + ((j - 1) % BlockSize)])]

apply_stream(nonce, input, tag_size, faulted_block, bit) ==
    [j \in 1..Len(input) |->
        LET block   == (j - 1) \div BlockSize
            counter == IF block = faulted_block THEN FlipPower(block, bit) ELSE block
        IN  Xor(input[j], C1("e", frame_stream_block(nonce, counter, tag_size))
                              [1 + ((j - 1) % BlockSize)])]

Damage(output) == {j \in 1..Len(output) : output[j] # Case.plaintext[j]}

-----------------------------------------------------------------------------
(* What fault number n (from 0) of a packet test does: which attempts the  *)
(* canonical open and the faulted model accept, and where the plaintext    *)
(* that is released differs from the original.                             *)
Outcome(accepted, bypassed, damage) ==
    [accepted |-> accepted.opened, bypassed |-> bypassed, damage |-> damage]

TagOutcome(tag, bypassed) ==
    Outcome(OpenCase(Case.nonce, Case.associated_data, Sealed.ciphertext, tag),
            bypassed, {})

(* test_tag_and_mac_result_bits: a flipped supplied tag to open, and a     *)
(* flipped expected tag to the comparison.                                 *)
TagBit(n) ==
    LET flipped == FlipBit(Sealed.tag, n)
    IN  TagOutcome(flipped, comparison_model(flipped, Sealed.tag, Len(flipped), {}))

test_comparison_skip(n) ==
    LET supplied == FlipBit(Sealed.tag, n * ByteBits)
    IN  TagOutcome(supplied,
                   comparison_model(Sealed.tag, supplied, Len(supplied), {n + 1}))

(* The tag is cut or filled with zeros to a length with one bit flipped.   *)
LengthPre(n) ==
    LET length == FlipPower(Len(Sealed.tag), n)
    IN  TagOutcome([i \in 1..length |->
                       IF i <= Len(Sealed.tag) THEN Sealed.tag[i] ELSE Octet(0)], FALSE)

(* The middle profile loses its last byte to a comparison of the length of *)
(* the shortest one, the others compare nothing.                           *)
LengthPost(n) ==
    LET middle == profile = 2
        at     == IF middle THEN Len(Sealed.tag) - 1 ELSE 0
        supplied == FlipBit(Sealed.tag, at * ByteBits)
    IN  TagOutcome(supplied, comparison_model(
            Sealed.tag, supplied, IF middle THEN TagBytes(1) ELSE 0, {}))

test_authentication_branch_skip(n) ==
    LET alter(v, s) == IF n = v THEN FlipBit(s, 0) ELSE s
        tag        == alter(0, Sealed.tag)
        ciphertext == alter(1, Sealed.ciphertext)
        nonce      == alter(2, Case.nonce)
        ad         == alter(3, Case.associated_data)
    IN  Outcome(OpenCase(nonce, ad, ciphertext, tag), TRUE,
                Damage(apply_stream(nonce, ciphertext, Len(tag), NoIndex, 0)))

(* test_post_authentication_faults *)
CounterFault(n) ==
    Outcome(NullOpt, FALSE,
            Damage(apply_stream(Case.nonce, Sealed.ciphertext, Len(Sealed.tag),
                                n \div CounterBits, n % CounterBits)))

NonceFault(n) ==
    Outcome(NullOpt, FALSE,
            Damage(apply_stream(FlipBit(Case.nonce, n), Sealed.ciphertext,
                                Len(Sealed.tag), NoIndex, 0)))

PacketFault(test, n) ==
    CASE test = "tag_bits"        -> TagBit(n)
      [] test = "comparison_skip" -> test_comparison_skip(n)
      [] test = "length_pre"      -> LengthPre(n)
      [] test = "length_post"     -> LengthPost(n)
      [] test = "branch_skip"     -> test_authentication_branch_skip(n)
      [] test = "counter"         -> CounterFault(n)
      [] test = "nonce"           -> NonceFault(n)

PacketTests == {"tag_bits", "comparison_skip", "length_pre", "length_post",
                "branch_skip", "counter", "nonce"}

(* How many faults a test injects for profile p.                           *)
Items(test, p) ==
    LET last_only == test \in {"counter", "nonce", "stream_state"} IN
    IF last_only /\ p < Profiles THEN 0 ELSE
    CASE test = "tag_bits"        -> ByteBits * TagBytes(p)
      [] test = "comparison_skip" -> TagBytes(p)
      [] test = "length_pre"      -> LengthBits
      [] test = "length_post"     -> 1
      [] test = "branch_skip"     -> 4
      [] test = "counter"         -> 3 * CounterBits
      [] test = "nonce"           -> ByteBits * NonceBytes
      [] test \in {"stream_state", "mac_state"} -> Cardinality(StateBits)
      [] test \in {"replication", "diagnosis"} ->
             CasesPerProfile[test] * Cardinality(StateBits)
      [] OTHER                    -> CasesPerProfile[test]

-----------------------------------------------------------------------------
NoCount == [attempts |-> 0, acceptances |-> 0, bypasses |-> 0,
            cases_with_unchanged |-> {}, cases_with_one_bit |-> {}]
NoRegion == [r \in 1..5 |-> 0]
NoLast  == [test |-> "none"]

Init == /\ mode \in Modes
        /\ step = 1 /\ profile = 1 /\ item = 0
        /\ count = NoCount /\ stats = NoStats
        /\ silent = NoAggregate /\ one_bit = NoAggregate
        /\ candidates = <<>> /\ unchanged_by_region = NoRegion
        /\ last = NoLast
        /\ verdict = IF mode = "unknown" \/ ~Baseline THEN "failed" ELSE "running"

Running(tests) == /\ verdict = "running" /\ step <= Len(Tests(mode))
                  /\ Test \in tests
                  /\ item < Items(Test, profile)
                  /\ item' = item + 1
                  /\ UNCHANGED <<mode, step, profile, verdict>>

InjectPacketFault ==
    /\ Running(PacketTests)
    /\ LET o == PacketFault(Test, item)
           one(b) == IF b THEN 1 ELSE 0
       IN  /\ count' = [count EXCEPT !.attempts = @ + 1,
                                     !.acceptances = @ + one(o.accepted),
                                     !.bypasses = @ + one(o.bypassed)]
           /\ stats' = IF Test \in {"counter", "nonce"}
                       THEN observe(stats, Cardinality(o.damage)) ELSE stats
           /\ last' = [test |-> Test, n |-> item, damage |-> o.damage]
    /\ UNCHANGED <<silent, one_bit, candidates, unchanged_by_region>>

StateBit == item % Cardinality(StateBits)

(* localize_state_fault, for the two tests with --localize.                *)
localize_state_fault(changed) ==
    LET distance == Cardinality(changed) IN
    /\ candidates' = IF distance = 1 /\ mode = "--localize"
                     THEN Append(candidates, <<StateBit, FirstOf(changed)>>) ELSE candidates
    /\ unchanged_by_region' =
          IF distance = 0 /\ mode = "--localize"
          THEN [unchanged_by_region EXCEPT ![state_region(StateBit)] = @ + 1]
          ELSE unchanged_by_region

(* Flipped bits of an output of n bytes.                                   *)
Changes(n) == SUBSET (0..(n * ByteBits - 1))

(* State faults of which only the output is looked at: the whole output in *)
(* a stream, the prefix that is the tag in a MAC.                          *)
test_c1_stream_state_faults ==
    /\ Running({"stream_state"})
    /\ \E changed \in Changes(CanonicalBytes) :
          stats' = observe(stats, Cardinality(changed)) /\ localize_state_fault(changed)
    /\ UNCHANGED <<count, silent, one_bit, last>>

test_c1_mac_state_faults ==
    /\ Running({"mac_state"})
    /\ \E changed \in Changes(TagBytes(profile)) :
          stats' = observe(stats, Cardinality(changed)) /\ localize_state_fault(changed)
    /\ UNCHANGED <<count, silent, one_bit, last>>

(* The same over several cases, each of which is counted once.             *)
test_c1_mac_state_replication ==
    /\ Running({"replication"})
    /\ \E changed \in Changes(TagBytes(profile)) :
          LET distance == Cardinality(changed)
              number   == item \div Cardinality(StateBits)
          IN  /\ stats' = observe(stats, distance)
              /\ candidates' = IF distance = 1
                               THEN Append(candidates, <<number, StateBit, FirstOf(changed)>>)
                               ELSE candidates
              /\ count' = [count EXCEPT
                    !.cases_with_unchanged = @ \cup When(distance = 0, number),
                    !.cases_with_one_bit   = @ \cup When(distance = 1, number)]
    /\ UNCHANGED <<silent, one_bit, unchanged_by_region, last>>

Findings == [p \in 1..Profiles |->
                [in_cube \in BOOLEAN |-> Retained(in_cube, TagBytes(p))]]

(* A state fault of the diagnosis: more than one bit of the tag changes,   *)
(* or the fault is traced and counted.                                     *)
test_finalization_diagnosis ==
    /\ Running({"diagnosis"})
    /\ \/ UNCHANGED <<silent, one_bit>>
       \/ \E r \in Findings[profile][state_region(StateBit) = 1] :
             IF r.prefix_distance = 0
             THEN /\ silent' = observe_diagnostic(silent, r, TagBytes(profile))
                  /\ UNCHANGED one_bit
             ELSE /\ one_bit' = observe_diagnostic(one_bit, r, TagBytes(profile))
                  /\ UNCHANGED silent
    /\ UNCHANGED <<count, stats, candidates, unchanged_by_region, last>>

Families == {"nonce_family", "key_family"}

(* The cube bits whose fault leaves the tag unchanged, or changes one bit. *)
classify_cube_faults ==
    UNION {{[unchanged |-> u, one_bit |-> single] : single \in SUBSET (CubeBits \ u)} :
             u \in SUBSET CubeBits}

test_fault_dependency_families ==
    /\ Running(Families)
    /\ \E faults \in classify_cube_faults : candidates' = Append(candidates, faults)
    /\ UNCHANGED <<count, stats, silent, one_bit, unchanged_by_region, last>>

-----------------------------------------------------------------------------
(* The requirements at the end of a test, over its counters.               *)
Required(test) ==
    /\ count.acceptances = 0
    /\ test = "tag_bits" => count.bypasses = 0
    /\ test \in {"comparison_skip", "length_post", "branch_skip"} =>
          count.bypasses = count.attempts
    /\ test \in {"counter", "nonce"} => stats.attempts > 0

(* The requirements at the end of a profile: the counts of the earlier     *)
(* campaign, and for print_diagnostic_aggregate something to print.        *)
Reproduced ==
    /\ silent["count"] = ExpectedSilent[profile]
    /\ one_bit["count"] = ExpectedOneBit[profile]
    /\ mode = "--map" \/ (silent["count"] > 0 /\ one_bit["count"] > 0)

ProfileEnds ==
    LET next_test == profile = Profiles
        ok == /\ Test = "diagnosis" => Reproduced
              /\ Test \in PacketTests /\ next_test => Required(Test)
    IN  /\ verdict = "running" /\ step <= Len(Tests(mode))
        /\ item = Items(Test, profile)
        /\ verdict' = IF ok THEN verdict ELSE "failed"
        /\ item' = 0
        /\ IF next_test THEN step' = step + 1 /\ profile' = 1
                        ELSE profile' = profile + 1 /\ UNCHANGED step
        /\ count' = IF next_test \/ Test \notin PacketTests THEN NoCount ELSE count
        /\ stats' = NoStats
        /\ silent' = NoAggregate /\ one_bit' = NoAggregate
        /\ candidates' = <<>> /\ unchanged_by_region' = NoRegion
        /\ last' = NoLast
        /\ UNCHANGED mode

Finish == /\ verdict = "running" /\ step > Len(Tests(mode))
          /\ verdict' = "passed"
          /\ UNCHANGED <<mode, step, profile, item, count, stats, silent, one_bit,
                         candidates, unchanged_by_region, last>>

Ended == verdict # "running" /\ UNCHANGED vars

Next == \/ InjectPacketFault \/ test_c1_stream_state_faults \/ test_c1_mac_state_faults
        \/ test_c1_mac_state_replication \/ test_finalization_diagnosis
        \/ test_fault_dependency_families
        \/ ProfileEnds \/ Finish \/ Ended

Spec == Init /\ [][Next]_vars

-----------------------------------------------------------------------------
(* The campaign fails only on an unknown mode or on a diagnosis whose      *)
(* counts are not the earlier ones: open accepts none of the altered       *)
(* packets, not even one whose tag has been cut or filled to another       *)
(* supported length, and every fault model bypasses its mismatch.          *)
CampaignSound ==
    verdict = "failed" =>
        mode = "unknown" \/ Tests(mode)[1] = "diagnosis"

(* Where a fault damages the plaintext that is released without or after   *)
(* authentication: a changed tag or associated data nowhere, a changed     *)
(* ciphertext in its byte, a changed nonce everywhere, and a changed       *)
(* counter in the whole of its block and nowhere else, also when it has    *)
(* become the counter of another block.                                    *)
DamageExact ==
    LET all == 1..(3 * BlockSize) IN
    /\ last.test = "branch_skip" =>
          last.damage = CASE last.n = 1 -> {1} [] last.n = 2 -> all [] OTHER -> {}
    /\ last.test = "nonce" => last.damage = all
    /\ last.test = "counter" =>
          last.damage = {j \in all : (j - 1) \div BlockSize = last.n \div CounterBits}

(* The counters of a diagnosis agree with one another.  A silent fault     *)
(* changes the output after the tag or never, a one-bit fault in the tag;  *)
(* what is unchanged in the extended output is unchanged in the canonical  *)
(* one; every fault has one controller counter, and one injected in the    *)
(* controller counts among those of the squeeze; a fault that is a single  *)
(* bit until the first changed byte reaches the controller in the squeeze  *)
(* or never.  And a localization has one entry for each fault counted.     *)
CountersAgree ==
    LET controllers(a) == a["finalization_entry"] + a["binding"] + a["squeeze_entry"]
                            + a["squeeze"] + a["never"]
        u == unchanged_by_region
    IN  /\ silent["count"] = silent["first_change_after_prefix"]
                               + silent["no_change_in_extended"]
        /\ silent["extended_unchanged"] = silent["no_change_in_extended"]
        /\ one_bit["first_change_after_prefix"] + one_bit["full_unchanged"]
             + one_bit["extended_unchanged"] = 0
        /\ \A a \in {silent, one_bit} :
              /\ a["extended_unchanged"] <= a["full_unchanged"]
              /\ controllers(a) = a["count"]
              /\ a["non_cube"] <= a["squeeze"]
              /\ a["single_bit_until_first_output"] <= a["squeeze"] + a["never"]
        /\ mode = "--localize" /\ stats.attempts > 0 /\ Test \notin PacketTests =>
              /\ Len(candidates) = stats.one_bit
              /\ u[1] + u[2] + u[3] + u[4] + u[5] = stats.unchanged
        /\ mode = "--replicate" =>
              /\ Len(candidates) = stats.one_bit
              /\ Cardinality(count.cases_with_one_bit) <= stats.one_bit
              /\ count.cases_with_unchanged = {} <=> stats.unchanged = 0

(* The overlap printed for a family: pairs are counted exactly when some   *)
(* case has a fault, a bit common to all cases keeps every pair above      *)
(* zero, and a pair reaches a million exactly when two cases have the same *)
(* faults, pairs of empty cases left out.                                  *)
OverlapExact ==
    step <= Len(Tests(mode)) /\ Test \in Families =>
        \A field \in {"unchanged", "one_bit"} :
            LET sets == [i \in 1..Len(candidates) |-> candidates[i][field]]
                o    == Overlap(sets)
            IN  /\ o.pair_count > 0 <=> Len(sets) > 1 /\ o.combined # {}
                /\ o.intersection # {} /\ o.pair_count > 0 => o.pair_min_ppm > 0
                /\ o.pair_min_ppm <= o.pair_max_ppm
                /\ o.pair_max_ppm = Million <=>
                      \E i, j \in 1..Len(sets) :
                          i < j /\ sets[i] = sets[j] /\ sets[i] # {}
=============================================================================
