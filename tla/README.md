# PVC-RotSymEnc-1: a TLA+ verification project

PVC-RotSymEnc-1 is a research symmetric cipher. A keyed function C1 walks a
cursor through an 8x8x8 cube of bytes and rotates lines of it; M1 builds a tag
from C1, A1 builds authenticated encryption from C1 and M1, and a thin adapter
publishes A1. Around the cipher the repository keeps a crash-safe nonce
allocator, analysis campaigns and a one-command reproduction script. This
project models the parts that have state, ordering or failure to reason about,
checks them with TLC and proves the central results with TLAPS.

Paths below are relative to the repository. `C1/` stands for
`external/pvc_aead0_a1/external/pvc_mac0_m1/external/pvc_prf1_c1/`.

## 1. Inventory

| Component | Code | State | Operations | What makes it correct |
|---|---|---|---|---|
| Persistent nonce counter | `analysis/nonce_management/` | 90-byte record, temporary file, lock file | `allocate` | no nonce twice, for any callers, failures and power losses; one scope per file; no torn record; the lock is given up |
| Nonce reuse detector | same | set of (key, nonce) in memory | `observe`, `observations` | detects exactly the repetitions it has seen |
| A1 | `external/pvc_aead0_a1/src/aead.cpp` | none of its own | `seal`, `open`, frames | `open` returns exactly what was sealed; verify before decrypt; no keystream byte twice |
| M1 | `.../pvc_mac0_m1/src/mac.cpp` | none | `frame_message`, `compute_tag`, `verify_tag` | the frame determines its fields |
| Adapter | `src/symmetric_encryption.cpp` | none | `seal`, `open` | passes through to A1 |
| C1 cube and move | `C1/src/cube.cpp`, `controller.cpp` | cube, cursor, previous axis, controller words | `apply_move`, `rotate_line`, `advance` | cells are moved, never copied or lost; the cursor stays in range; the trace describes the walk |
| C1 amount mapper | `C1/src/controller.cpp` | none | seed to permutation | a permutation of 1..7 for each seed |
| C1 pipeline | `C1/src/key_schedule.cpp`, `return_pass.cpp`, `finalization.cpp` | domain, symbol index | key schedule, forward, return, finalize, squeeze | stages in order, profile validated first, labels unique |
| Controller B | `C1/src/controller_b.cpp` | as A2, other arithmetic | as A2 | audit comparator |
| Reproduction | `reproduce_all.sh` | stage, `SUMMARY.txt`, exit trap | `run_stage` and nine stages | what `status=passed` means |
| Command lines | `app/main.cpp` and siblings | none | parse, one library call | exit codes |
| Nonce-misuse campaign | `analysis/nonce_misuse_campaign.cpp` | state path, snapshot, detector, worker files | five tests, forked children and workers | requirements fail for no order of processes; a rollback is reported; `main` returns |
| Fault-injection campaign | `analysis/fault_injection_campaign.cpp` | loop counters, distance statistics, aggregates | packet and state faults in five modes | no altered packet accepted; counters consistent with one another |
| Stream-frame audit | `analysis/streamframe_domain_audit.cpp` | alarms, seen outputs, Walsh vector | pairs, census, `fwht` | an alarm exactly for what was examined and is wrong |
| Timing characterization | `analysis/timing_characterization.cpp` | dudect's batch and t-tests | `prepare_inputs`, `do_one_computation`, summary | classes differ only as described; no verdict from too little data |
| Performance benchmark | `analysis/performance_benchmark.cpp` | clock readings | measure, print JSON | |
| CBMC and fuzz harnesses, independent implementations, scripts | `verification/`, `fuzz/`, `*/independent/`, `scripts/` | none | | drivers and second implementations |

Calls go one way: adapter -> A1 -> (M1, C1) and M1 -> C1. The nonce counter is
the caller's business: it hands the nonces to whoever calls `seal`, and only
the nonce-misuse campaign connects it with `seal`. Processes share nothing but the counter's files.
The reproduction script starts the tests, campaigns and harnesses as child
processes and sees their exit status.

The behaviour that is hard to test is in few places: concurrent `allocate`
calls that fail or die between two system calls, power loss around `fsync` and
`rename`, and the end of the nonce space; packets that arrive altered or cut at
another boundary; modular positions and old/new cursor values in `apply_move`;
the exit status of a stage with errexit off; and campaigns whose acceptance
counters, thresholds or class assignments could accept without evidence. `PROJECT.json` lists these
hazards at their lines.

## 2. Modules

| Module | Models | Composition |
|---|---|---|
| `NonceIssuer` | what `allocate` promises: one scope, increasing nonces | abstract specification |
| `NonceCounter` | `PersistentNonceCounter::allocate` | implements `NonceIssuer` |
| `NonceCounterProof` | proofs about `NonceCounter` | |
| `Framing` | the three byte frames of A1 and M1 | used by `Aead` |
| `AeadFunctions` | keystream, tag, `seal`, `open` as functions over an ideal C1 | extends `Framing` |
| `AeadFunctionsProof` | proofs: the frames are injective, `open` inverts `seal` | cited by `AeadProof`, `FaultCampaignProof`, `TimingCharacterizationProof`, `NonceMisuseProof` |
| `Aead` | `seal`, and `open` step by step | extends `AeadFunctions` |
| `AeadProof` | proofs about `Aead` | |
| `NonceMisuse` | the nonce-misuse campaign and the reuse detector | instantiates `NonceCounter`, extends `AeadFunctions` |
| `NonceMisuseProof` | proofs about `NonceMisuse` | cites `AeadFunctionsProof` |
| `FaultStates` | what one flipped bit of the C1 state may change | |
| `FaultCampaign` | `fault_injection_campaign.cpp`: the modes and tests | extends `AeadFunctions`, `FaultStates` |
| `FaultCampaignProof` | proofs about `FaultCampaign` | |
| `StreamFrameAudit` | `streamframe_domain_audit.cpp` | |
| `TimingCharacterization` | `timing_characterization.cpp` over dudect | extends `AeadFunctions` |
| `TimingCharacterizationProof` | proofs about `TimingCharacterization` | |
| `CubeWalk` | cube, cursor and the move | |
| `CubeWalkProof` | proofs about `CubeWalk` | |
| `Pipeline` | one evaluation of C1: stages, counts, symbols | |
| `PipelineProof` | proofs about `Pipeline` | |
| `ReproduceAll` | `reproduce_all.sh` | |
| `MC_*` | values of constants, symmetry, run-only properties | |

### NonceCounter

One action per step of a call, so that other callers, failures and power loss
fall between any two system calls: `Begin` (arguments, open of the lock file),
`AcquireLock` (`flock`), `LoadState` or `RejectState` (`load_state`, the scope
and exhaustion tests), `OpenTemporary`, `WriteTemporary`, `SyncTemporary`,
`Replace` (`rename`), `SyncDirectory`, `Return`. `Abort` is a failing system
call, which throws, or the death of the process: either way the descriptor is
closed and the lock goes with it. Past `Replace` such a call has consumed its
nonce without returning it (`lost`).

A path has the content a reader sees (`state`, `tmp`) and the set of contents
a power loss may leave (`stateDisk`, `tmpDisk`): unsynced data may be there,
partly there or not at all; an unsynced rename may be undone; `fsync` of a file
or of the directory leaves one possibility. `PowerLoss` picks one. This is the
POSIX reading on which `atomic_replace` relies, stated as the model's
assumption about the file system. The record is abstracted to its fields, and
every record that fails its length, magic, version, flag or complement test is
`Torn`. `issued` and `lost` are history variables and influence no step.

### Framing, AeadFunctions and Aead

A byte is the set of atoms whose exclusive-or it is, so XOR is symmetric
difference and a byte may come from a plaintext, a constant or C1. C1 is an
ideal function: every output byte of every (key, frame) pair is its own atom.
What is checked is the construction around C1; C1's strength is not a question
for a model checker. The constant parts of a header are one symbol each, the
tag-size byte and the big-endian fields are spelled out (`u64_be` by repeated
division by 256, as the shifts do). A caller uses each nonce for one message,
which the API demands of it and `NonceCounter` provides. `open` is three steps,
tag-length test, verification, decryption; `Packets` are all the ways a sealed
message may arrive: damaged in one byte, with a shortened tag, divided into
associated data and ciphertext at any place, under any nonce. The `size_t`
overflow exceptions need inputs near 2^64 bytes and are left out. The campaigns
call `seal` and `open` as functions; `Aead` is the module in which `open` is
interleaved with other calls.

### NonceMisuse

Each test is a script of requirements (allocate and expect this value, be
refused, replay, observe and expect this answer), executed in order by the
parent. An allocation goes through the steps of `NonceCounter` by `INSTANCE`, so
the child that dies at a persistence point (`crash_hook`) and the concurrent
workers meet the same files, lock and intermediate states as any caller. A
system call may fail anywhere, which ends the process with its error status and
the campaign with status 1: inside `allocate` (`IoFails`), in the parent's other calls
(`CallFails`: the directory exists or is not made, a copy, `fork`, `waitpid` or a
read fails), or when a worker opens or writes its file (`OutputFails`). The parent
waits for the workers in the order of their indices and fails at the first one
with another status, while the rest may still run. Copying and restoring the snapshot replaces the
record behind the counter's back: the one way a nonce is returned twice, and
the case for the detector. The end of the module says what the script relies on:
`Plan[k]` is the state foreseen before requirement k (the next value, the value
in the snapshot, what the detector has seen, how far the rollback is), `After`
what a requirement makes of it, `Met` when it may be made and is met.

### FaultStates and FaultCampaign

Packet faults (tag bits, skipped comparison, length, skipped branch, counter,
nonce) run on the ideal A1, so a distance counts bytes. For a state fault the
two runs of the finalizer are modelled by their difference: the bit distance of
the states at each recorded stage and the output bits that differ. Any
difference is considered that two facts allow: equal states have equal futures,
and a flipped cube bit is never absorbed, because moves permute the cells
(`HistogramPreserved`). The counters, minima, aggregates, localization, candidate
lists and Jaccard overlaps are then computed as in the code. Reading it closely:
a fault injected into the controller diverges there at stage 0, which falls in
the `default` branch of the stage switch and is counted with the squeeze;
`CountersAgree` states the counters with that convention.

### StreamFrameAudit

The audited function is ideal but may ignore one component of its frame (a nonce
bit, a counter bit, the tag size). A Walsh trial takes its outputs once and then
loops over the output bits, each of them any Boolean function of the output.
`AuditExact` says for which functions the audit returns 0. A
counter bit above both the Walsh variables and the range of the census is never
set alone in a pair, so such a function passes: `Unexamined` names these bits.
`fwht` is modelled butterfly by butterfly, in place.

### TimingCharacterization

The campaign runs inside dudect, and both sides are modelled: `prepare_inputs`
(balanced, shuffled classes) and `do_one_computation` here, and in `dudect.h` the
warm-up batch that only sets the percentiles and `update_statistics`. Test 0 is
the raw test, tests 1..`NumberPercentiles` are cropped at rising percentiles, so a
measurement below one of them is below all that follow, and the last is the second-
order test, fed once the raw test has more than `Enough` measurements of class 0.
dudect's `first_time` test and the batch 0 of `main` are two tests of the same fact
in two places and stay apart. Inputs of a sample are modelled byte by byte, because
what a t value means depends on the classes differing in the described input
alone: `Shared` is a sample without that input, and `ClassesAsDescribed` requires
it to be the same in both classes, as `docs/TIMING_CHARACTERIZATION.md:58` says,
for every target whose second class is not completely random. Durations and t
values are nondeterministic.

### CubeWalk

`preview_move` chooses one of the two other axes and an amount from 1..7 out of
the controller words. The choice is left open, so every result holds for each
key, message and controller. `Ahead` and `Behind` are the wrap-around of
`advance` and of `rotate_line`, kept apart because the code computes them in two
places. Controller words, probes and feedback change no variable of this module
and are left out.

### Pipeline

An evaluation enters the domains of `Stages` in order and absorbs the symbols of
each, one `Generate` per symbol and one `Move` per `apply_move`. The working
state is identified by its history `log`, and a symbol is described by what it is
computed from: message byte, key positions, and the states read (the snapshot of
the return pass, the controller bytes bound by the finalization, or the live
state). The arithmetic that turns these into a byte is left out. `Accepts` places
each validation where the code makes it: the key profile before anything, the
return profile after the whole forward pass, zero counts of the finalization
before it, and every other bad count (`RejectCount`) only when `absorb_symbol`
first meets it. So an empty message is evaluated whatever its forward count
(`OutcomeExact` states exactly which calls throw). A2 and B have the same
stages; B binds 24 controller bytes.

### ReproduceAll

Each stage is its list of commands; a command succeeds or fails as it likes,
except that it fails when something it certainly needs was not produced in this
campaign (`Needs`, external). `CommandFails` continues with the next command,
as the shell does with errexit off, and leaves the function at a preflight
guard. `InitializationFails` is an exit before the EXIT trap is set, with no status
line; from `Initialize` on there is always one (`StatusWritten`). Signals are not
modelled, and appending to `SUMMARY.txt` succeeds.

## 3. Runs

| Run | Instance | Shows |
|---|---|---|
| `counter_safety` | 3 callers, 2 scopes, nonces 0..2, symmetric | no reuse, one scope, durability before return, no torn state, no silent gap, and the inductive invariant of the proof |
| `counter_live` | 2 callers, 2 scopes, nonces 0..1 | the lock is always given up; `allocate` implements `NonceIssuer` |
| `aead` | 2 nonces, messages around one block boundary, tags of 1 and 2 bytes | `open` returns plaintext exactly for what was sealed; it derives no new keystream; no keystream byte is used twice; the inductive invariant of the proof; intact packets are opened |
| `cube_walk` | side 3, walks of 5 moves, every start | the cell under the cursor travels with it, histogram kept, trace connected, walk retraceable |
| `pipeline` | key of 2 bytes, messages of 0..2, counts up to 2, at most two counts out of {0, 2, 3} | which calls throw; every output saw the message forwards and backwards; the return pass binds the complete forward state; no live state is read twice; move labels are unique; evaluations end |
| `pipeline_frozen` | the frozen C1 parameters, 16 and 24 bound bytes | each key pass reads the whole key and nothing outside it; 120 symbols and 480 moves as `docs/SPECIFICATION.md` of PVC-PRF-1 says |
| `reproduce` | the script as it is | what `status=passed` establishes; a failed stage ends the campaign; a campaign that has reached its first stage writes a status line |
| `nonce_misuse` | 3 workers of 2 allocations, 2 rounds, nonces 0..7 | requirements fail only after a failed system call; a nonce returns only after a restored snapshot and is then reported; the inductive invariant of the proof; `main` ends |
| `fault_campaign` | 2 cube bits and 1 controller bit, 1 bound, 4 canonical and 5 extended output bytes; packets of 3 blocks of 4 bytes, tags of 2, 3 and 4 | no altered packet is accepted; where damage falls; counters and overlaps consistent for every difference of two runs |
| `stream_audit` | 4 nonce and 4 counter bits, 5 and 9 samples, 2 and 3 Walsh variables, 2 output bits, four refused configurations | exactly which functions pass; the in-place transform equals the correlations |
| `timing` | every target with a batch of 4; `PositiveControl` with batches of 6; 2 percentiles; four refused configurations | classes balanced, different as described and equal in everything else, for every shuffle; leakage reported only from enough balanced measurements |
| `reproduce_fail_closed` | the script as it is | **violated**: see section 5 |

Bounds. Two callers meet in every pair of steps and a third may arrive while
the lock changes hands; three nonces give a first, a middle and a last value,
so exhaustion, and a call after it, are reached; power loss and aborts are not
bounded. Side 3 is the least at which an amount can wrap or not wrap and both
directions differ; five moves return to an axis and to a line already rotated
(the theorems cover every side and every length). A block of 2 bytes has full
and partial last blocks, and an empty message has none. In `pipeline` 2 plays
the part of 255, so that each count meets 0, the limit and one past it, alone
and together with one other. Three workers interleave all their steps
and exhaust no nonce; the crash point of the child is each of the code's. A
canonical output of four bytes holds tags of two, three and four, so that a
difference falls inside the tag, after it, or after the canonical part, and the
three profiles of the code have one size each. In `stream_audit` the smallest
configuration leaves counter bits unexamined and the larger one leaves fewer; two
output bits (256 in the code) let an affine bit come first, last or not at all. In
`timing` a t-test needs more than `Enough` = 2 measurements in a class: a batch of 4
can never give that after one discarded measurement, two batches of 6 can. Two
percentiles (100 in the code) are a tighter and a looser one.
`ReproduceAll` has no bound.

Fairness. `counter_live`: a caller past `flock` runs straight-line code, so
each `Step(p)` is weakly fair; nothing is assumed about obtaining the lock, nor
is any call required to start, fail or die. `aead`: the steps of an `open` that
was called are weakly fair; `Seal` and `OpenCall` are not. `reproduce`:
commands terminate, so `Next` is weakly fair. `pipeline`: sequential code, so
`Next` is weakly fair. `nonce_misuse`: the parent's `Run` and each `Forked(p)`
are weakly fair, that is, no process is stopped for ever; no system call is
assumed to succeed, and the lock needs no fairness because every process takes it
a bounded number of times.

`cube_walk` switches deadlock checking off: a walk ends after `MaxMoves`.

## 4. Proofs

A theorem here holds for every value of the constants that its module's named
`ASSUME`s admit: the sizes are natural numbers of the signs the code gives them,
lengths and counters fit 64 bits, and markers such as `NoFile`, `Nobody` and
`NoSymbol` differ from the values they are compared with. `Calls` of `Pipeline`
binds at least one controller byte (the code binds 16 or 24), and the cube of
`FaultStates` has at most a million bits (4096 in the code). `NonceMisuse` assumes
that its processes are distinct and finitely many, that its two scopes differ (the
code passes offsets 0x20 and 0x40), that a tag of a whole block is allowed, and
that the counter is wide enough for the values its tests ask for (a few hundred,
of 2^192). The runs evaluate all of them.

| Theorem module | Results |
|---|---|
| `NonceCounterProof` | `Invariance`, `NonceUniqueness`, `ScopeExclusion`, `Durability`, `NeverTorn`, `GapFree`, `TypeCorrect`, `Refinement` |
| `CubeWalkProof` | `WalkTypes`, `CellIsCarried`, `HistogramIsPreserved`, `TraceIsConnected`, `WalkIsRetraceable` |
| `AeadFunctionsProof` | `StreamFrameInjective`, `ContextInjective`, `MacFrameInjective`, `OpenInvertsSeal` |
| `AeadProof` | `AeadInvariance`, `Authenticity`, `VerifyBeforeDecrypt`, `KeystreamIsUsedOnce` |
| `PipelineProof` | `PipelineInvariance`, `PipelineTypes`, `LabelsAreUnique`, `OutcomeIsExact`, `ReturnBinds`, `StatesAreReadOnce`, `OutputSaw`, `KeyIsInEveryPass` |
| `NonceMisuseProof` | `MisuseInvariance`, `CampaignIsSound`, `RollbackIsCaught` |
| `TimingCharacterizationProof` | `EvidenceInvariance`, `EvidenceIsGrounded`, `SampleInvariance`, `ClassesAreAsDescribed` |
| `FaultCampaignProof` | `CampaignInvariance`, `CampaignIsSound`, `DamageIsExact`, `StateInvariance`, `CountersAlwaysAgree`, `OverlapIsExact` |

**NonceCounterProof**, for any sets of callers and scopes and any `MaxNonce`.
`NoNonceReuse` is not inductive: a step to `Return` preserves it only if the
value read under the lock is past everything returned. `CounterInv` adds why.
`LockInv`: exactly the lock holder is between `flock` and the end. `DiskInv`:
*every* content a power loss may restore, not just the current one, is readable
and past all returned nonces. `HolderInv`: what the holder has read is still
true, and which files hold its updated record at which step; in particular
`stateDisk` is that single record before `Return`. `GapInv`: values below any
such counter are accounted for. `Invariance` proves `Spec => []CounterInv`, one
step per action; the safety theorems follow, and `Refinement` shows that
`Return` is an `Issue` step of `NonceIssuer` and every other step a stutter.

**CubeWalkProof**, for every side greater than 1, every cube and every bound.
`Ahead` and `Behind` are inverse on 0..Side-1, so `rotate_line` is the old cube
composed with a bijection of the coordinates; a bijection keeps the cardinality
of each preimage, hence the histogram. `TypeOK`, the carried cell and the
connected trace are inductive together (`WalkInv`). `Retraceable` speaks of the
states reached by undoing the whole trace: undoing the last move gives the state
before it, and the rest of the trace is retraced from there. The induction over
the number of undone moves is written as the absence of a least counterexample.

**AeadFunctionsProof**, for every nonce length. A frame is a concatenation whose
parts have lengths determined by earlier parts. Equal frames have equal
fixed-length prefixes, hence equal length fields, hence (`U64Injective`) equal
lengths, hence equal remaining parts. `OpenInvertsSeal`: both sides compute the
same frames, so the tag agrees, and every byte is masked twice by the same
keystream byte.

**AeadProof**. C1 is ideal (section 2), which is the one cryptographic
assumption: distinct (key, frame) pairs have distinct outputs. `AeadInv` is
`TypeOK`, `SealInv` (a message is what `seal` returned for its arguments, and no
two messages have a nonce), `VerifiedInv` (a call past the verification carries a
sealed packet), `Authentic` and `OpenDerivesNothingNew`; `Authentic` alone says
nothing about a call that has verified and not yet decrypted. The heart is
`VerifiedInv`: an accepted tag is a prefix of the M1 output for the frame that
`open` built, hence the tag of a sealed message with an equal frame, and the two
injectivity theorems give equal nonce, associated data, ciphertext and tag size,
so the packet is the sealed one, cut where it was cut. `KeystreamOnce` follows
from the nonces of `SealInv` and the injectivity of the stream frame.

**PipelineProof**, for every profile, key size and message length. The
properties are about the whole log of an evaluation, so `PipelineInv` describes
how the log grew: `LogInv` (only domains entered so far occur in it), `LabelInv`
(in the current domain what is logged is below the current symbol index and
phase, hence no label is repeated), `AbsorbInv` (which symbols each domain has
absorbed, each once and in its order), `CountInv` (a domain that has absorbed
something has a valid count, and a refusal names an invalid count in use),
`SnapshotInv` and `OutputInv` (the snapshot is the end of the forward pass, one
state is read per output byte), `SymbolInv` and `SeenInv` (what each kind of
symbol depends on; a live state read for a symbol is the one just before its
first move, so none is read twice). `OutcomeExact` needs `CountInv` and
`AbsorbInv`: an empty message never meets its bad count.

**NonceMisuseProof**, for any number of workers, of allocations per worker and of
rounds. `CampaignSound` says that no requirement of `main` ever fails by itself, so
it needs all that the requirements rely on, at every point of the script. The
proof has two halves. The first is about the script alone: along each test, and so
along `main`, every requirement is met where `Plan` foresees it (`Runs`,
`RunMain`). Loops are one lemma each about a sequence of `Rounds` requirements;
the induction along `Plan` is the absence of a least counterexample
(`PlanFacts`). The second half shows that the system is where the plan says.
`Settled` is the counter less a value that is persisted and not yet returned: no
step inside `allocate` changes it, a return raises it by one, and so does a death
or a failure after the rename, which is what the crash tests distinguish.
`CallerInv` says who may be inside `allocate` at which stage, `HoldInv` what the
lock holder knows of the files, `PlanInv` that `Settled`, snapshot and detector are
as foreseen unless a system call has failed, `OutputInv` that the workers' files
hold each value below the counter in one place: when all have left, the places and
the values are in bijection, so their number is workers times allocations, as
`main` requires. `HistoryInv` says that values returned are below the counter
until the snapshot is back, and `RollbackCaught` is carried through the replay
because each replayed value is one the detector was given before (`Met`). The XOR
test rests on `OpenInvertsSeal` and on the two messages having one keystream.

**TimingCharacterizationProof**, for every batch size, number of batches and
shuffle. `EvidenceGrounded` compares the tests with completed batches, so
`EvidenceInv` adds the batch under way: `ClassInv` (a swap is a bijection of
positions, so each class keeps half of the batch at every point of the shuffle)
and `RawInv` (the raw test holds no more of a class than half of the earlier
statistics batches and what it was given of this one; the warm-up gives
nothing). `SubsetInv` (a test holds what a tighter percentile holds, and none more
than the raw one) and `SummaryInv` carry the rest. `ClassesAsDescribed`
rests on `SampleInv` (a sample was made for the class of its position with the
draw of that position) and on what `make_sample` yields for each target: the
fixed class uses no draw, so it is one sample; the rest of a sample (`Shared`) uses
no draw in either class (`SharedSample`), so it is the same in both; random fields show their draw, so
the other class has no two equal; stream frames differ by `StreamFrameInjective`,
and a sample with the sealed tag opens by `OpenInvertsSeal`.

**FaultCampaignProof**, in two parts. Packet faults (`CampaignInv`): an altered
packet has another frame or another tag, and by the injectivity theorems and the
ideal C1 `open` refuses it; a flipped counter or length differs because a power
of two is not 0; the atoms of two distinct frames never cancel, so damage falls
exactly where the frame changed. `PacketInv` counts what these faults do.
State faults (`StateInv`): what every retained difference of two finalizations
satisfies (`RecordFacts`: where the first change may be, which controller stage
it may have) is carried over to the aggregates (`DiagnosisInv`), to the lists
(`LocalInv`, `ReplicaInv`) and to the sets of a family (`FamilyInv`), one
observation at a time. `OverlapExact` is then arithmetic on cardinalities: a fault
of one case makes a pair with any other, so pairs are missing only without faults
or without a second case; an
intersection is all of the union only for equal sets, and one common bit of at
most a million is at least one part in a million. Both invariants were checked
by TLC on the instance of `fault_campaign` before they were proved.

Only model-checked:

- liveness (`LockReleased`, `IntactIsOpened`, `StatusWritten`, `Ends`,
  `CampaignEnds`): fairness is outside the prover's reach;
- `FrozenKeySchedule`, which is about the frozen parameters only, and
  `ReproduceAll`, whose script is one finite instance that TLC exhausts;
- `AuditExact` and `WalshExact`: they need sums over 2^k butterflies, an
  induction over data.

## 5. Finding

`docs/REPRODUCIBILITY.md:18` says that `reproduce_all.sh` "runs each surface as
a separate fail-closed stage". `run_stage` switches errexit off around the stage
function and takes its status, which is that of its last command.
`verify_manifests` ends in a `printf`, so a failing `sha256sum` check leaves the
stage passed; the other stages with several commands ignore all but the last.
`reproduce_fail_closed` exhibits it; `PassedMeansLastCommands` states what a
passed campaign does establish.

## 6. Not modelled

- The mixing arithmetic of the controllers (A2 and B): deterministic, and no
  property stated here depends on its values.
- The amount mapper: a pure function of a 16-bit seed, planned below.
- `run_collision_simulation` of the nonce-misuse campaign: a fixed computation
  over pseudo-random nonces.
- In the fault campaign and the stream-frame audit, the printed geometry
  histograms, means and variances and the pseudo-random control: they raise no
  alarm and decide no exit code.
- The removal of the temporary directory at the end of the nonce-misuse campaign:
  after a failed `main`, workers may still be writing to it, and nothing reads it.
- The performance benchmark: arithmetic on clock readings around `seal` and
  `open`.
- The CBMC and fuzz harnesses, which drive other checking tools, and the
  independent implementations, which compute the same functions again.
- The command lines: hex and option parsing around one library call.
- Exceptions on sizes near 2^64, and signals sent to the reproduction script.

## 7. Plan

1. `NonceRecord`: encoding and decoding of the record and the byte-wise
   increment, checked against arithmetic on numbers.
2. `AmountMapper`: seed to permutation of 1..7 as operators, checked against a
   reference definition for all ranks.
3. Exit codes of the command lines.
