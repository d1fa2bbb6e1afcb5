----------------------------- MODULE NonceMisuse -----------------------------
(***************************************************************************)
(* analysis/nonce_misuse_campaign.cpp: the campaign that runs the nonce    *)
(* counter through restarts, process deaths, concurrent workers and a      *)
(* restored snapshot, and the reuse detector over what it returns.         *)
(*                                                                         *)
(* Every call of allocate is a call of module NonceCounter, step by step;  *)
(* each test has a state path of its own.  A test is a script: the calls   *)
(* its function makes in order, each with the outcome it requires.  Any    *)
(* system call may fail, which makes the campaign exit with status 1; a    *)
(* forked process may outlive it, in the directory as it was (the removal  *)
(* of the directory is left out).                                          *)
(* The sampling of random nonces (run_collision_simulation) is a fixed     *)
(* computation without a state and is left out.                            *)
(***************************************************************************)
EXTENDS AeadFunctions, FiniteSets

CONSTANTS Parent,      \* the campaign process
          Child,       \* the process that dies at a persistence point
          Workers,     \* the workers of test_multiprocess, by index
          PerWorker,   \* kAllocationsPerWorker
          Rounds,      \* calls of test_restart_and_scope and of each branch
          Scope, OtherScope, MaxNonce, Nobody, NoFile, Torn

VARIABLES pc, arg, cur, lock, state, stateDisk, tmp, tmpDisk, issued, lost,
          script,      \* what is left of main: requirements, in order
          snapshot,    \* the content of rollback.snapshot
          observed,    \* NonceReuseDetector::observations_
          reports,     \* history: <<key, nonce, verdict>> of each observe
          output,      \* output[w]: the nonces in worker w's output file
          exits,       \* exits[p]: the exit status of a forked process
          verdict,     \* "running", or how main ended
          ioError      \* history: a call outside the program has failed, or the
                       \* temporary directory was there already

Offspring == {Child} \cup Workers
Procs     == {Parent} \cup Offspring

Counter == INSTANCE NonceCounter WITH Scopes <- {Scope, OtherScope}

(* The processes are distinct, the files are told apart, and the counter   *)
(* is wide enough for the values the tests ask for (192 bits in the code). *)
ASSUME ProcessAssumption ==
    /\ IsFiniteSet(Workers) /\ Workers \subseteq Nat
    /\ Parent # Child /\ Parent \notin Workers /\ Child \notin Workers
    /\ Nobody \notin Procs
ASSUME RecordAssumption ==
    /\ Scope # OtherScope
    /\ NoFile # Torn
    /\ NoFile \notin Counter!CounterState /\ Torn \notin Counter!CounterState
ASSUME WidthAssumption ==
    /\ PerWorker \in Nat \ {0} /\ Rounds \in Nat \ {0} /\ MaxNonce \in Nat
    /\ 2 <= MaxNonce /\ 2 * Rounds <= MaxNonce + 1
    /\ Cardinality(Workers) * PerWorker <= MaxNonce
ASSUME FullTagAssumption == BlockSize \in TagSizes

counter == <<pc, arg, cur, lock, state, stateDisk, tmp, tmpDisk, issued, lost>>
vars == <<counter, script, snapshot, observed, reports, output, exits, verdict,
          ioError>>

-----------------------------------------------------------------------------
(* The requirements of the tests.                                          *)
Path           == [op |-> "path"]
Alloc(n)       == [op |-> "allocate", scope |-> Scope, expect |-> n]
Refuse         == [op |-> "refuse", scope |-> OtherScope]
Replay(n)      == [op |-> "replay", scope |-> Scope, expect |-> n]
Observe(k, n, o) == [op |-> "observe", key |-> k, nonce |-> n, expect |-> o]

Allocs(from, count) == [i \in 1..count |-> Alloc(from + i - 1)]

test_reuse_detector_and_xor ==
    <<[op |-> "detector"],
      Observe("first", 7, "Fresh"), Observe("first", 7, "Reused"),
      Observe("second", 7, "Fresh"),
      [op |-> "observations", expect |-> 2],
      [op |-> "xor"]>>

test_restart_and_scope ==
    <<Path>> \o Allocs(0, Rounds) \o <<Refuse, Alloc(Rounds)>>

(* invoke_hook(hook, point) stands after the step of allocate that the     *)
(* counter's program counter names.                                        *)
Points == <<"locked", "synced", "replaced", "durable">>

test_crash_point(point) ==
    <<Path, Alloc(0), [op |-> "crash", point |-> point],
      Alloc(IF point \in {"replaced", "durable"} THEN 2 ELSE 1)>>

test_multiprocess ==
    <<Path, [op |-> "workers"], Alloc(Cardinality(Workers) * PerWorker)>>

MutantRollback ==
    <<[op |-> "detector"], Path>> \o Allocs(0, Rounds) \o <<[op |-> "copy"]>>
        \o Allocs(Rounds, Rounds)
        \o [i \in 1..Rounds |-> Observe("key", Rounds + i - 1, "Fresh")]
        \o [i \in 1..Rounds |-> Replay(Rounds + i - 1)]

(* The values of the first branch are kept, and observed once the snapshot *)
(* is back; here they are the ones that follow the prefix.                 *)
test_snapshot_rollback ==
    <<Path>> \o Allocs(0, Rounds) \o <<[op |-> "copy"]>>
        \o Allocs(Rounds, Rounds) \o <<[op |-> "restore"], [op |-> "detector"]>>
        \o [i \in 1..Rounds |-> Observe("key", Rounds + i - 1, "Fresh")]
        \o [i \in 1..Rounds |-> Replay(Rounds + i - 1)]

main == <<[op |-> "directory"]>>
            \o test_reuse_detector_and_xor \o test_restart_and_scope
            \o test_crash_point(Points[1]) \o test_crash_point(Points[2])
            \o test_crash_point(Points[3]) \o test_crash_point(Points[4])
            \o test_multiprocess \o test_snapshot_rollback

-----------------------------------------------------------------------------
Init == /\ Counter!Init
        /\ arg[Parent] = Scope
        /\ script = main
        /\ snapshot = NoFile
        /\ observed = {}
        /\ reports = <<>>
        /\ output = [w \in Workers |-> <<>>]
        /\ exits = [p \in Offspring |-> "none"]
        /\ verdict = "running"
        /\ ioError = FALSE

Op == script[1].op
At(op) == verdict = "running" /\ script # <<>> /\ Op = op

(* require, and the catch of main: the first failure ends the campaign.    *)
Require(condition) ==
    /\ script' = IF condition THEN Tail(script) ELSE script
    /\ verdict' = IF condition THEN verdict ELSE "failed"

(* The directory is new: no path of it names a file.                       *)
make_temporary_directory ==
    /\ At("directory")
    /\ Require(TRUE)
    /\ UNCHANGED <<counter, snapshot, observed, reports, output, exits, ioError>>

(* A new state path in the temporary directory: no file, no history.       *)
NewPath ==
    /\ At("path")
    /\ state' = NoFile /\ stateDisk' = {NoFile}
    /\ tmp' = NoFile /\ tmpDisk' = {}
    /\ issued' = <<>> /\ lost' = {}
    /\ exits' = [p \in DOMAIN exits |-> "none"]
    /\ Require(TRUE)
    /\ UNCHANGED <<pc, arg, cur, lock, snapshot, observed, reports, output, ioError>>

Call(p, scope) ==
    /\ Counter!Begin(p, scope)
    /\ UNCHANGED <<script, snapshot, observed, reports, output, exits, verdict, ioError>>

ParentCalls ==
    /\ \E op \in {"allocate", "refuse", "replay"} : At(op)
    /\ Call(Parent, script[1].scope)

(* NonceReuseDetector::observe *)
Observation(key, nonce) == IF <<key, nonce>> \in observed THEN "Reused" ELSE "Fresh"

Observing(key, nonce) ==
    /\ observed' = observed \cup {<<key, nonce>>}
    /\ reports' = Append(reports, <<key, nonce, Observation(key, nonce)>>)

(* The call of the parent returns: the value is compared with the one the  *)
(* test requires; a replayed value goes to the detector, which must know   *)
(* it.                                                                     *)
ParentReturns ==
    LET allocated == cur[Parent].next IN
    /\ verdict = "running"
    /\ Counter!Return(Parent)
    /\ IF Op = "replay" THEN Observing("key", allocated)
                        ELSE UNCHANGED <<observed, reports>>
    /\ Require(/\ Op # "refuse"
               /\ allocated = script[1].expect
               /\ Op = "replay" => Observation("key", allocated) = "Reused")
    /\ UNCHANGED <<snapshot, output, exits, ioError>>

(* load_state throws invalid_argument for one reason: the record is well   *)
(* formed, and of another scope.  Other states throw other exceptions.     *)
InvalidArgument(scope) == state \notin {NoFile, Torn} /\ state.scope # scope

(* allocate throws: the scope test wants invalid_argument, others nothing. *)
ParentRejected ==
    /\ verdict = "running"
    /\ Counter!RejectState(Parent)
    /\ Require(Op = "refuse" /\ InvalidArgument(arg[Parent]))
    /\ UNCHANGED <<snapshot, observed, reports, output, exits, ioError>>

Inner(p) ==
    /\ \/ Counter!AcquireLock(p) \/ Counter!LoadState(p)
       \/ Counter!OpenTemporary(p) \/ Counter!WriteTemporary(p)
       \/ Counter!SyncTemporary(p) \/ Counter!Replace(p) \/ Counter!SyncDirectory(p)
    /\ UNCHANGED <<script, snapshot, observed, reports, output, exits, verdict, ioError>>

-----------------------------------------------------------------------------
(* The forked processes.  exits[p] = "running" from fork to exit.          *)
Fork(p) ==
    /\ At(IF p = Child THEN "crash" ELSE "workers")
    /\ exits[p] = "none"
    /\ exits' = [exits EXCEPT ![p] = "running"]
    /\ UNCHANGED <<counter, script, snapshot, observed, reports, output, verdict, ioError>>

(* A call of the parent outside allocate fails: the directory exists or is *)
(* not made, a snapshot is not copied, fork or waitpid fails, or an output *)
(* file is not read.                                                       *)
CallFails ==
    /\ \E op \in {"directory", "copy", "restore", "crash", "workers"} : At(op)
    /\ ioError' = TRUE
    /\ verdict' = "failed"
    /\ UNCHANGED <<counter, script, snapshot, observed, reports, output, exits>>

ChildCalls(p) ==
    /\ exits[p] = "running"
    /\ p \in Workers => Len(output[p]) < PerWorker
    /\ Call(p, Scope)

(* crash_hook: _exit at the point the test has chosen.                     *)
crash_hook ==
    /\ exits[Child] = "running"
    /\ pc[Child] = script[1].point
    /\ Counter!Abort(Child)
    /\ exits' = [exits EXCEPT ![Child] = script[1].point]
    /\ UNCHANGED <<script, snapshot, observed, reports, output, verdict, ioError>>

ChildInner == /\ exits[Child] = "running"
              /\ pc[Child] # script[1].point
              /\ Inner(Child)

MutantWorkerReturns(w) ==
    /\ Counter!Return(w)
    /\ output' = [output EXCEPT ![w] = Append(@, cur[w].next)]
    /\ exits' = [exits EXCEPT ![w] = IF Len(output'[w]) > PerWorker THEN "0" ELSE @]
    /\ UNCHANGED <<script, snapshot, observed, reports, verdict, ioError>>

WorkerReturns(w) ==
    /\ Counter!Return(w)
    /\ output' = [output EXCEPT ![w] = Append(@, cur[w].next)]
    /\ exits' = [exits EXCEPT ![w] = IF Len(output'[w]) = PerWorker THEN "0" ELSE @]
    /\ UNCHANGED <<script, snapshot, observed, reports, verdict, ioError>>

WaitChild ==
    /\ At("crash")
    /\ exits[Child] \notin {"none", "running"}
    /\ Require(exits[Child] = script[1].point)
    /\ UNCHANGED <<counter, snapshot, observed, reports, output, exits, ioError>>

(* The union of the output files: no nonce is in two places, and the first *)
(* values are all there.                                                   *)
OutputsUnique ==
    LET places == Workers \X (1..PerWorker)
        read == [q \in places |-> output[q[1]][q[2]]]
    IN  /\ \A w \in Workers : Len(output[w]) = PerWorker
        /\ \A q, r \in places : q # r => read[q] # read[r]
        /\ {read[q] : q \in places} = 0..(Cardinality(places) - 1)

(* The workers are waited for one after the other, until one has failed;   *)
(* when all are well, their files are compared.                            *)
WaitWorkers ==
    /\ At("workers")
    /\ \A w \in Workers : exits[w] # "none"
    /\ \/ \A w \in Workers : exits[w] = "0"
       \/ \E w \in Workers : /\ exits[w] = "error"
                             /\ \A x \in Workers : x < w => exits[x] = "0"
    /\ Require((\A w \in Workers : exits[w] = "0") /\ OutputsUnique)
    /\ UNCHANGED <<counter, snapshot, observed, reports, output, exits, ioError>>

(* A system call fails inside allocate.  The parent's exception ends main; *)
(* a forked process leaves with status 125 or 1.                           *)
IoFails(p) ==
    /\ Counter!Abort(p)
    /\ ioError' = TRUE
    /\ IF p = Parent
       THEN verdict' = "failed" /\ UNCHANGED exits
       ELSE exits' = [exits EXCEPT ![p] = "error"] /\ UNCHANGED verdict
    /\ UNCHANGED <<script, snapshot, observed, reports, output>>

(* A worker cannot open its output file, or a value it was given is not    *)
(* written: it leaves with status 1.                                       *)
OutputFails(w) ==
    /\ exits[w] = "running"
    /\ \/ pc[w] = "idle" /\ output[w] = <<>> /\ UNCHANGED counter
       \/ Counter!Return(w)
    /\ ioError' = TRUE
    /\ exits' = [exits EXCEPT ![w] = "error"]
    /\ UNCHANGED <<script, snapshot, observed, reports, output, verdict>>

-----------------------------------------------------------------------------
NewDetector ==
    /\ At("detector")
    /\ observed' = {} /\ reports' = <<>>
    /\ Require(TRUE)
    /\ UNCHANGED <<counter, snapshot, output, exits, ioError>>

ObserveStep ==
    LET s == script[1] IN
    /\ At("observe")
    /\ Observing(s.key, s.nonce)
    /\ Require(Observation(s.key, s.nonce) = s.expect)
    /\ UNCHANGED <<counter, snapshot, output, exits, ioError>>

Observations ==
    /\ At("observations")
    /\ Require(Cardinality(observed) = script[1].expect)
    /\ UNCHANGED <<counter, snapshot, observed, reports, output, exits, ioError>>

(* Two messages under one nonce: the XOR of the ciphertexts is the XOR of  *)
(* the plaintexts, and both messages still open.                           *)
XorRelation ==
    LET keys  == [encryption_key |-> "first", authentication_key |-> "a"]
        nonce == [i \in 1..NonceBytes |-> Octet(7)]
        p1 == [i \in 1..(BlockSize + 1) |-> Const(<<"p1", i>>)]
        p2 == [i \in 1..(BlockSize + 1) |-> Const(<<"p2", i>>)]
        first  == seal(keys, nonce, <<Octet(1)>>, p1, BlockSize)
        second == seal(keys, nonce, <<Octet(4), Octet(5)>>, p2, BlockSize)
    IN  /\ Len(first.ciphertext) = Len(second.ciphertext)
        /\ \A i \in 1..Len(p1) :
              Xor(first.ciphertext[i], second.ciphertext[i]) = Xor(p1[i], p2[i])
        /\ open(keys, nonce, <<Octet(1)>>, first.ciphertext, first.tag).opened
        /\ open(keys, nonce, <<Octet(4), Octet(5)>>, second.ciphertext,
                second.tag).opened

XorStep ==
    /\ At("xor")
    /\ Require(XorRelation)
    /\ UNCHANGED <<counter, snapshot, observed, reports, output, exits, ioError>>

(* copy_file(state_path, snapshot_path), and back over the state file.     *)
CopySnapshot ==
    /\ At("copy")
    /\ snapshot' = state
    /\ Require(TRUE)
    /\ UNCHANGED <<counter, observed, reports, output, exits, ioError>>

MutantRestoreSnapshot ==
    /\ At("restore")
    /\ state' = NoFile /\ stateDisk' = {NoFile}
    /\ Require(TRUE)
    /\ UNCHANGED <<pc, arg, cur, lock, tmp, tmpDisk, issued, lost, snapshot,
                   observed, reports, output, exits, ioError>>

RestoreSnapshot ==
    /\ At("restore")
    /\ state' = snapshot
    /\ stateDisk' = stateDisk \cup {snapshot}
    /\ Require(TRUE)
    /\ UNCHANGED <<pc, arg, cur, lock, tmp, tmpDisk, issued, lost, snapshot,
                   observed, reports, output, exits, ioError>>

Exit ==
    /\ verdict = "running" /\ script = <<>>
    /\ verdict' = "passed"
    /\ UNCHANGED <<counter, script, snapshot, observed, reports, output, exits, ioError>>

Ended == verdict # "running" /\ UNCHANGED vars

Run == \/ make_temporary_directory \/ NewPath
       \/ ParentCalls \/ ParentReturns \/ ParentRejected
       \/ Inner(Parent) \/ (\E p \in Offspring : Fork(p)) \/ WaitChild \/ WaitWorkers
       \/ NewDetector \/ ObserveStep \/ Observations \/ XorStep
       \/ CopySnapshot \/ RestoreSnapshot \/ Exit

Forked(p) == \/ ChildCalls(p)
             \/ p = Child /\ (ChildInner \/ crash_hook)
             \/ p \in Workers /\ (Inner(p) \/ WorkerReturns(p))

Next == \/ Run
        \/ \E p \in Offspring : Forked(p)
        \/ CallFails
        \/ \E p \in Procs : IoFails(p)
        \/ \E w \in Workers : OutputFails(w)
        \/ Ended

(* Every process keeps running its code until it exits.                    *)
Spec == /\ Init /\ [][Next]_vars
        /\ WF_vars(Run) /\ \A p \in Offspring : WF_vars(Forked(p))

-----------------------------------------------------------------------------
(* The campaign fails only when a system call has failed: whatever the     *)
(* order in which workers and crashed children run, the values allocate    *)
(* returns and the detector's answers are the ones its tests require.      *)
CampaignSound == verdict = "failed" => ioError

(* A nonce is returned a second time only after the snapshot was restored, *)
(* and then one that was first returned after the copy; the detector has   *)
(* reported each such return as reused.                                    *)
RollbackCaught ==
    \A i, j \in 1..Len(issued) :
        i < j /\ issued[i].nonce = issued[j].nonce =>
            /\ snapshot # NoFile /\ issued[i].nonce >= snapshot.next
            /\ \E k \in 1..Len(reports) :
                  reports[k] = <<"key", issued[j].nonce, "Reused">>

(* main returns: no wait for a child lasts for ever, whatever child fails. *)
CampaignEnds == <>(verdict # "running")

-----------------------------------------------------------------------------
(* What the script relies on.  Plan[k] foresees the campaign before its    *)
(* k-th requirement: the value the next call draws, the value in the       *)
(* snapshot (0: no file), what the detector has seen, how far the rollback *)
(* is, whether the path has seen no fork and no output is written yet.     *)
Start == [next |-> 0, snap |-> 0, obs |-> {}, mode |-> "normal",
          unforked |-> TRUE, unwritten |-> TRUE]

After(s, g) ==
    [next |-> CASE s.op = "path" -> 0
              [] s.op \in {"allocate", "replay"} -> g.next + 1
              [] s.op = "crash" ->
                    IF s.point \in Counter!Committed THEN g.next + 1 ELSE g.next
              [] s.op = "workers" -> Cardinality(Workers) * PerWorker
              [] s.op = "restore" -> g.snap
              [] OTHER -> g.next,
     snap |-> IF s.op = "copy" THEN g.next ELSE g.snap,
     obs  |-> CASE s.op = "detector" -> {}
              [] s.op = "observe" -> g.obs \cup {<<s.key, s.nonce>>}
              [] OTHER -> g.obs,
     mode |-> CASE s.op = "restore" -> "restored"
              [] s.op = "replay" -> "replayed"
              [] OTHER -> g.mode,
     unforked  |-> s.op = "path" \/ (g.unforked /\ s.op \notin {"crash", "workers"}),
     unwritten |-> g.unwritten /\ s.op # "workers"]

(* The requirement s is met, and may be made, where g is foreseen.         *)
Met(s, g) ==
    /\ s.op \in {"path", "allocate", "crash", "workers", "copy", "restore"}
          => g.mode = "normal"
    /\ s.op \in {"allocate", "replay"}
          => s.scope = Scope /\ s.expect = g.next /\ g.next <= MaxNonce
    /\ s.op = "refuse" => s.scope = OtherScope /\ g.next > 0
    /\ s.op = "crash" => s.point \in Counter!Holding /\ g.unforked
    /\ s.op = "workers" => g.unforked /\ g.unwritten /\ g.next = 0
    /\ s.op = "copy" => g.next <= MaxNonce
    /\ s.op = "replay" => /\ g.mode # "normal" /\ g.snap \in 1..g.next
                          /\ <<"key", g.next>> \in g.obs
    /\ s.op = "detector" => g.mode # "replayed"
    /\ s.op = "observe" =>
          /\ s.key \in {"first", "second", "key"} /\ s.nonce \in Nat
          /\ s.expect = IF <<s.key, s.nonce>> \in g.obs THEN "Reused" ELSE "Fresh"
    /\ s.op = "observations" => s.expect = Cardinality(g.obs)

Plan[k \in 1..(Len(main) + 1)] ==
    IF k = 1 THEN Start ELSE After(main[k - 1], Plan[k - 1])

Place == Len(main) - Len(script) + 1
Foreseen == Plan[Place]
Stage == IF script = <<>> THEN "end" ELSE Op

(* The content of the state file from which the next call draws n.         *)
FileAt(n) ==
    IF n = 0 THEN NoFile
    ELSE [scope |-> Scope, next |-> IF n > MaxNonce THEN MaxNonce ELSE n,
          exhausted |-> n > MaxNonce]

Value == Counter!Floor(state)

(* The next value, less the one a call has persisted and not yet returned. *)
Settled == IF lock # Nobody /\ pc[lock] \in Counter!Committed THEN Value - 1
                                                             ELSE Value

-----------------------------------------------------------------------------
(* The parts of the inductive invariant.                                   *)

TypeOK ==
    /\ pc \in [Procs -> Counter!Labels]
    /\ arg \in [Procs -> {Scope, OtherScope}]
    /\ cur \in [Procs -> Counter!CounterState]
    /\ lock \in Procs \cup {Nobody}
    /\ state \in Counter!Contents
    /\ exits \in [Offspring ->
                     {"none", "running", "error", "0"} \cup Counter!Holding]
    /\ output \in [Workers -> Seq(Nat)]
    /\ issued \in Seq([scope : {Scope, OtherScope}, nonce : Nat])
    /\ reports \in Seq({"first", "second", "key"} \X Nat \X {"Fresh", "Reused"})
    /\ verdict \in {"running", "passed", "failed"}
    /\ ioError \in BOOLEAN

(* What is left of main is its end.                                        *)
ScriptInv == /\ Len(script) \in 0..Len(main)
             /\ script = SubSeq(main, Place, Len(main))

(* Who is inside allocate, with which scope, and why.                      *)
CallerInv ==
    /\ pc[Parent] # "idle" =>
          /\ verdict = "running"
          /\ Stage \in {"allocate", "refuse", "replay"}
          /\ arg[Parent] = script[1].scope
          /\ Stage = "refuse" => pc[Parent] \in {"waiting", "locked"}
    /\ \A p \in Offspring :
          /\ pc[p] # "idle" => exits[p] = "running" /\ arg[p] = Scope
          /\ exits[p] = "running" => Stage = IF p = Child THEN "crash" ELSE "workers"
          /\ exits[p] = "error" => ioError

(* What the holder of the lock knows of the files once it has read them.   *)
HoldInv ==
    /\ state = FileAt(Value)
    /\ \A p \in Procs :
          pc[p] \in Counter!Holding \ {"locked"} =>
             /\ cur[p] = [scope |-> Scope, next |-> Settled, exhausted |-> FALSE]
             /\ pc[p] \in {"written", "synced"} => tmp = FileAt(Settled + 1)

(* The detector and the snapshot are as foreseen; so is the next value,    *)
(* except where the parent's call or a child has failed.                   *)
PlanInv ==
    /\ observed = Foreseen.obs
    /\ snapshot = FileAt(Foreseen.snap)
    /\ Foreseen.unforked /\ Stage \notin {"crash", "workers"} =>
          \A p \in Offspring : exits[p] = "none"
    /\ Foreseen.unwritten /\ Stage # "workers" => \A w \in Workers : output[w] = <<>>
    /\ verdict = "running" /\ Stage \notin {"crash", "workers"} =>
          Settled = Foreseen.next
    /\ Stage = "crash" =>
          /\ exits[Child] \in {"none", "running", "error", script[1].point}
          /\ exits[Child] # "error" =>
                Settled = Foreseen.next
                          + IF exits[Child] \in Counter!Committed THEN 1 ELSE 0

(* The output files of the workers: no value twice, all below the counter, *)
(* and, unless a worker has failed, every value below it.                  *)
OutputInv == Stage = "workers" =>
    /\ \A w \in Workers :
          /\ exits[w] \in {"none", "running", "error", "0"}
          /\ Len(output[w]) <= PerWorker
          /\ exits[w] \in {"none", "running"} => Len(output[w]) < PerWorker
          /\ exits[w] = "0" => Len(output[w]) = PerWorker
    /\ \A w \in Workers : \A i \in 1..Len(output[w]) : output[w][i] < Settled
    /\ \A w, x \in Workers : \A i \in 1..Len(output[w]), j \in 1..Len(output[x]) :
          output[w][i] = output[x][j] => w = x /\ i = j
    /\ (\A w \in Workers : exits[w] # "error") =>
          \A n \in 0..(Settled - 1) :
             \E w \in Workers : \E i \in 1..Len(output[w]) : output[w][i] = n

(* Until a value is replayed no value is returned twice, and until the     *)
(* snapshot is restored the counter is past every one.                     *)
HistoryInv ==
    /\ Foreseen.mode # "replayed" => Counter!NoNonceReuse
    /\ Foreseen.mode = "normal" =>
          \A i \in 1..Len(issued) : issued[i].nonce < Settled

(* The inductive invariant behind CampaignSound and RollbackCaught: what   *)
(* each requirement of the script relies on is there when its turn comes,  *)
(* whichever processes have run, died or failed before.                    *)
CampaignInv == /\ TypeOK /\ ScriptInv /\ Counter!LockInv /\ CallerInv /\ HoldInv
               /\ PlanInv /\ OutputInv /\ HistoryInv
               /\ CampaignSound /\ RollbackCaught
=============================================================================
