------------------------------ MODULE Pipeline -------------------------------
(***************************************************************************)
(* One evaluation of PVC-PRF-1: key schedule, forward pass, the return     *)
(* pass (or none: research_keyed_output), finalization and squeeze, for    *)
(* controller A2 (Candidate C1) and its comparator B, which differ in      *)
(* arithmetic and in the number of controller bytes bound.                 *)
(*                                                                         *)
(* The working state is identified by its history, `log`: the domain       *)
(* entries and moves applied to it so far.  A symbol is described by what  *)
(* it is computed from: a message byte, key bytes, and the working states  *)
(* (lengths of log) that are read.                                         *)
(***************************************************************************)
EXTENDS Integers, Sequences, FiniteSets

CONSTANTS HeaderSize,  \* bytes of key_header: 8 in the code
          KeySize,     \* bytes of a ResearchKey256: 32
          SealSize,    \* symbols of the KeySeal pass: 16
          OutputSize,  \* bytes of a ResearchOutput: 32
          MaxCount,    \* the largest move or symbol count: 255
          Arguments,   \* the calls considered
          NoSymbol     \* "absorb_symbol has not been called"

(* The counts a caller chooses: moves_per_symbol of the forward pass, the  *)
(* fields of KeyScheduleProfile and of ReturnProfile, and the two counts   *)
(* of the finalization.                                                    *)
KeyCounts    == {"key_forward_moves", "key_return_moves", "key_seal_moves"}
ReturnCounts == {"init_symbols", "init_moves", "message_moves",
                 "seal_symbols", "seal_moves"}
Counts == KeyCounts \cup {"forward_moves"} \cup ReturnCounts
            \cup {"final_moves", "squeeze_moves"}

Domains == {"KeyForward", "KeyReturn", "KeySeal", "InputForward", "ReturnInit",
            "InputReturn", "ReturnSeal", "Finalization", "Squeeze"}

ASSUME SizeAssumption == /\ HeaderSize \in Nat /\ OutputSize \in Nat \ {0}
                         /\ SealSize \in Nat \ {0} /\ KeySize = 2 * SealSize
                         /\ MaxCount \in Nat
Calls == [length : Nat, binding : Nat \ {0}, fold : BOOLEAN, count : [Counts -> Nat]]

ASSUME ArgumentsAssumption == Arguments \subseteq Calls

(* What absorb_symbol may be given: the message byte, the key bytes and    *)
(* the states it was computed from.                                        *)
Symbols == [byte : SUBSET Int, key : SUBSET Int, seen : SUBSET Nat]

ASSUME NoSymbolAssumption == NoSymbol \notin Symbols

VARIABLES args,         \* message length, controller bytes, return pass?, counts
          stage,        \* index of the current domain in Stages
          done,         \* symbols absorbed in this domain
          symbol,       \* the symbol under absorption, or NoSymbol
          phase,        \* absorb_symbol's loop counter
          symbol_index, \* WorkingState::symbol_index
          log,          \* the domain entries and moves of the working state
          snapshot,     \* the state apply_transcript_return copied
          binding,      \* the state whose controller bytes are bound
          output,       \* the states the output bytes were read from
          outcome       \* "running" | "output" | "invalid_argument"

vars == <<args, stage, done, symbol, phase, symbol_index, log, snapshot,
          binding, output, outcome>>
copies == <<snapshot, binding>>

-----------------------------------------------------------------------------
MutantKeyStages(c) ==
    << [domain |-> "KeyForward", symbols |-> HeaderSize + KeySize,
        moves |-> c["key_forward_moves"]],
       [domain |-> "KeyReturn", symbols |-> KeySize, moves |-> c["key_return_moves"]],
       [domain |-> "KeySeal", symbols |-> SealSize, moves |-> c["key_seal_moves"]] >>

KeyStages(c) ==
    << [domain |-> "KeyForward", symbols |-> HeaderSize + 2 * KeySize,
        moves |-> c["key_forward_moves"]],
       [domain |-> "KeyReturn", symbols |-> KeySize, moves |-> c["key_return_moves"]],
       [domain |-> "KeySeal", symbols |-> SealSize, moves |-> c["key_seal_moves"]] >>

ForwardStage(c, length) ==
    << [domain |-> "InputForward", symbols |-> length, moves |-> c["forward_moves"]] >>

ReturnStages(c, length) ==
    << [domain |-> "ReturnInit", symbols |-> c["init_symbols"],
        moves |-> c["init_moves"]],
       [domain |-> "InputReturn", symbols |-> length, moves |-> c["message_moves"]],
       [domain |-> "ReturnSeal", symbols |-> c["seal_symbols"],
        moves |-> c["seal_moves"]] >>

FinalStages(c, bytes) ==
    << [domain |-> "Finalization", symbols |-> bytes, moves |-> c["final_moves"]],
       [domain |-> "Squeeze", symbols |-> OutputSize, moves |-> c["squeeze_moves"]] >>

(* The domains in the order in which an evaluation enters them.            *)
Stages ==
    KeyStages(args.count) \o ForwardStage(args.count, args.length)
      \o (IF args.fold THEN ReturnStages(args.count, args.length) ELSE <<>>)
      \o FinalStages(args.count, args.binding)

Domain == Stages[stage].domain
Moves  == Stages[stage].moves

Valid(n) == n \in 1..MaxCount

(* The tests of the two profiles and of the finalization counts.           *)
ValidKeyProfile(c) == \A f \in KeyCounts : Valid(c[f])

MutantReturnProfile(c) == \A f \in ReturnCounts \ {"init_symbols"} : Valid(c[f])

ValidReturnProfile(c) == \A f \in ReturnCounts : Valid(c[f])

ValidFinalCounts(c) == c["final_moves"] # 0 /\ c["squeeze_moves"] # 0

(* Each is made just before the first domain it is about is entered.       *)
Accepts(domain) ==
    CASE domain = "KeyForward"   -> ValidKeyProfile(args.count)
      [] domain = "ReturnInit"   -> ValidReturnProfile(args.count)
      [] domain = "Finalization" -> ValidFinalCounts(args.count)
      [] OTHER                   -> TRUE

(* Key positions that symbol i of a key domain combines.                   *)

MutantKeyBytes(domain, i) ==
    LET at(k) == k % KeySize
        j == IF domain = "KeyForward" THEN (i - HeaderSize) \div 2
             ELSE IF domain = "KeyReturn" THEN KeySize - i ELSE i
    IN  CASE domain = "KeyForward" -> IF i < HeaderSize THEN {}
                                      ELSE IF (i - HeaderSize) % 2 = 0 THEN {j}
                                      ELSE {j, at(j + 11), at(j + 23)}
          [] domain = "KeyReturn"  -> {j, at(j + 7), at(j + 19)}
          [] domain = "KeySeal"    -> {j, j + SealSize, at(j + 5), at(j + 27)}
          [] OTHER                 -> {}

KeyBytes(domain, i) ==
    LET at(k) == k % KeySize
        j == IF domain = "KeyForward" THEN (i - HeaderSize) \div 2
             ELSE IF domain = "KeyReturn" THEN KeySize - 1 - i ELSE i
    IN  CASE domain = "KeyForward" -> IF i < HeaderSize THEN {}
                                      ELSE IF (i - HeaderSize) % 2 = 0 THEN {j}
                                      ELSE {j, at(j + 11), at(j + 23)}
          [] domain = "KeyReturn"  -> {j, at(j + 7), at(j + 19)}
          [] domain = "KeySeal"    -> {j, j + SealSize, at(j + 5), at(j + 27)}
          [] OTHER                 -> {}

(* The message byte, counted from 1, that symbol i of a domain absorbs.    *)

MutantMessageByte(domain, i) ==
    IF domain \in {"InputForward", "InputReturn"} THEN {i + 1} ELSE {}

MessageByte(domain, i) ==
    CASE domain = "InputForward" -> {i + 1}
      [] domain = "InputReturn"  -> {args.length - i}
      [] OTHER                   -> {}

(* The working states that a symbol of a domain is computed from.          *)

MutantReads(domain) ==
    CASE domain = "ReturnInit"   -> {snapshot}
      [] domain = "InputReturn"  -> {snapshot, Len(log)}
      [] domain = "ReturnSeal"   -> {snapshot, Len(log)}
      [] domain \in {"Finalization", "Squeeze"} -> {binding}
      [] OTHER                   -> {}

Reads(domain) ==
    CASE domain = "ReturnInit"   -> {snapshot}
      [] domain = "InputReturn"  -> {snapshot, Len(log)}
      [] domain = "ReturnSeal"   -> {snapshot, Len(log)}
      [] domain = "Finalization" -> {binding}
      [] domain = "Squeeze"      -> {Len(log)}
      [] OTHER                   -> {}

-----------------------------------------------------------------------------
Init == /\ args \in Arguments
        /\ stage = 0 /\ done = 0
        /\ symbol = NoSymbol /\ phase = 0
        /\ symbol_index = 0
        /\ log = <<>>
        /\ snapshot = 0 /\ binding = 0
        /\ output = <<>>
        /\ outcome = "running"

Between == /\ outcome = "running"
           /\ symbol = NoSymbol
           /\ stage > 0 => done = Stages[stage].symbols

MutantEnter ==
    /\ Between
    /\ stage < Len(Stages)
    /\ LET domain == Stages[stage + 1].domain IN
       /\ Accepts(domain)
       /\ log' = Append(log, [op |-> "enter", domain |-> domain])
       /\ symbol_index' = IF domain = "InputForward" THEN 0 ELSE symbol_index
       /\ snapshot' = IF domain = "ReturnInit" THEN Len(log') ELSE snapshot
       /\ binding' = IF domain = "Finalization" THEN Len(log') ELSE binding
    /\ stage' = stage + 1
    /\ done' = 0
    /\ UNCHANGED <<args, symbol, phase, output, outcome>>

MutantEnterKeepsDone ==
    /\ Between
    /\ stage < Len(Stages)
    /\ LET domain == Stages[stage + 1].domain IN
       /\ Accepts(domain)
       /\ log' = Append(log, [op |-> "enter", domain |-> domain])
       /\ symbol_index' = IF domain = "InputForward" THEN 0 ELSE symbol_index
       /\ snapshot' = IF domain = "ReturnInit" THEN Len(log) ELSE snapshot
       /\ binding' = IF domain = "Finalization" THEN Len(log') ELSE binding
    /\ stage' = stage + 1
    /\ UNCHANGED <<args, done, symbol, phase, output, outcome>>

(* The key schedule resets symbol_index when it is complete; the return    *)
(* pass copies the state before, the finalization its controller after     *)
(* enter_domain.                                                           *)
Enter ==
    /\ Between
    /\ stage < Len(Stages)
    /\ LET domain == Stages[stage + 1].domain IN
       /\ Accepts(domain)
       /\ log' = Append(log, [op |-> "enter", domain |-> domain])
       /\ symbol_index' = IF domain = "InputForward" THEN 0 ELSE symbol_index
       /\ snapshot' = IF domain = "ReturnInit" THEN Len(log) ELSE snapshot
       /\ binding' = IF domain = "Finalization" THEN Len(log') ELSE binding
    /\ stage' = stage + 1
    /\ done' = 0
    /\ UNCHANGED <<args, symbol, phase, output, outcome>>

RejectProfile ==
    /\ Between
    /\ stage < Len(Stages)
    /\ ~Accepts(Stages[stage + 1].domain)
    /\ outcome' = "invalid_argument"
    /\ UNCHANGED <<args, stage, done, symbol, phase, symbol_index, log, copies,
                   output>>

(* The next symbol of the domain; in the squeeze it is an output byte.     *)
Generate ==
    /\ outcome = "running" /\ stage > 0 /\ symbol = NoSymbol
    /\ done < Stages[stage].symbols
    /\ symbol' = [byte |-> MessageByte(Domain, done),
                  key  |-> KeyBytes(Domain, done),
                  seen |-> Reads(Domain)]
    /\ output' = IF Domain = "Squeeze" THEN Append(output, Reads(Domain)) ELSE output
    /\ UNCHANGED <<args, stage, done, phase, symbol_index, log, copies, outcome>>

MutantRejectCount ==
    /\ outcome = "running" /\ symbol # NoSymbol
    /\ ~Valid(Moves)
    /\ UNCHANGED vars

(* absorb_symbol tests the count on every call.                            *)
RejectCount ==
    /\ outcome = "running" /\ symbol # NoSymbol
    /\ ~Valid(Moves)
    /\ outcome' = "invalid_argument"
    /\ UNCHANGED <<args, stage, done, symbol, phase, symbol_index, log, copies,
                   output>>

MutantMove ==
    /\ outcome = "running" /\ symbol # NoSymbol
    /\ Valid(Moves)
    /\ log' = Append(log, [op |-> "move", domain |-> Domain, phase |-> phase,
                           symbol_index |-> symbol_index, symbol |-> symbol])
    /\ IF phase + 1 < Moves
       THEN /\ phase' = phase + 1
            /\ UNCHANGED <<done, symbol, symbol_index>>
       ELSE /\ phase' = 0
            /\ done' = done + 1
            /\ symbol' = NoSymbol
            /\ UNCHANGED symbol_index
    /\ UNCHANGED <<args, stage, copies, output, outcome>>

(* One apply_move; after the last of a symbol, symbol_index is increased.  *)
Move ==
    /\ outcome = "running" /\ symbol # NoSymbol
    /\ Valid(Moves)
    /\ log' = Append(log, [op |-> "move", domain |-> Domain, phase |-> phase,
                           symbol_index |-> symbol_index, symbol |-> symbol])
    /\ IF phase + 1 < Moves
       THEN /\ phase' = phase + 1
            /\ UNCHANGED <<done, symbol, symbol_index>>
       ELSE /\ phase' = 0
            /\ done' = done + 1
            /\ symbol' = NoSymbol
            /\ symbol_index' = symbol_index + 1
    /\ UNCHANGED <<args, stage, copies, output, outcome>>

Finish ==
    /\ Between
    /\ stage = Len(Stages)
    /\ outcome' = "output"
    /\ UNCHANGED <<args, stage, done, symbol, phase, symbol_index, log, copies,
                   output>>

Done == outcome # "running" /\ UNCHANGED vars

Next == \/ Enter \/ RejectProfile \/ Generate \/ RejectCount \/ Move \/ Finish
        \/ Done

Spec == Init /\ [][Next]_vars /\ WF_vars(Next)

-----------------------------------------------------------------------------
(* Positions in the log of the moves that begin a symbol of a domain in D. *)
FirstMoves(D) == {i \in 1..Len(log) : /\ log[i].op = "move"
                                      /\ log[i].domain \in D
                                      /\ log[i].phase = 0}

TypeOK == /\ args \in Calls
          /\ stage \in 0..Len(Stages)
          /\ stage > 0 => done \in 0..Stages[stage].symbols
          /\ phase \in 0..MaxCount
          /\ symbol_index \in Nat
          /\ Len(output) <= OutputSize
          /\ {snapshot, binding} \subseteq 0..Len(log)
          /\ outcome \in {"running", "output", "invalid_argument"}

(* No two moves of an evaluation run under the same domain, symbol index   *)
(* and phase, although symbol_index starts again after the key schedule.   *)
LabelsUnique ==
    LET moves == {i \in 1..Len(log) : log[i].op = "move"}
    IN  Cardinality(moves) =
          Cardinality({<<log[i].domain, log[i].symbol_index, log[i].phase>>
                         : i \in moves})

(* An evaluation returns an output exactly when every count it uses is in  *)
(* [1,255].  The forward count of an empty message and the return profile  *)
(* without a return pass are never looked at.                              *)
OutcomeExact ==
    LET unused == (IF args.length = 0 THEN {"forward_moves"} ELSE {})
                    \cup (IF args.fold THEN {} ELSE ReturnCounts)
    IN  outcome # "running" =>
          (outcome = "output" <=> \A f \in Counts \ unused : Valid(args.count[f]))

(* What an output has seen: the whole message in order, the whole message  *)
(* in reverse when there is a return pass, and OutputSize bytes read.      *)
OutputSawBothPasses ==
    LET bytes(d) == {<<Cardinality({j \in FirstMoves({d}) : j <= i}),
                       log[i].symbol.byte>> : i \in FirstMoves({d})}
        n == args.length
    IN  outcome = "output" =>
          /\ bytes("InputForward") = {<<k, {k}>> : k \in 1..n}
          /\ bytes("InputReturn") =
                IF args.fold THEN {<<k, {n + 1 - k}>> : k \in 1..n} ELSE {}
          /\ Len(output) = OutputSize

(* The return pass is derived from the complete forward state: what each   *)
(* of its symbols takes from the snapshot is the state after the last move *)
(* of the forward pass and before the first change of the return pass.     *)
ReturnBindsForwardState ==
    \A i \in FirstMoves({"ReturnInit", "InputReturn", "ReturnSeal"}) :
        {j \in 1..Len(log) : log[j].domain \in {"KeyForward", "KeyReturn",
                                                "KeySeal", "InputForward"}}
            \in {1..k : k \in log[i].symbol.seen}

(* Symbols that depend on the live state see every symbol before them: the *)
(* reverse message, the return seal and the output bytes each read a state *)
(* that no other of them has read.  In particular every output byte is     *)
(* absorbed before the next is produced.                                   *)
NoStateReadTwice ==
    LET live == FirstMoves({"InputReturn", "ReturnSeal", "Squeeze"})
    IN  \A i, j \in live :
            i # j => log[i].symbol.seen # log[j].symbol.seen

(* Each of the three key passes reads every key byte, and none reads past  *)
(* the end of the key.                                                     *)
KeyInEveryPass ==
    outcome = "output" =>
        \A d \in {"KeyForward", "KeyReturn", "KeySeal"} :
            UNION {log[i].symbol.key : i \in FirstMoves({d})} = 0..(KeySize - 1)

(* Every evaluation ends, with an output or an exception.                  *)
Ends == <>(outcome # "running")
=============================================================================
