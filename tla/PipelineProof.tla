---------------------------- MODULE PipelineProof ----------------------------
(***************************************************************************)
(* One evaluation of C1 for every key size, message length, profile and    *)
(* number of bound bytes.                                                  *)
(***************************************************************************)
EXTENDS Pipeline, SequenceTheorems, FiniteSetTheorems, TLAPS

ForwardDomains == {"KeyForward", "KeyReturn", "KeySeal", "InputForward"}
ReturnDomains  == {"ReturnInit", "InputReturn", "ReturnSeal"}

StageRecords == [domain : Domains, symbols : Nat, moves : Nat]

(* What a concatenation holds where.                                       *)
LEMMA Joined ==
    ASSUME NEW S, NEW s \in Seq(S), NEW t \in Seq(S)
    PROVE  /\ s \o t \in Seq(S) /\ Len(s \o t) = Len(s) + Len(t)
           /\ \A i \in 1..Len(s) : (s \o t)[i] = s[i]
           /\ \A i \in 1..Len(t) : (s \o t)[Len(s) + i] = t[i]
<1>1. /\ s \o t \in Seq(S) /\ Len(s \o t) = Len(s) + Len(t)
      /\ \A i \in 1..(Len(s) + Len(t)) :
            (s \o t)[i] = IF i <= Len(s) THEN s[i] ELSE t[i - Len(s)]
  BY ConcatProperties, Zenon
<1>2. Len(s) \in Nat /\ Len(t) \in Nat
  BY LenProperties
<1> DEFINE u == s \o t  n == Len(s)  m == Len(t)
<1>3. \A i \in 1..(n + m) : u[i] = IF i <= n THEN s[i] ELSE t[i - n]
  BY <1>1
<1>4. n \in Nat /\ m \in Nat
  BY <1>2
<1> HIDE DEF u, n, m
<1>5. \A i \in 1..n : u[i] = s[i]
  BY <1>3, <1>4
<1>6. ASSUME NEW i \in 1..m  PROVE u[n + i] = t[i]
  <2>1. n + i \in 1..(n + m) /\ ~(n + i <= n) /\ (n + i) - n = i
    BY <1>4
  <2> QED  BY <1>3, <2>1
<1> QED  BY <1>1, <1>5, <1>6 DEF u, n, m

(* The stages one by one.                                                  *)
LEMMA StagesAre ==
    ASSUME args \in Calls
    PROVE  /\ Stages \in Seq(StageRecords)
           /\ Len(Stages) = IF args.fold THEN 9 ELSE 6
           /\ Stages[1] = KeyStages(args.count)[1]
           /\ Stages[2] = KeyStages(args.count)[2]
           /\ Stages[3] = KeyStages(args.count)[3]
           /\ Stages[4] = ForwardStage(args.count, args.length)[1]
           /\ args.fold => /\ Stages[5] = ReturnStages(args.count, args.length)[1]
                           /\ Stages[6] = ReturnStages(args.count, args.length)[2]
                           /\ Stages[7] = ReturnStages(args.count, args.length)[3]
                           /\ Stages[8] = FinalStages(args.count, args.binding)[1]
                           /\ Stages[9] = FinalStages(args.count, args.binding)[2]
           /\ ~args.fold => /\ Stages[5] = FinalStages(args.count, args.binding)[1]
                            /\ Stages[6] = FinalStages(args.count, args.binding)[2]
<1> DEFINE a == KeyStages(args.count)
           b == ForwardStage(args.count, args.length)
           r == ReturnStages(args.count, args.length)
           m == IF args.fold THEN r ELSE <<>>
           f == FinalStages(args.count, args.binding)
<1>1. /\ args.length \in Nat /\ args.binding \in Nat /\ args.fold \in BOOLEAN
      /\ \A n \in Counts : args.count[n] \in Nat
  BY DEF Calls
<1>2. /\ HeaderSize \in Nat /\ OutputSize \in Nat /\ SealSize \in Nat /\ KeySize \in Nat
  BY SizeAssumption
<1>3. a \in Seq(StageRecords) /\ Len(a) = 3
  BY <1>1, <1>2 DEF KeyStages, StageRecords, Domains, Counts, KeyCounts
<1>4. b \in Seq(StageRecords) /\ Len(b) = 1
  BY <1>1 DEF ForwardStage, StageRecords, Domains, Counts
<1>5. r \in Seq(StageRecords) /\ Len(r) = 3
  BY <1>1 DEF ReturnStages, StageRecords, Domains, Counts, ReturnCounts
<1>6. f \in Seq(StageRecords) /\ Len(f) = 2
  BY <1>1, <1>2 DEF FinalStages, StageRecords, Domains, Counts
<1>7. Stages = ((a \o b) \o m) \o f
  BY DEF Stages
<1> HIDE DEF a, b, r, f
<1>8. /\ args.fold => m = r
      /\ ~args.fold => m = <<>> /\ <<>> \in Seq(StageRecords) /\ Len(<<>>) = 0
  BY EmptySeq
<1> HIDE DEF m
<1> DEFINE x == a \o b  y == x \o m  z == y \o f
<1>s. /\ a \in Seq(StageRecords) /\ b \in Seq(StageRecords)
      /\ r \in Seq(StageRecords) /\ f \in Seq(StageRecords)
  BY <1>3, <1>4, <1>5, <1>6
<1>9. /\ x \in Seq(StageRecords) /\ Len(x) = 4
      /\ x[1] = a[1] /\ x[2] = a[2] /\ x[3] = a[3] /\ x[4] = b[1]
  <2>1. /\ x \in Seq(StageRecords) /\ Len(x) = Len(a) + Len(b)
        /\ \A i \in 1..Len(a) : x[i] = a[i]
    BY <1>s, Joined, Zenon
  <2>2. \A i \in 1..Len(b) : x[Len(a) + i] = b[i]
    BY <1>s, Joined
  <2> HIDE DEF x
  <2> QED  BY <1>3, <1>4, <2>1, <2>2
<1> HIDE DEF x
<1>10. CASE args.fold
  <2>1. /\ y \in Seq(StageRecords) /\ Len(y) = 7
        /\ y[1] = x[1] /\ y[2] = x[2] /\ y[3] = x[3] /\ y[4] = x[4]
        /\ y[5] = r[1] /\ y[6] = r[2] /\ y[7] = r[3]
    <3>s. m = r /\ x \in Seq(StageRecords)
      BY <1>8, <1>9, <1>10
    <3>1. /\ y \in Seq(StageRecords) /\ Len(y) = Len(x) + Len(r)
          /\ \A i \in 1..Len(x) : y[i] = x[i]
      BY <1>s, <3>s, Joined, Zenon
    <3>2. \A i \in 1..Len(r) : y[Len(x) + i] = r[i]
      BY <1>s, <3>s, Joined
    <3> HIDE DEF y
    <3> QED  BY <1>5, <1>8, <1>9, <1>10, <3>1, <3>2
  <2> HIDE DEF y
  <2>2. /\ z \in Seq(StageRecords) /\ Len(z) = 9
        /\ z[1] = y[1] /\ z[2] = y[2] /\ z[3] = y[3] /\ z[4] = y[4]
        /\ z[5] = y[5] /\ z[6] = y[6] /\ z[7] = y[7]
        /\ z[8] = f[1] /\ z[9] = f[2]
    <3>s. y \in Seq(StageRecords)
      BY <2>1
    <3>1. /\ z \in Seq(StageRecords) /\ Len(z) = Len(y) + Len(f)
          /\ \A i \in 1..Len(y) : z[i] = y[i]
      BY <1>s, <3>s, Joined, Zenon
    <3>2. \A i \in 1..Len(f) : z[Len(y) + i] = f[i]
      BY <1>s, <3>s, Joined
    <3> HIDE DEF z
    <3> QED  BY <1>6, <2>1, <3>1, <3>2
  <2> HIDE DEF z
  <2>3. Stages = z
    BY <1>7 DEF x, y, z
  <2> QED  BY <1>9, <1>10, <2>1, <2>2, <2>3 DEF a, b, r, f
<1>11. CASE ~args.fold
  <2>1. /\ y \in Seq(StageRecords) /\ Len(y) = 4
        /\ y[1] = x[1] /\ y[2] = x[2] /\ y[3] = x[3] /\ y[4] = x[4]
    <3>s. m = <<>> /\ <<>> \in Seq(StageRecords) /\ x \in Seq(StageRecords)
      BY <1>8, <1>9, <1>11
    <3>1. /\ y \in Seq(StageRecords) /\ Len(y) = Len(x) + Len(<<>>)
          /\ \A i \in 1..Len(x) : y[i] = x[i]
      BY <3>s, Joined, Zenon
    <3> HIDE DEF y
    <3> QED  BY <1>8, <1>9, <1>11, <3>1
  <2> HIDE DEF y
  <2>2. /\ z \in Seq(StageRecords) /\ Len(z) = 6
        /\ z[1] = y[1] /\ z[2] = y[2] /\ z[3] = y[3] /\ z[4] = y[4]
        /\ z[5] = f[1] /\ z[6] = f[2]
    <3>s. y \in Seq(StageRecords)
      BY <2>1
    <3>1. /\ z \in Seq(StageRecords) /\ Len(z) = Len(y) + Len(f)
          /\ \A i \in 1..Len(y) : z[i] = y[i]
      BY <1>s, <3>s, Joined, Zenon
    <3>2. \A i \in 1..Len(f) : z[Len(y) + i] = f[i]
      BY <1>s, <3>s, Joined
    <3> HIDE DEF z
    <3> QED  BY <1>6, <2>1, <3>1, <3>2
  <2> HIDE DEF z
  <2>3. Stages = z
    BY <1>7 DEF x, y, z
  <2> QED  BY <1>9, <1>11, <2>1, <2>2, <2>3 DEF a, b, r, f
<1> QED  BY <1>1, <1>10, <1>11

(* Stage k is this domain, with so many symbols and this count of moves.   *)
StageIs(k, domain, symbols, count) ==
    /\ Stages[k].domain = domain
    /\ Stages[k].symbols = symbols
    /\ Stages[k].moves = args.count[count]

(* The stages as a table.                                                  *)
LEMMA StageTable ==
    ASSUME args \in Calls
    PROVE  /\ Len(Stages) = IF args.fold THEN 9 ELSE 6
           /\ StageIs(1, "KeyForward", HeaderSize + 2 * KeySize, "key_forward_moves")
           /\ StageIs(2, "KeyReturn", KeySize, "key_return_moves")
           /\ StageIs(3, "KeySeal", SealSize, "key_seal_moves")
           /\ StageIs(4, "InputForward", args.length, "forward_moves")
           /\ args.fold => /\ StageIs(5, "ReturnInit", args.count["init_symbols"], "init_moves")
                           /\ StageIs(6, "InputReturn", args.length, "message_moves")
                           /\ StageIs(7, "ReturnSeal", args.count["seal_symbols"], "seal_moves")
                           /\ StageIs(8, "Finalization", args.binding, "final_moves")
                           /\ StageIs(9, "Squeeze", OutputSize, "squeeze_moves")
           /\ ~args.fold => /\ StageIs(5, "Finalization", args.binding, "final_moves")
                            /\ StageIs(6, "Squeeze", OutputSize, "squeeze_moves")
  BY StagesAre DEF KeyStages, ForwardStage, ReturnStages, FinalStages, StageIs

(* Every stage is a domain of its own; the forward pass comes first, the   *)
(* return pass, if any, begins at stage 5, and the squeeze is the last.    *)
LEMMA StageFacts ==
    ASSUME args \in Calls
    PROVE  /\ Len(Stages) \in Nat /\ Len(Stages) >= 6
           /\ \A k \in 1..Len(Stages) : /\ Stages[k].domain \in Domains
                                       /\ Stages[k].symbols \in Nat
                                       /\ Stages[k].moves \in Nat
           /\ \A k, l \in 1..Len(Stages) :
                  Stages[k].domain = Stages[l].domain => k = l
           /\ \A k \in 1..Len(Stages) :
                  /\ Stages[k].domain \in ForwardDomains <=> k <= 4
                  /\ Stages[k].domain = "ReturnInit" => k = 5
                  /\ Stages[k].domain \in ReturnDomains => args.fold /\ k >= 5
                  /\ Stages[k].domain = "Squeeze" <=> k = Len(Stages)
<1>1. Stages \in Seq(StageRecords) /\ Len(Stages) = IF args.fold THEN 9 ELSE 6
  BY StagesAre
<1>2. /\ Len(Stages) \in Nat /\ Len(Stages) >= 6
      /\ \A k \in 1..Len(Stages) : /\ Stages[k].domain \in Domains
                                  /\ Stages[k].symbols \in Nat
                                  /\ Stages[k].moves \in Nat
  <2>1. \A k \in 1..Len(Stages) : Stages[k] \in StageRecords
    BY <1>1, ElementOfSeq, Zenon
  <2>2. Len(Stages) \in Nat /\ Len(Stages) >= 6
    BY <1>1 DEF Calls
  <2>3. \A r \in StageRecords : /\ r.domain \in Domains /\ r.symbols \in Nat
                                /\ r.moves \in Nat
    BY DEF StageRecords
  <2> QED  BY <2>1, <2>2, <2>3, Zenon
<1> DEFINE d(k) == Stages[k].domain
<1>3. CASE args.fold
  <2>1. /\ Len(Stages) = 9
        /\ d(1) = "KeyForward" /\ d(2) = "KeyReturn" /\ d(3) = "KeySeal"
        /\ d(4) = "InputForward" /\ d(5) = "ReturnInit" /\ d(6) = "InputReturn"
        /\ d(7) = "ReturnSeal" /\ d(8) = "Finalization" /\ d(9) = "Squeeze"
    BY <1>3, StageTable DEF StageIs
  <2> HIDE DEF d
  <2>2. \A k, l \in 1..9 : d(k) = d(l) => k = l
    BY <2>1
  <2>3. \A k \in 1..9 : /\ d(k) \in ForwardDomains <=> k <= 4
                        /\ d(k) = "ReturnInit" => k = 5
                        /\ d(k) \in ReturnDomains => k >= 5
                        /\ d(k) = "Squeeze" <=> k = 9
    BY <2>1 DEF ForwardDomains, ReturnDomains
  <2> QED  BY <1>2, <1>3, <2>1, <2>2, <2>3 DEF d
<1>4. CASE ~args.fold
  <2>1. /\ Len(Stages) = 6
        /\ d(1) = "KeyForward" /\ d(2) = "KeyReturn" /\ d(3) = "KeySeal"
        /\ d(4) = "InputForward" /\ d(5) = "Finalization" /\ d(6) = "Squeeze"
    BY <1>4, StageTable DEF StageIs
  <2> HIDE DEF d
  <2>2. \A k, l \in 1..6 : d(k) = d(l) => k = l
    BY <2>1
  <2>3. \A k \in 1..6 : /\ d(k) \in ForwardDomains <=> k <= 4
                        /\ d(k) # "ReturnInit" /\ d(k) \notin ReturnDomains
                        /\ d(k) = "Squeeze" <=> k = 6
    BY <2>1 DEF ForwardDomains, ReturnDomains
  <2> QED  BY <1>2, <2>1, <2>2, <2>3 DEF d
<1> QED  BY <1>3, <1>4

-----------------------------------------------------------------------------
(* The inductive invariant.                                                *)

(* The entries that enter_domain and apply_move add to the history.        *)
EnterEntries == [op : {"enter"}, domain : Domains]
MoveEntries  == [op : {"move"}, domain : Domains, phase : Nat,
                 symbol_index : Nat, symbol : Symbols]

Entries == EnterEntries \cup MoveEntries

Moved == {i \in 1..Len(log) : log[i].op = "move"}

(* Where a first move stands among the first moves of its domain.          *)
Rank(d, i) == Cardinality({j \in FirstMoves({d}) : j <= i})

(* Symbols of stage k of which at least one move has been made.            *)
Begun(k) == IF k < stage THEN Stages[k].symbols
            ELSE IF k = stage THEN done + (IF phase > 0 THEN 1 ELSE 0)
            ELSE 0

TypeInv == /\ args \in Calls
           /\ stage \in 0..Len(Stages)
           /\ done \in Nat
           /\ stage = 0 => done = 0
           /\ stage > 0 => done <= Stages[stage].symbols
           /\ phase \in Nat
           /\ symbol = NoSymbol => phase = 0
           /\ symbol # NoSymbol => /\ symbol \in Symbols
                                   /\ stage > 0
                                   /\ done < Stages[stage].symbols
                                   /\ phase > 0 => phase < Moves
           /\ symbol_index \in Nat
           /\ log \in Seq(Entries)
           /\ snapshot \in 0..Len(log) /\ binding \in 0..Len(log)
           /\ output \in Seq(SUBSET Nat)
           /\ outcome \in {"running", "output", "invalid_argument"}
           /\ outcome = "output" => /\ stage = Len(Stages)
                                    /\ symbol = NoSymbol
                                    /\ done = Stages[stage].symbols

(* The symbol under absorption is the one its place calls for, and until   *)
(* its first move the state it was computed from is the current one.       *)
SymbolInv == symbol # NoSymbol =>
                 /\ symbol.byte = MessageByte(Domain, done)
                 /\ symbol.key = KeyBytes(Domain, done)
                 /\ phase = 0 => symbol.seen = Reads(Domain)

(* The history knows only the domains entered so far.                      *)
LogInv == \A i \in 1..Len(log) :
              \E k \in 1..stage : log[i].domain = Stages[k].domain

(* In the current domain the labels grow, so the next one is new.          *)
LabelInv ==
    /\ \A i \in Moved : log[i].domain = Domain =>
          \/ log[i].symbol_index < symbol_index
          \/ log[i].symbol_index = symbol_index /\ log[i].phase < phase
    /\ \A i, j \in Moved :
          /\ log[i].domain = log[j].domain
          /\ log[i].symbol_index = log[j].symbol_index
          /\ log[i].phase = log[j].phase
          => i = j

(* The first moves of a stage are those of its first Begun(k) symbols, in  *)
(* order.                                                                  *)
Absorbed(k, d) ==
    /\ Cardinality(FirstMoves({d})) = Begun(k)
    /\ \A i \in FirstMoves({d}) :
          /\ Rank(d, i) \in 1..Begun(k)
          /\ log[i].symbol.byte = MessageByte(d, Rank(d, i) - 1)
          /\ log[i].symbol.key = KeyBytes(d, Rank(d, i) - 1)
    /\ \A q \in 1..Begun(k) : \E i \in FirstMoves({d}) : Rank(d, i) = q

AbsorbInv == \A k \in 1..Len(Stages) : \A d \in Domains :
                 Stages[k].domain = d => Absorbed(k, d)

(* The counts an evaluation has relied on are valid, and it was refused    *)
(* for an invalid one that it uses.                                        *)
Unused == (IF args.length = 0 THEN {"forward_moves"} ELSE {})
            \cup (IF args.fold THEN {} ELSE ReturnCounts)

CountInv ==
    /\ \A k \in 1..stage : Accepts(Stages[k].domain)
    /\ \A k \in 1..stage : Begun(k) > 0 => Valid(Stages[k].moves)
    /\ outcome = "invalid_argument" =>
          \E f \in Counts \ Unused : ~Valid(args.count[f])

(* One state is read per output byte.                                      *)
OutputInv ==
    Len(output) = IF stage < Len(Stages) THEN 0
                  ELSE done + (IF symbol = NoSymbol THEN 0 ELSE 1)

(* The copy of the return pass is the state at the end of the forward pass.*)
SnapshotInv ==
    \A k \in 1..stage : Stages[k].domain = "ReturnInit" =>
        {j \in 1..Len(log) : log[j].domain \in ForwardDomains} = 1..snapshot

(* What the symbols of the return pass and the output bytes were computed  *)
(* from.                                                                   *)
SeenInv ==
    /\ \A i \in FirstMoves({"ReturnInit"}) : log[i].symbol.seen = {snapshot}
    /\ \A i \in FirstMoves({"InputReturn", "ReturnSeal"}) :
          log[i].symbol.seen = {snapshot, i - 1}
    /\ \A i \in FirstMoves({"Squeeze"}) : log[i].symbol.seen = {i - 1}

PipelineInv == /\ TypeInv /\ SymbolInv /\ LogInv /\ LabelInv /\ AbsorbInv
               /\ CountInv /\ OutputInv /\ SnapshotInv /\ SeenInv

-----------------------------------------------------------------------------
(* One more entry in the history.                                          *)

LEMMA Appended ==
    ASSUME log \in Seq(Entries), NEW e \in Entries, log' = Append(log, e)
    PROVE  /\ log' \in Seq(Entries)
           /\ Len(log) \in Nat /\ Len(log') = Len(log) + 1
           /\ \A i \in 1..Len(log) : log'[i] = log[i]
           /\ log'[Len(log) + 1] = e
           /\ \A i : i \in 1..Len(log') <=> i \in 1..Len(log) \/ i = Len(log) + 1
<1>1. Len(log) \in Nat
  BY LenProperties
<1>2. /\ Append(log, e) \in Seq(Entries)
      /\ Len(Append(log, e)) = Len(log) + 1
      /\ \A i \in 1..Len(log) : Append(log, e)[i] = log[i]
      /\ Append(log, e)[Len(log) + 1] = e
  BY AppendProperties
<1>3. \A i : i \in 1..(Len(log) + 1) <=> i \in 1..Len(log) \/ i = Len(log) + 1
  BY <1>1
<1> QED  BY <1>1, <1>2, <1>3

(* The first moves before and after.                                       *)
LEMMA FirstMovesAppended ==
    ASSUME log \in Seq(Entries), NEW e \in Entries, log' = Append(log, e), NEW D
    PROVE  /\ e.op = "move" /\ e.domain \in D /\ e.phase = 0 =>
                 FirstMoves(D)' = FirstMoves(D) \cup {Len(log) + 1}
           /\ ~(e.op = "move" /\ e.domain \in D /\ e.phase = 0) =>
                 FirstMoves(D)' = FirstMoves(D)
           /\ FirstMoves(D) \subseteq 1..Len(log)
           /\ Len(log) + 1 \notin 1..Len(log)
<1>1. /\ Len(log) \in Nat
      /\ \A i \in 1..Len(log) : log'[i] = log[i]
      /\ log'[Len(log) + 1] = e
      /\ \A i : i \in 1..Len(log') <=> i \in 1..Len(log) \/ i = Len(log) + 1
  BY Appended
<1>2. Len(log) + 1 \notin 1..Len(log)
  BY <1>1
<1> QED  BY <1>1, <1>2 DEF FirstMoves

(* Ranks are not disturbed, and a new first move is the last of its domain.*)
LEMMA RankAppended ==
    ASSUME log \in Seq(Entries), NEW e \in Entries, log' = Append(log, e), NEW d
    PROVE  /\ Cardinality(FirstMoves({d})) \in Nat
           /\ \A i \in 1..Len(log) : Rank(d, i)' = Rank(d, i)
           /\ e.op = "move" /\ e.domain = d /\ e.phase = 0 =>
                 /\ \A i : i = Len(log) + 1 =>
                              Rank(d, i)' = Cardinality(FirstMoves({d})) + 1
                 /\ Cardinality(FirstMoves({d})') = Cardinality(FirstMoves({d})) + 1
<1> DEFINE F == FirstMoves({d})  n == Len(log) + 1
<1>1. /\ e.op = "move" /\ e.domain = d /\ e.phase = 0 => F' = F \cup {n}
      /\ ~(e.op = "move" /\ e.domain = d /\ e.phase = 0) => F' = F
      /\ F \subseteq 1..Len(log)
  BY FirstMovesAppended
<1>2. Len(log) \in Nat
  BY LenProperties
<1>3. IsFiniteSet(F) /\ Cardinality(F) \in Nat
  <2>1. IsFiniteSet(1..Len(log))
    BY <1>2, FS_Interval
  <2>2. IsFiniteSet(F)
    BY <1>1, <2>1, FS_Subset
  <2> QED  BY <2>2, FS_CardinalityType
<1>4. ASSUME NEW i \in 1..Len(log)  PROVE Rank(d, i)' = Rank(d, i)
  <2>1. {j \in F' : j <= i} = {j \in F : j <= i}
    <3>1. ~(n <= i)
      BY <1>2
    <3> HIDE DEF F, n
    <3> QED  BY <1>1, <3>1
  <2> QED  BY <2>1 DEF Rank
<1>5. ASSUME e.op = "move", e.domain = d, e.phase = 0, NEW i, i = Len(log) + 1
      PROVE  /\ Rank(d, i)' = Cardinality(F) + 1
             /\ Cardinality(F') = Cardinality(F) + 1
  <2>1. F' = F \cup {i}
    BY <1>1, <1>5
  <2>2. i \notin 1..Len(log) /\ \A j \in 1..Len(log) : j <= i
    BY <1>2, <1>5
  <2>3. i \notin F
    BY <1>1, <2>2
  <2> HIDE DEF F
  <2>4. Cardinality(F') = Cardinality(F) + 1
    BY <1>3, <2>1, <2>3, FS_AddElement
  <2>5. i <= i
    BY <1>2, <1>5
  <2>6. {j \in F' : j <= i} = F'
    BY <1>1, <2>1, <2>2, <2>5
  <2> QED  BY <2>4, <2>6 DEF Rank, F
<1> QED  BY <1>3, <1>4, <1>5

-----------------------------------------------------------------------------
(* The invariant holds at the start.                                       *)
LEMMA InitInvariant == Init => PipelineInv
<1> SUFFICES ASSUME Init PROVE PipelineInv
  OBVIOUS
<1>1. /\ args \in Calls /\ stage = 0 /\ done = 0 /\ phase = 0 /\ log = <<>>
      /\ symbol = NoSymbol /\ symbol_index = 0 /\ snapshot = 0 /\ binding = 0
      /\ output = <<>> /\ outcome = "running"
  BY ArgumentsAssumption DEF Init
<1>2. Len(log) = 0 /\ log \in Seq(Entries) /\ Len(output) = 0 /\ output \in Seq(SUBSET Nat)
  BY <1>1, EmptySeq
<1>3. Len(Stages) \in Nat /\ Len(Stages) >= 6
  BY <1>1, StageFacts
<1> HIDE DEF Init, Stages
<1>4. 1..Len(log) = {} /\ 1..stage = {}
  BY <1>1, <1>2
<1>5. Moved = {} /\ \A D : FirstMoves(D) = {}
  BY <1>4 DEF Moved, FirstMoves
<1>6. TypeInv
  BY <1>1, <1>2, <1>3 DEF TypeInv
<1>7. SymbolInv /\ LogInv /\ LabelInv /\ SnapshotInv /\ SeenInv
  BY <1>1, <1>4, <1>5 DEF SymbolInv, LogInv, LabelInv, SnapshotInv, SeenInv
<1>8. AbsorbInv
  <2> SUFFICES ASSUME NEW k \in 1..Len(Stages), NEW d \in Domains PROVE Absorbed(k, d)
    BY DEF AbsorbInv
  <2>1. Begun(k) = 0
    BY <1>1, <1>3 DEF Begun
  <2>2. Cardinality(FirstMoves({d})) = 0
    BY <1>5, FS_EmptySet
  <2> QED  BY <1>5, <2>1, <2>2 DEF Absorbed
<1>9. CountInv
  BY <1>1, <1>4 DEF CountInv
<1>10. OutputInv
  BY <1>1, <1>2, <1>3 DEF OutputInv
<1> QED  BY <1>6, <1>7, <1>8, <1>9, <1>10 DEF PipelineInv

(* What a step that makes no move and enters no domain leaves as it was.   *)
LEMMA SameHistory ==
    ASSUME UNCHANGED <<args, stage, done, phase, symbol_index, log, copies>>,
           LogInv, LabelInv, AbsorbInv, SnapshotInv, SeenInv
    PROVE  LogInv' /\ LabelInv' /\ AbsorbInv' /\ SnapshotInv' /\ SeenInv'
<1>1. /\ UNCHANGED <<args, stage, done, phase, symbol_index, log, snapshot, binding>>
      /\ Stages' = Stages /\ Domain' = Domain
  BY DEF copies, Stages, Domain
<1>2. LogInv' /\ LabelInv' /\ SnapshotInv'
  BY <1>1 DEF LogInv, LabelInv, SnapshotInv, Moved
<1>3. \A D : FirstMoves(D)' = FirstMoves(D)
  BY <1>1 DEF FirstMoves
<1>4. SeenInv'
  BY <1>1, <1>3 DEF SeenInv
<1>5. AbsorbInv'
  <2> SUFFICES ASSUME NEW k \in 1..Len(Stages), NEW d \in Domains, Stages[k].domain = d
               PROVE  Absorbed(k, d)'
    BY <1>1 DEF AbsorbInv
  <2>1. Absorbed(k, d)
    BY DEF AbsorbInv
  <2>2. Begun(k)' = Begun(k) /\ \A i : Rank(d, i)' = Rank(d, i)
    BY <1>1, <1>3 DEF Begun, Rank
  <2> QED  BY <1>1, <1>3, <2>1, <2>2 DEF Absorbed, MessageByte
<1> QED  BY <1>2, <1>4, <1>5

(* What an evaluation that only changes its outcome leaves as it was.      *)
LEMMA OutcomeOnly ==
    ASSUME UNCHANGED <<args, stage, done, symbol, phase, symbol_index, log, copies,
                       output>>,
           SymbolInv, LogInv, LabelInv, AbsorbInv, OutputInv, SnapshotInv, SeenInv
    PROVE  /\ SymbolInv' /\ LogInv' /\ LabelInv' /\ AbsorbInv' /\ OutputInv'
           /\ SnapshotInv' /\ SeenInv'
<1>1. /\ UNCHANGED <<args, stage, done, symbol, phase, log, snapshot, binding, output>>
      /\ Stages' = Stages /\ Domain' = Domain
  BY DEF copies, Stages, Domain
<1>2. SymbolInv'
  BY <1>1 DEF SymbolInv, MessageByte, Reads
<1>3. OutputInv'
  BY <1>1 DEF OutputInv
<1> QED  BY <1>2, <1>3, SameHistory

(* A profile is refused for a count that the evaluation uses.              *)
LEMMA RefusedProfile ==
    ASSUME args \in Calls, NEW k \in 1..Len(Stages), ~Accepts(Stages[k].domain)
    PROVE  \E f \in Counts \ Unused : ~Valid(args.count[f])
<1> DEFINE d == Stages[k].domain
<1>1. d \in {"KeyForward", "ReturnInit", "Finalization"}
  BY DEF Accepts
<1>2. d \in ReturnDomains => args.fold
  BY StageFacts
<1> HIDE DEF d
<1>3. CASE d = "KeyForward"
  <2>1. PICK f \in KeyCounts : ~Valid(args.count[f])
    BY <1>3 DEF Accepts, ValidKeyProfile, d
  <2>2. f \in Counts \ Unused
    BY DEF Counts, KeyCounts, Unused, ReturnCounts
  <2> QED  BY <2>1, <2>2
<1>4. CASE d = "ReturnInit"
  <2>1. PICK f \in ReturnCounts : ~Valid(args.count[f])
    BY <1>4 DEF Accepts, ValidReturnProfile, d
  <2>2. args.fold
    BY <1>2, <1>4 DEF ReturnDomains
  <2>3. f \in Counts \ Unused
    BY <2>2 DEF Counts, Unused, ReturnCounts
  <2> QED  BY <2>1, <2>3
<1>5. CASE d = "Finalization"
  <2>1. args.count["final_moves"] = 0 \/ args.count["squeeze_moves"] = 0
    BY <1>5 DEF Accepts, ValidFinalCounts, d
  <2>2. {"final_moves", "squeeze_moves"} \subseteq Counts \ Unused
    BY DEF Counts, Unused, ReturnCounts
  <2>3. ~Valid(0)
    BY SizeAssumption DEF Valid
  <2> QED  BY <2>1, <2>2, <2>3
<1> QED  BY <1>1, <1>3, <1>4, <1>5

(* absorb_symbol refuses a count that the evaluation uses.                 *)
LEMMA RefusedCount ==
    ASSUME args \in Calls, NEW k \in 1..Len(Stages),
           Stages[k].symbols > 0, ~Valid(Stages[k].moves)
    PROVE  \E f \in Counts \ Unused : ~Valid(args.count[f])
<1> DEFINE kept == Counts \ Unused
<1>1. {"key_forward_moves", "key_return_moves", "key_seal_moves", "final_moves",
       "squeeze_moves"} \subseteq kept
  BY DEF Counts, KeyCounts, Unused, ReturnCounts
<1>2. args.length > 0 => "forward_moves" \in kept
  BY DEF Counts, Unused, ReturnCounts
<1>3. args.fold => {"init_moves", "message_moves", "seal_moves"} \subseteq kept
  BY DEF Counts, Unused, ReturnCounts
<1> HIDE DEF kept
<1>4. \E f \in kept : Stages[k].moves = args.count[f]
  <2>1. CASE k \in 1..3
    BY <1>1, <2>1, StageTable DEF StageIs
  <2>2. CASE k = 4
    BY <1>2, <2>2, StageTable DEF StageIs
  <2>3. CASE args.fold /\ k \in 5..7
    BY <1>3, <2>3, StageTable DEF StageIs
  <2>4. CASE args.fold /\ k \in 8..9
    BY <1>1, <2>4, StageTable DEF StageIs
  <2>5. CASE ~args.fold /\ k \in 5..6
    BY <1>1, <2>5, StageTable DEF StageIs
  <2>6. args.fold => k \in 1..9
    BY StageTable
  <2>7. ~args.fold => k \in 1..6
    BY StageTable
  <2> QED  BY <2>1, <2>2, <2>3, <2>4, <2>5, <2>6, <2>7
<1> QED  BY <1>4 DEF kept

LEMMA RejectProfilePreserves == PipelineInv /\ RejectProfile => PipelineInv'
<1> SUFFICES ASSUME PipelineInv, RejectProfile PROVE PipelineInv'
  OBVIOUS
<1>1. /\ UNCHANGED <<args, stage, done, symbol, phase, symbol_index, log, copies, output>>
      /\ outcome' = "invalid_argument" /\ ~Accepts(Stages[stage + 1].domain)
      /\ stage < Len(Stages)
  BY DEF RejectProfile
<1>2. /\ SymbolInv' /\ LogInv' /\ LabelInv' /\ AbsorbInv' /\ OutputInv'
      /\ SnapshotInv' /\ SeenInv'
  BY <1>1, OutcomeOnly DEF PipelineInv
<1>3. TypeInv /\ Stages' = Stages /\ Moves' = Moves
  BY <1>1 DEF PipelineInv, Stages, Moves
<1>4. TypeInv'
  BY <1>1, <1>3 DEF TypeInv, copies
<1>5. \E f \in Counts \ Unused : ~Valid(args.count[f])
  <2>1. args \in Calls /\ stage + 1 \in 1..Len(Stages)
    BY <1>1, <1>3, StageFacts DEF TypeInv
  <2> QED  BY <1>1, <2>1, RefusedProfile
<1>6. CountInv'
  BY <1>1, <1>3, <1>5 DEF PipelineInv, CountInv, Begun, Unused, Accepts
<1> QED  BY <1>2, <1>4, <1>6 DEF PipelineInv

LEMMA RejectCountPreserves == PipelineInv /\ RejectCount => PipelineInv'
<1> SUFFICES ASSUME PipelineInv, RejectCount PROVE PipelineInv'
  OBVIOUS
<1>1. /\ UNCHANGED <<args, stage, done, symbol, phase, symbol_index, log, copies, output>>
      /\ outcome' = "invalid_argument" /\ symbol # NoSymbol /\ ~Valid(Moves)
  BY DEF RejectCount
<1>2. /\ SymbolInv' /\ LogInv' /\ LabelInv' /\ AbsorbInv' /\ OutputInv'
      /\ SnapshotInv' /\ SeenInv'
  BY <1>1, OutcomeOnly DEF PipelineInv
<1>3. TypeInv /\ Stages' = Stages /\ Moves' = Moves
  BY <1>1 DEF PipelineInv, Stages, Moves
<1>4. TypeInv'
  BY <1>1, <1>3 DEF TypeInv, copies
<1>5. \E f \in Counts \ Unused : ~Valid(args.count[f])
  <2>1. /\ args \in Calls /\ stage \in 1..Len(Stages)
        /\ Stages[stage].symbols > 0
    BY <1>1, <1>3, StageFacts DEF TypeInv
  <2> QED  BY <1>1, <2>1, RefusedCount DEF Moves
<1>6. CountInv'
  BY <1>1, <1>3, <1>5 DEF PipelineInv, CountInv, Begun, Unused, Accepts
<1> QED  BY <1>2, <1>4, <1>6 DEF PipelineInv

LEMMA FinishPreserves == PipelineInv /\ Finish => PipelineInv'
<1> SUFFICES ASSUME PipelineInv, Finish PROVE PipelineInv'
  OBVIOUS
<1>1. /\ UNCHANGED <<args, stage, done, symbol, phase, symbol_index, log, copies, output>>
      /\ outcome' = "output" /\ Between /\ stage = Len(Stages)
  BY DEF Finish
<1>2. /\ SymbolInv' /\ LogInv' /\ LabelInv' /\ AbsorbInv' /\ OutputInv'
      /\ SnapshotInv' /\ SeenInv'
  BY <1>1, OutcomeOnly DEF PipelineInv
<1>3. TypeInv /\ Stages' = Stages /\ Moves' = Moves
  BY <1>1 DEF PipelineInv, Stages, Moves
<1>4. Len(Stages) >= 6
  BY <1>3, StageFacts DEF TypeInv
<1>5. TypeInv'
  BY <1>1, <1>3, <1>4 DEF TypeInv, copies, Between
<1>6. CountInv'
  BY <1>1, <1>3 DEF PipelineInv, CountInv, Begun, Unused, Accepts
<1> QED  BY <1>2, <1>5, <1>6 DEF PipelineInv

LEMMA StutterPreserves == PipelineInv /\ UNCHANGED vars => PipelineInv'
<1> SUFFICES ASSUME PipelineInv, UNCHANGED vars PROVE PipelineInv'
  OBVIOUS
<1>1. /\ UNCHANGED <<args, stage, done, symbol, phase, symbol_index, log, copies, output>>
      /\ outcome' = outcome
  BY DEF vars, copies
<1>2. /\ SymbolInv' /\ LogInv' /\ LabelInv' /\ AbsorbInv' /\ OutputInv'
      /\ SnapshotInv' /\ SeenInv'
  BY <1>1, OutcomeOnly DEF PipelineInv
<1>3. TypeInv /\ Stages' = Stages /\ Moves' = Moves
  BY <1>1 DEF PipelineInv, Stages, Moves
<1>4. TypeInv'
  BY <1>1, <1>3 DEF TypeInv, copies
<1>5. CountInv'
  BY <1>1, <1>3 DEF PipelineInv, CountInv, Begun, Unused, Accepts
<1> QED  BY <1>2, <1>4, <1>5 DEF PipelineInv

(* What a symbol may be computed from.                                     *)
LEMMA SymbolTyped ==
    ASSUME TypeInv, NEW d, NEW n \in Nat
    PROVE  [byte |-> MessageByte(d, n), key |-> KeyBytes(d, n), seen |-> Reads(d)]
             \in Symbols
<1>1. MessageByte(d, n) \in SUBSET Int
  BY DEF MessageByte, TypeInv, Calls
<1>2. Reads(d) \in SUBSET Nat
  BY LenProperties DEF Reads, TypeInv
<1>3. KeyBytes(d, n) \in SUBSET Int
  <2> DEFINE j == IF d = "KeyForward" THEN (n - HeaderSize) \div 2
                  ELSE IF d = "KeyReturn" THEN KeySize - 1 - n ELSE n
  <2>1. KeySize \in Nat \ {0} /\ SealSize \in Nat /\ HeaderSize \in Nat
    BY SizeAssumption
  <2>2. j \in Int
    BY <2>1
  <2> HIDE DEF j
  <2>3. \A m \in Int : (j + m) % KeySize \in Int /\ j + m \in Int
    BY <2>1, <2>2
  <2> DEFINE at(m) == (j + m) % KeySize
  <2>4. KeyBytes(d, n) \in {{}, {j}, {j, at(11), at(23)}, {j, at(7), at(19)},
                            {j, j + SealSize, at(5), at(27)}}
    BY DEF KeyBytes, j
  <2>5. \A m \in Int : at(m) \in Int
    BY <2>3
  <2> HIDE DEF at
  <2> QED  BY <2>1, <2>2, <2>3, <2>4, <2>5
<1> QED  BY <1>1, <1>2, <1>3 DEF Symbols

LEMMA GeneratePreserves == PipelineInv /\ Generate => PipelineInv'
<1> SUFFICES ASSUME PipelineInv, Generate PROVE PipelineInv'
  OBVIOUS
<1> DEFINE new == [byte |-> MessageByte(Domain, done), key |-> KeyBytes(Domain, done),
                   seen |-> Reads(Domain)]
<1>1. /\ UNCHANGED <<args, stage, done, phase, symbol_index, log, copies>>
      /\ UNCHANGED <<snapshot, binding, outcome>>
      /\ outcome = "running" /\ stage > 0 /\ symbol = NoSymbol
      /\ done < Stages[stage].symbols /\ symbol' = new
      /\ output' = IF Domain = "Squeeze" THEN Append(output, Reads(Domain)) ELSE output
  BY DEF Generate, copies
<1>2. LogInv' /\ LabelInv' /\ AbsorbInv' /\ SnapshotInv' /\ SeenInv'
  BY <1>1, SameHistory DEF PipelineInv
<1>3. TypeInv /\ Stages' = Stages /\ Moves' = Moves /\ Domain' = Domain
  BY <1>1 DEF PipelineInv, Stages, Moves, Domain
<1>4. phase = 0 /\ args \in Calls /\ stage \in 1..Len(Stages) /\ done \in Nat
  BY <1>1, <1>3, StageFacts DEF TypeInv
<1>5. new \in Symbols /\ symbol' # NoSymbol
  BY <1>1, <1>3, <1>4, SymbolTyped, NoSymbolAssumption
<1>6. SymbolInv'
  BY <1>1, <1>3 DEF SymbolInv, MessageByte, KeyBytes, Reads
<1>7. output' \in Seq(SUBSET Nat) /\ OutputInv'
  <2>1. new.seen = Reads(Domain) /\ Reads(Domain) \in SUBSET Nat
    BY <1>5 DEF Symbols
  <2>2. /\ output \in Seq(SUBSET Nat)
        /\ Len(output) = IF stage < Len(Stages) THEN 0 ELSE done
    BY <1>1, <1>3 DEF PipelineInv, OutputInv, TypeInv
  <2>3. CASE Domain = "Squeeze"
    <3>1. stage = Len(Stages)
      BY <1>4, <2>3, StageFacts DEF Domain
    <3>2. output' \in Seq(SUBSET Nat) /\ Len(output') = Len(output) + 1
      BY <1>1, <2>1, <2>2, <2>3, AppendProperties
    <3>3. Len(output') = done + 1
      BY <1>4, <2>2, <3>1, <3>2, StageFacts
    <3> QED  BY <1>1, <1>3, <1>4, <1>5, <3>1, <3>2, <3>3, StageFacts DEF OutputInv
  <2>4. CASE Domain # "Squeeze"
    <3>1. stage < Len(Stages)
      BY <1>4, <2>4, StageFacts DEF Domain
    <3> QED  BY <1>1, <1>3, <2>2, <2>4, <3>1 DEF OutputInv
  <2> QED  BY <2>3, <2>4
<1>8. TypeInv'
  BY <1>1, <1>3, <1>4, <1>5, <1>7 DEF TypeInv
<1>9. CountInv'
  BY <1>1, <1>3 DEF PipelineInv, CountInv, Begun, Unused, Accepts
<1> QED  BY <1>2, <1>6, <1>7, <1>8, <1>9 DEF PipelineInv

(* enter_domain begins a domain that the history has not seen.             *)
LEMMA EnterPreserves == PipelineInv /\ Enter => PipelineInv'
<1> SUFFICES ASSUME PipelineInv, Enter PROVE PipelineInv'
  OBVIOUS
<1> DEFINE new == Stages[stage + 1].domain
           e == [op |-> "enter", domain |-> new]
           old == 1..Len(log)
           n == Len(log) + 1
<1>1. /\ UNCHANGED <<args, symbol, phase, output, outcome>>
      /\ Between /\ stage < Len(Stages) /\ Accepts(new)
      /\ log' = Append(log, e) /\ stage' = stage + 1 /\ done' = 0
      /\ symbol_index' = IF new = "InputForward" THEN 0 ELSE symbol_index
      /\ snapshot' = IF new = "ReturnInit" THEN Len(log) ELSE snapshot
      /\ binding' = IF new = "Finalization" THEN Len(log') ELSE binding
  BY DEF Enter
<1>2. /\ TypeInv /\ Stages' = Stages
  BY <1>1 DEF PipelineInv, Stages
<1>3. /\ args \in Calls /\ stage \in Nat /\ stage + 1 \in 1..Len(Stages)
      /\ Len(Stages) \in Nat
      /\ outcome = "running" /\ symbol = NoSymbol /\ phase = 0 /\ done \in Nat
      /\ stage > 0 => done = Stages[stage].symbols
      /\ log \in Seq(Entries) /\ new \in Domains
  <2>1. args \in Calls
    BY <1>2 DEF TypeInv
  <2> QED  BY <1>1, <1>2, <2>1, StageFacts DEF TypeInv, Between
<1>4. e \in Entries
  BY <1>3 DEF Entries, EnterEntries
<1>5. /\ log' \in Seq(Entries) /\ Len(log) \in Nat /\ Len(log') = n
      /\ \A i \in old : log'[i] = log[i]
      /\ log'[n] = e
      /\ \A i : i \in 1..Len(log') <=> i \in old \/ i = n
      /\ n \notin old
  <2>1. /\ log' \in Seq(Entries) /\ Len(log) \in Nat /\ Len(log') = n
        /\ \A i \in old : log'[i] = log[i]
        /\ log'[n] = e
        /\ \A i : i \in 1..Len(log') <=> i \in old \/ i = n
    BY <1>1, <1>3, <1>4, Appended
  <2> QED  BY <2>1
<1>6. \A D : FirstMoves(D)' = FirstMoves(D)
  BY <1>1, <1>3, <1>4, FirstMovesAppended
<1>7. \A i \in old : \E k \in 1..stage : log[i].domain = Stages[k].domain
  BY DEF PipelineInv, LogInv
<1>8. \A i \in old : log[i].domain # new
  BY <1>3, <1>7, StageFacts
<1>9. /\ e.op = "enter" /\ e.domain = new
  OBVIOUS
<1>10. \A k \in 1..Len(Stages) : Begun(k)' = Begun(k) /\ (k > stage => Begun(k) = 0)
  BY <1>1, <1>2, <1>3 DEF Begun
<1>11. Domain' = new
  BY <1>1, <1>2 DEF Domain
<1> HIDE DEF new, e, old, n
<1>12. TypeInv'
  <2>1. /\ stage' \in 0..Len(Stages) /\ stage' > 0 /\ done' = 0
        /\ 0 <= Stages[stage'].symbols
    BY <1>1, <1>3, StageFacts
  <2>2. symbol_index' \in Nat
    BY <1>1, <1>2 DEF TypeInv
  <2>3. snapshot' \in 0..Len(log') /\ binding' \in 0..Len(log')
    BY <1>1, <1>2, <1>5 DEF TypeInv, n
  <2> QED  BY <1>1, <1>2, <1>3, <1>5, <2>1, <2>2, <2>3 DEF TypeInv
<1>13. SymbolInv'
  BY <1>1, <1>3 DEF SymbolInv
<1>14. LogInv'
  <2> SUFFICES ASSUME NEW i \in 1..Len(log')
               PROVE  \E k \in 1..(stage + 1) : log'[i].domain = Stages[k].domain
    BY <1>1, <1>2 DEF LogInv
  <2>1. CASE i \in old
    BY <1>3, <1>5, <1>7, <2>1
  <2>2. CASE i = n
    BY <1>3, <1>5, <1>9, <2>2 DEF new
  <2> QED  BY <1>5, <2>1, <2>2
<1>15. LabelInv'
  <2>1. Moved' = Moved /\ Moved \subseteq old
    BY <1>5, <1>9 DEF Moved, old
  <2> QED  BY <1>5, <1>8, <1>11, <2>1 DEF LabelInv, PipelineInv
<1>16. AbsorbInv'
  <2> SUFFICES ASSUME NEW k \in 1..Len(Stages), NEW d \in Domains, Stages[k].domain = d
               PROVE  Absorbed(k, d)'
    BY <1>2 DEF AbsorbInv
  <2>1. Absorbed(k, d) /\ Begun(k)' = Begun(k) /\ FirstMoves({d})' = FirstMoves({d})
    BY <1>6, <1>10 DEF AbsorbInv, PipelineInv
  <2>2. FirstMoves({d}) \subseteq old
    BY DEF FirstMoves, old
  <2>3. \A i \in old : Rank(d, i)' = Rank(d, i)
    BY <1>1, <1>3, <1>4, RankAppended DEF old
  <2>4. \A i \in FirstMoves({d}) : Rank(d, i)' = Rank(d, i) /\ log'[i] = log[i]
    BY <1>5, <2>2, <2>3
  <2>5. Cardinality(FirstMoves({d}))' = Begun(k)'
    BY <2>1 DEF Absorbed
  <2>6. ASSUME NEW i \in FirstMoves({d})
        PROVE  (/\ Rank(d, i) \in 1..Begun(k)
                /\ log[i].symbol.byte = MessageByte(d, Rank(d, i) - 1)
                /\ log[i].symbol.key = KeyBytes(d, Rank(d, i) - 1))'
    BY <1>1, <2>1, <2>4 DEF Absorbed, MessageByte
  <2>7. ASSUME NEW q \in 1..Begun(k)'
        PROVE  \E i \in FirstMoves({d})' : Rank(d, i)' = q
    <3>1. \E i \in FirstMoves({d}) : Rank(d, i) = q
      BY <2>1, <2>7 DEF Absorbed
    <3>2. PICK i \in FirstMoves({d}) : Rank(d, i) = q
      BY <3>1
    <3> QED  BY <2>1, <2>4, <3>2
  <2> QED  BY <2>1, <2>5, <2>6, <2>7 DEF Absorbed
<1>17. CountInv'
  <2>1. CountInv
    BY DEF PipelineInv
  <2>2. ASSUME NEW k \in 1..(stage + 1)
        PROVE  /\ Accepts(Stages[k].domain)'
               /\ Begun(k)' > 0 => Valid(Stages[k].moves)
    <3>1. k \in 1..Len(Stages) /\ (k \in 1..stage \/ k = stage + 1)
      BY <1>1, <1>3
    <3>2. Accepts(Stages[k].domain)
      BY <1>1, <2>1, <3>1 DEF CountInv, new
    <3>3. Begun(k)' = Begun(k) /\ (Begun(k) > 0 => k \in 1..stage)
      BY <1>3, <1>10, <3>1
    <3> QED  BY <1>1, <1>2, <2>1, <3>2, <3>3 DEF CountInv, Accepts
  <2> QED  BY <1>1, <1>2, <1>3, <2>2 DEF CountInv
<1>18. OutputInv'
  BY <1>1, <1>2, <1>3 DEF PipelineInv, OutputInv
<1>19. SnapshotInv'
  <2> DEFINE F == {j \in old : log[j].domain \in ForwardDomains}
             G == {j \in 1..Len(log') : log'[j].domain \in ForwardDomains}
  <2>1. SnapshotInv
    BY DEF PipelineInv
  <2> SUFFICES ASSUME NEW k \in 1..(stage + 1), Stages[k].domain = "ReturnInit"
               PROVE  G = 1..snapshot'
    BY <1>1, <1>2 DEF SnapshotInv
  <2>r. k \in 1..Len(Stages)
    BY <1>3
  <2>2. k \in 1..Len(Stages) /\ k = 5
    BY <1>3, <2>r, StageFacts
  <2>3. new \notin ForwardDomains
    BY <1>3, <2>2, StageFacts DEF new
  <2>4. G = F
    BY <1>5, <1>9, <2>3
  <2>5. CASE k = stage + 1
    <3>1. new = "ReturnInit"
      BY <2>5 DEF new
    <3>2. snapshot' = Len(log)
      BY <1>1, <3>1
    <3>3. F = old
      BY <1>3, <1>7, <2>2, <2>5, StageFacts
    <3> QED  BY <2>4, <3>2, <3>3 DEF old
  <2>6. CASE k # stage + 1
    <3>1. k \in 1..stage
      BY <1>3, <2>6
    <3>2. new # "ReturnInit"
      BY <1>3, <2>2, <2>6, StageFacts DEF new
    <3>3. snapshot' = snapshot
      BY <1>1, <3>2
    <3>4. F = 1..snapshot
      BY <2>1, <3>1 DEF SnapshotInv, old
    <3> QED  BY <2>4, <3>3, <3>4
  <2> QED  BY <2>5, <2>6
<1>20. SeenInv'
  <2>1. SeenInv /\ \A D : FirstMoves(D) \subseteq old
    BY DEF PipelineInv, FirstMoves, old
  <2>2. CASE snapshot' = snapshot
    BY <1>5, <1>6, <2>1, <2>2 DEF SeenInv
  <2>3. CASE snapshot' # snapshot
    <3>1. new = "ReturnInit"
      BY <1>1, <2>3
    <3>2. stage = 4
      BY <1>3, <3>1, StageFacts DEF new
    <3>3. \A i \in old : log[i].domain \in ForwardDomains
      BY <1>3, <1>7, <3>2, StageFacts
    <3>4. /\ FirstMoves({"ReturnInit"}) = {}
          /\ FirstMoves({"InputReturn", "ReturnSeal"}) = {}
          /\ FirstMoves({"Squeeze"}) = {}
      BY <3>3 DEF FirstMoves, old, ForwardDomains
    <3> QED  BY <1>6, <3>4 DEF SeenInv
  <2> QED  BY <2>2, <2>3
<1> QED  BY <1>12, <1>13, <1>14, <1>15, <1>16, <1>17, <1>18, <1>19, <1>20
         DEF PipelineInv

(* apply_move adds one entry, under a label that is new.                   *)
LEMMA MovePreserves == PipelineInv /\ Move => PipelineInv'
<1> SUFFICES ASSUME PipelineInv, Move PROVE PipelineInv'
  OBVIOUS
<1> DEFINE e == [op |-> "move", domain |-> Domain, phase |-> phase,
                 symbol_index |-> symbol_index, symbol |-> symbol]
           old == 1..Len(log)
           n == Len(log) + 1
<1>1. /\ UNCHANGED <<args, stage, snapshot, binding, output, outcome>>
      /\ outcome = "running" /\ symbol # NoSymbol /\ Valid(Moves)
      /\ log' = Append(log, e)
      /\ \/ /\ phase + 1 < Moves /\ phase' = phase + 1
            /\ done' = done /\ symbol' = symbol /\ symbol_index' = symbol_index
         \/ /\ phase' = 0 /\ done' = done + 1
            /\ symbol' = NoSymbol /\ symbol_index' = symbol_index + 1
  BY DEF Move, copies
<1>2. TypeInv /\ Stages' = Stages /\ Domain' = Domain /\ Moves' = Moves
  BY <1>1 DEF PipelineInv, Stages, Domain, Moves
<1>3. /\ args \in Calls /\ stage \in 1..Len(Stages) /\ Len(Stages) \in Nat
      /\ symbol \in Symbols /\ done \in Nat /\ phase \in Nat /\ symbol_index \in Nat
      /\ Stages[stage].symbols \in Nat /\ done < Stages[stage].symbols
      /\ log \in Seq(Entries) /\ Domain \in Domains
  <2>1. args \in Calls
    BY <1>2 DEF TypeInv
  <2>2. stage \in 1..Len(Stages) /\ Len(Stages) \in Nat
    BY <1>1, <1>2, <2>1, StageFacts DEF TypeInv
  <2>3. Domain \in Domains /\ Stages[stage].symbols \in Nat
    BY <2>1, <2>2, StageFacts DEF Domain
  <2> QED  BY <1>1, <1>2, <2>2, <2>3 DEF TypeInv
<1>4. e \in Entries
  BY <1>3 DEF Entries, MoveEntries
<1>5. /\ log' \in Seq(Entries) /\ Len(log) \in Nat /\ Len(log') = n
      /\ \A i \in old : log'[i] = log[i]
      /\ log'[n] = e
      /\ \A i : i \in 1..Len(log') <=> i \in old \/ i = n
      /\ n \notin old
  <2>1. /\ log' \in Seq(Entries) /\ Len(log) \in Nat /\ Len(log') = n
        /\ \A i \in old : log'[i] = log[i]
        /\ log'[n] = e
        /\ \A i : i \in 1..Len(log') <=> i \in old \/ i = n
    BY <1>1, <1>3, <1>4, Appended
  <2> QED  BY <2>1
<1>6. /\ e.op = "move" /\ e.domain = Domain /\ e.phase = phase
      /\ e.symbol_index = symbol_index /\ e.symbol = symbol
  OBVIOUS
<1>7. \A D : /\ Domain \in D /\ phase = 0 => FirstMoves(D)' = FirstMoves(D) \cup {n}
            /\ ~(Domain \in D /\ phase = 0) => FirstMoves(D)' = FirstMoves(D)
            /\ FirstMoves(D) \subseteq old
  BY <1>1, <1>3, <1>4, <1>6, FirstMovesAppended
<1>8. \A i \in old : \E k \in 1..stage : log[i].domain = Stages[k].domain
  BY DEF PipelineInv, LogInv
<1>9. \A k \in 1..Len(Stages) :
          /\ k # stage \/ phase > 0 => Begun(k)' = Begun(k)
          /\ k = stage => Begun(k)' = done + 1
          /\ k = stage /\ phase = 0 => Begun(k) = done
  BY <1>1, <1>2, <1>3 DEF Begun
<1> HIDE DEF e, old, n
<1>10. TypeInv'
  <2>1. snapshot' \in 0..Len(log') /\ binding' \in 0..Len(log')
    BY <1>1, <1>2, <1>5 DEF TypeInv, n
  <2>2. /\ done' \in Nat /\ done' <= Stages[stage].symbols /\ phase' \in Nat
        /\ symbol_index' \in Nat
        /\ symbol' = NoSymbol => phase' = 0
        /\ symbol' # NoSymbol => /\ symbol' \in Symbols /\ done' < Stages[stage].symbols
                                 /\ phase' > 0 => phase' < Moves
    BY <1>1, <1>3
  <2> QED  BY <1>1, <1>2, <1>3, <1>5, <2>1, <2>2 DEF TypeInv
<1>11. SymbolInv'
  <2>1. CASE symbol' = NoSymbol
    BY <2>1 DEF SymbolInv
  <2>2. CASE symbol' = symbol /\ done' = done /\ phase' = phase + 1
    <3>1. ~(phase' = 0)
      BY <1>3, <2>2
    <3>2. /\ symbol.byte = MessageByte(Domain, done)
          /\ symbol.key = KeyBytes(Domain, done)
      BY <1>1 DEF PipelineInv, SymbolInv
    <3> QED  BY <1>1, <1>2, <2>2, <3>1, <3>2 DEF SymbolInv, MessageByte
  <2> QED  BY <1>1, <2>1, <2>2
<1>12. LogInv'
  <2> SUFFICES ASSUME NEW i \in 1..Len(log')
               PROVE  \E k \in 1..stage : log'[i].domain = Stages[k].domain
    BY <1>1, <1>2 DEF LogInv
  <2>1. CASE i \in old
    BY <1>5, <1>8, <2>1
  <2>2. CASE i = n
    BY <1>3, <1>5, <1>6, <2>2 DEF Domain
  <2> QED  BY <1>5, <2>1, <2>2
<1>13. LabelInv'
  <2>1. Moved' = Moved \cup {n} /\ Moved \subseteq old
    BY <1>5, <1>6 DEF Moved, old
  <2>2. LabelInv
    BY DEF PipelineInv
  <2>3. \A i \in Moved : log[i].phase \in Nat /\ log[i].symbol_index \in Nat
    <3>1. \A i \in old : log[i] \in Entries
      BY <1>3, ElementOfSeq, Zenon DEF old
    <3> QED  BY <2>1, <3>1 DEF Moved, Entries, EnterEntries, MoveEntries
  <2>4. \A i \in Moved : log'[i] = log[i]
    BY <1>5, <2>1
  <2>5. (\A i \in Moved : log[i].domain = Domain =>
          \/ log[i].symbol_index < symbol_index
          \/ log[i].symbol_index = symbol_index /\ log[i].phase < phase)'
    <3> SUFFICES ASSUME NEW i \in Moved', log'[i].domain = Domain
                 PROVE  \/ log'[i].symbol_index < symbol_index'
                        \/ log'[i].symbol_index = symbol_index' /\ log'[i].phase < phase'
      BY <1>2
    <3>1. CASE i \in Moved
      <4>1. \/ log[i].symbol_index < symbol_index
            \/ log[i].symbol_index = symbol_index /\ log[i].phase < phase
        BY <2>2, <2>4, <3>1 DEF LabelInv
      <4>2. /\ log[i].phase \in Nat /\ log[i].symbol_index \in Nat
            /\ log'[i] = log[i]
        BY <2>3, <2>4, <3>1
      <4>3. \/ phase' = phase + 1 /\ symbol_index' = symbol_index
            \/ symbol_index' = symbol_index + 1
        BY <1>1
      <4> QED  BY <1>3, <4>1, <4>2, <4>3
    <3>2. CASE i = n
      BY <1>1, <1>3, <1>5, <1>6, <3>2
    <3> QED  BY <2>1, <3>1, <3>2
  <2>6. ASSUME NEW i \in Moved', NEW j \in Moved',
               log'[i].domain = log'[j].domain,
               log'[i].symbol_index = log'[j].symbol_index,
               log'[i].phase = log'[j].phase
        PROVE  i = j
    <3>1. \A m \in Moved : ~(/\ log[m].domain = Domain
                              /\ log[m].symbol_index = symbol_index
                              /\ log[m].phase = phase)
      BY <1>3, <2>2, <2>3 DEF LabelInv
    <3>2. CASE i \in Moved /\ j \in Moved
      BY <2>2, <2>4, <2>6, <3>2 DEF LabelInv
    <3>3. CASE i = n /\ j \in Moved
      BY <1>5, <1>6, <2>4, <2>6, <3>1, <3>3
    <3>4. CASE i \in Moved /\ j = n
      BY <1>5, <1>6, <2>4, <2>6, <3>1, <3>4
    <3> QED  BY <2>1, <3>2, <3>3, <3>4
  <2> QED  BY <2>5, <2>6 DEF LabelInv
<1>14. AbsorbInv'
  <2> SUFFICES ASSUME NEW k \in 1..Len(Stages), NEW d \in Domains, Stages[k].domain = d
               PROVE  Absorbed(k, d)'
    BY <1>2 DEF AbsorbInv
  <2> DEFINE F == FirstMoves({d})
  <2>a. Absorbed(k, d)
    BY DEF AbsorbInv, PipelineInv
  <2>b. F \subseteq old
    BY DEF FirstMoves, old
  <2>1. Absorbed(k, d) /\ F \subseteq old
    BY <2>a, <2>b
  <2>2. \A i \in F : Rank(d, i)' = Rank(d, i) /\ log'[i] = log[i]
    BY <1>1, <1>3, <1>4, <1>5, <2>1, RankAppended DEF old
  <2>3. Begun(k) \in Nat
    BY <1>3, StageFacts DEF Begun
  <2>4. \A i \in F : /\ Rank(d, i) \in 1..Begun(k)
                     /\ log'[i].symbol.byte = MessageByte(d, Rank(d, i) - 1)'
                     /\ log'[i].symbol.key = KeyBytes(d, Rank(d, i) - 1)'
    BY <1>1, <2>1, <2>2 DEF Absorbed, MessageByte
  <2>5. CASE k = stage /\ phase = 0
    <3>1. Domain = d /\ F' = F \cup {n} /\ Begun(k) = done /\ Begun(k)' = done + 1
      <4>1. Domain = d /\ Domain \in {d}
        BY <2>5 DEF Domain
      <4>2. F' = F \cup {n}
        BY <1>1, <1>3, <1>4, <1>6, <2>5, <4>1, FirstMovesAppended DEF n
      <4> QED  BY <1>9, <2>5, <4>1, <4>2
    <3>2. Cardinality(F') = done + 1 /\ \A i : i = n => Rank(d, i)' = done + 1
      <4>1. Cardinality(FirstMoves({d})) = done
        BY <2>1, <3>1 DEF Absorbed
      <4>2. e.op = "move" /\ e.domain = d /\ e.phase = 0
        BY <1>6, <2>5, <3>1
      <4>3. /\ \A i : i = Len(log) + 1 =>
                  Rank(d, i)' = Cardinality(FirstMoves({d})) + 1
            /\ Cardinality(FirstMoves({d})') = Cardinality(FirstMoves({d})) + 1
        BY <1>1, <1>3, <1>4, <4>2, RankAppended
      <4> QED  BY <4>1, <4>3 DEF n
    <3>3. /\ symbol.byte = MessageByte(d, done)
          /\ symbol.key = KeyBytes(d, done)
      BY <1>1, <3>1 DEF PipelineInv, SymbolInv
    <3>4. ASSUME NEW i \in F'
          PROVE  (/\ Rank(d, i) \in 1..Begun(k)
                  /\ log[i].symbol.byte = MessageByte(d, Rank(d, i) - 1)
                  /\ log[i].symbol.key = KeyBytes(d, Rank(d, i) - 1))'
      <4>1. CASE i \in F
        <5>1. Rank(d, i)' = Rank(d, i) /\ Rank(d, i) \in 1..done
          BY <2>2, <2>4, <3>1, <4>1
        <5>2. \A m \in 1..done : m \in 1..(done + 1)
          BY <1>3
        <5>3. Rank(d, i)' \in 1..(done + 1)
          BY <5>1, <5>2
        <5> QED  BY <2>4, <3>1, <4>1, <5>3
      <4>2. CASE i = n
        <5>1. Rank(d, i)' = done + 1 /\ Rank(d, i)' - 1 = done
          BY <1>3, <3>2, <4>2
        <5>2. log'[i].symbol = symbol
          BY <1>5, <1>6, <4>2
        <5>3. Rank(d, i)' \in 1..(done + 1)
          BY <1>3, <5>1
        <5> QED  BY <1>1, <3>1, <3>3, <5>1, <5>2, <5>3 DEF MessageByte
      <4> QED  BY <3>1, <4>1, <4>2
    <3>5. ASSUME NEW q \in 1..Begun(k)'
          PROVE  \E i \in F' : Rank(d, i)' = q
      <4>1. CASE q = done + 1
        BY <3>1, <3>2, <4>1
      <4>2. CASE q # done + 1
        <5>1. q \in 1..Begun(k)
          BY <1>3, <3>1, <4>2
        <5>2. PICK i \in F : Rank(d, i) = q
          BY <2>1, <5>1 DEF Absorbed
        <5> QED  BY <2>2, <3>1, <5>2
      <4> QED  BY <4>1, <4>2
    <3> QED  BY <3>1, <3>2, <3>4, <3>5 DEF Absorbed
  <2>6. CASE ~(k = stage /\ phase = 0)
    <3>1. F' = F /\ Begun(k)' = Begun(k)
      <4>1. ~(Domain \in {d} /\ phase = 0)
        BY <1>3, <2>6, StageFacts DEF Domain
      <4>2. k # stage \/ phase > 0
        BY <1>3, <2>6
      <4> QED  BY <1>7, <1>9, <4>1, <4>2
    <3>2. Cardinality(F)' = Begun(k)'
      BY <2>1, <3>1 DEF Absorbed
    <3>3. ASSUME NEW i \in F
          PROVE  (/\ Rank(d, i) \in 1..Begun(k)
                  /\ log[i].symbol.byte = MessageByte(d, Rank(d, i) - 1)
                  /\ log[i].symbol.key = KeyBytes(d, Rank(d, i) - 1))'
      BY <2>2, <2>4, <3>1
    <3>4. ASSUME NEW q \in 1..Begun(k)'
          PROVE  \E i \in F' : Rank(d, i)' = q
      <4>1. PICK i \in F : Rank(d, i) = q
        BY <2>1, <3>1 DEF Absorbed
      <4> QED  BY <2>2, <3>1, <4>1
    <3> QED  BY <3>1, <3>2, <3>3, <3>4 DEF Absorbed
  <2> QED  BY <2>5, <2>6
<1>15. CountInv'
  <2>1. CountInv
    BY DEF PipelineInv
  <2>2. ASSUME NEW k \in 1..stage  PROVE Begun(k)' > 0 => Valid(Stages[k].moves)
    <3>1. k \in 1..Len(Stages)
      BY <1>3
    <3>2. CASE k = stage
      BY <1>1, <3>2 DEF Moves
    <3>3. CASE k # stage
      BY <1>9, <2>1, <3>1, <3>3 DEF CountInv
    <3> QED  BY <3>2, <3>3
  <2> QED  BY <1>1, <1>2, <2>1, <2>2 DEF CountInv, Accepts
<1>16. OutputInv'
  BY <1>1, <1>2, <1>3 DEF PipelineInv, OutputInv
<1>17. SnapshotInv'
  <2>1. SnapshotInv
    BY DEF PipelineInv
  <2> DEFINE F == {j \in old : log[j].domain \in ForwardDomains}
             G == {j \in 1..Len(log') : log'[j].domain \in ForwardDomains}
  <2> SUFFICES ASSUME NEW k \in 1..stage, Stages[k].domain = "ReturnInit"
               PROVE  G = 1..snapshot
    BY <1>1, <1>2 DEF SnapshotInv
  <2>2. F = 1..snapshot
    BY <2>1 DEF SnapshotInv, old
  <2>3. k \in 1..Len(Stages)
    BY <1>3
  <2>4. k = 5
    BY <1>3, <2>3, StageFacts
  <2>5. Domain \notin ForwardDomains
    BY <1>3, <2>4, StageFacts DEF Domain
  <2>6. G = F
    BY <1>5, <1>6, <2>5
  <2> QED  BY <2>2, <2>6
<1>18. SeenInv'
  <2>1. SeenInv
    BY DEF PipelineInv
  <2>2. CASE phase # 0
    BY <1>1, <1>5, <1>7, <2>1, <2>2 DEF SeenInv
  <2>3. CASE phase = 0
    <3>1. symbol.seen = Reads(Domain)
      BY <1>1, <2>3 DEF PipelineInv, SymbolInv
    <3>2. n - 1 = Len(log) /\ log'[n].symbol = symbol
      BY <1>5, <1>6 DEF n
    <3>3. /\ Domain = "ReturnInit" => log'[n].symbol.seen = {snapshot}
          /\ Domain \in {"InputReturn", "ReturnSeal"} =>
                log'[n].symbol.seen = {snapshot, n - 1}
          /\ Domain = "Squeeze" => log'[n].symbol.seen = {n - 1}
      BY <3>1, <3>2 DEF Reads
    <3>4. \A D : \A i \in FirstMoves(D)' :
              \/ i \in FirstMoves(D) /\ log'[i] = log[i]
              \/ i = n /\ Domain \in D
      <4> TAKE D
      <4> TAKE i \in FirstMoves(D)'
      <4>1. CASE Domain \in D
        <5>1. FirstMoves(D)' = FirstMoves(D) \cup {n} /\ FirstMoves(D) \subseteq old
          BY <1>1, <1>3, <1>4, <1>6, <2>3, <4>1, FirstMovesAppended DEF n, old
        <5> QED  BY <1>5, <4>1, <5>1
      <4>2. CASE Domain \notin D
        <5>1. FirstMoves(D)' = FirstMoves(D) /\ FirstMoves(D) \subseteq old
          BY <1>7, <4>2
        <5> QED  BY <1>5, <5>1
      <4> QED  BY <4>1, <4>2
    <3> QED  BY <1>1, <2>1, <3>3, <3>4 DEF SeenInv
  <2> QED  BY <2>2, <2>3
<1> QED  BY <1>10, <1>11, <1>12, <1>13, <1>14, <1>15, <1>16, <1>17, <1>18
         DEF PipelineInv

(* The invariant is inductive.                                             *)
LEMMA NextInvariant == PipelineInv /\ [Next]_vars => PipelineInv'
<1> SUFFICES ASSUME PipelineInv, [Next]_vars PROVE PipelineInv'
  OBVIOUS
<1>1. CASE Enter          BY <1>1, EnterPreserves
<1>2. CASE RejectProfile  BY <1>2, RejectProfilePreserves
<1>3. CASE Generate       BY <1>3, GeneratePreserves
<1>4. CASE RejectCount    BY <1>4, RejectCountPreserves
<1>5. CASE Move           BY <1>5, MovePreserves
<1>6. CASE Finish         BY <1>6, FinishPreserves
<1>7. CASE Done           BY <1>7, StutterPreserves DEF Done
<1>8. CASE UNCHANGED vars BY <1>8, StutterPreserves
<1> QED  BY <1>1, <1>2, <1>3, <1>4, <1>5, <1>6, <1>7, <1>8 DEF Next

(* The history of an evaluation is, at every step, the one its domain,     *)
(* symbol and phase call for.                                              *)
THEOREM PipelineInvariance == Spec => []PipelineInv
  BY InitInvariant, NextInvariant, PTL DEF Spec

(* The types of the evaluation's state.                                    *)
THEOREM PipelineTypes == Spec => []TypeOK
<1>1. PipelineInv => TypeOK
  <2> SUFFICES ASSUME PipelineInv PROVE TypeOK
    OBVIOUS
  <2>1. TypeInv /\ OutputInv /\ CountInv
    BY DEF PipelineInv
  <2>2. args \in Calls /\ stage \in 0..Len(Stages) /\ Len(Stages) \in Nat
    BY <2>1, StageFacts DEF TypeInv
  <2>3. ASSUME stage > 0  PROVE done \in 0..Stages[stage].symbols
    <3>1. stage \in 1..Len(Stages)
      BY <2>2, <2>3
    <3>2. Stages[stage].symbols \in Nat
      BY <2>2, <3>1, StageFacts
    <3> QED  BY <2>1, <2>3, <3>2 DEF TypeInv
  <2>4. phase \in 0..MaxCount
    <3>1. phase \in Nat
      BY <2>1 DEF TypeInv
    <3>2. CASE phase = 0
      BY <3>1, <3>2, SizeAssumption
    <3>3. CASE phase > 0
      <4>1. symbol # NoSymbol /\ stage > 0 /\ phase < Moves /\ done \in Nat
        BY <2>1, <3>1, <3>3 DEF TypeInv
      <4>2. stage \in 1..stage /\ Begun(stage) > 0
        BY <2>2, <3>3, <4>1 DEF Begun
      <4>3. Valid(Moves)
        BY <2>1, <4>2 DEF CountInv, Moves
      <4> QED  BY <3>1, <4>1, <4>3, SizeAssumption DEF Valid
    <3> QED  BY <3>1, <3>2, <3>3
  <2>5. Len(output) <= OutputSize
    <3>1. OutputSize \in Nat
      BY SizeAssumption
    <3>2. CASE stage < Len(Stages)
      BY <2>1, <3>1, <3>2 DEF OutputInv
    <3>3. CASE stage = Len(Stages)
      <4>1. Stages[stage].symbols = OutputSize
        BY <2>2, <3>3, StageTable DEF StageIs
      <4>2. /\ done \in Nat /\ done <= OutputSize
            /\ symbol # NoSymbol => done < OutputSize
        BY <2>1, <2>2, <3>3, <4>1, StageFacts DEF TypeInv
      <4> QED  BY <2>1, <2>2, <3>1, <3>3, <4>2 DEF OutputInv
    <3> QED  BY <2>2, <3>2, <3>3
  <2> QED  BY <2>1, <2>2, <2>3, <2>4, <2>5 DEF TypeOK, TypeInv
<1> QED  BY <1>1, PipelineInvariance, PTL

-----------------------------------------------------------------------------
(* No two moves of an evaluation run under the same domain, symbol index   *)
(* and phase, whatever the counts and the message length.                  *)
THEOREM LabelsAreUnique == Spec => []LabelsUnique
<1>1. PipelineInv => LabelsUnique
  <2> SUFFICES ASSUME PipelineInv PROVE LabelsUnique
    OBVIOUS
  <2> DEFINE label(i) == <<log[i].domain, log[i].symbol_index, log[i].phase>>
             T == {label(i) : i \in Moved}
             f == [i \in Moved |-> label(i)]
  <2>1. \A i, j \in Moved : label(i) = label(j) => i = j
    BY DEF PipelineInv, LabelInv
  <2>2. IsFiniteSet(Moved)
    <3>1. Len(log) \in Nat
      BY LenProperties DEF PipelineInv, TypeInv
    <3>2. IsFiniteSet(1..Len(log)) /\ Moved \in SUBSET (1..Len(log))
      BY <3>1, FS_Interval DEF Moved
    <3> QED  BY <3>2, FS_Subset
  <2> HIDE DEF label
  <2>3. f \in Bijection(Moved, T)
    BY <2>1 DEF Bijection, Injection, Surjection, IsInjective
  <2>4. ExistsBijection(Moved, T)
    BY <2>3 DEF ExistsBijection
  <2>5. Cardinality(T) = Cardinality(Moved)
    BY <2>2, <2>4, FS_Bijection
  <2> QED  BY <2>5 DEF LabelsUnique, Moved, label
<1> QED  BY <1>1, PipelineInvariance, PTL

(* What each of the stages has absorbed when there is an output.           *)
LEMMA OutputBegun ==
    ASSUME PipelineInv, outcome = "output"
    PROVE  /\ args \in Calls
           /\ \A k \in 1..Len(Stages) : Begun(k) = Stages[k].symbols
           /\ \A k \in 1..Len(Stages) : Accepts(Stages[k].domain)
           /\ \A k \in 1..Len(Stages) : Stages[k].symbols > 0 => Valid(Stages[k].moves)
           /\ Len(output) = OutputSize
<1>1. /\ args \in Calls /\ stage = Len(Stages) /\ done = Stages[stage].symbols
      /\ symbol = NoSymbol /\ phase = 0
  BY DEF PipelineInv, TypeInv
<1>2. Len(Stages) \in Nat /\ Len(Stages) >= 6
  BY <1>1, StageFacts
<1>3. done \in Nat /\ Stages[Len(Stages)].symbols = OutputSize
  BY <1>1, StageTable DEF StageIs, PipelineInv, TypeInv
<1>4. \A k \in 1..Len(Stages) : Begun(k) = Stages[k].symbols
  BY <1>1, <1>2, <1>3 DEF Begun
<1>5. Len(output) = OutputSize
  BY <1>1, <1>2, <1>3 DEF PipelineInv, OutputInv
<1> QED  BY <1>1, <1>4, <1>5 DEF PipelineInv, CountInv

(* An evaluation that ends returns an output exactly when every count it   *)
(* uses is in [1, MaxCount].                                               *)
THEOREM OutcomeIsExact == Spec => []OutcomeExact
<1>1. PipelineInv => OutcomeExact
  <2> SUFFICES ASSUME PipelineInv, outcome # "running"
               PROVE  outcome = "output" <=> \A f \in Counts \ Unused : Valid(args.count[f])
    BY DEF OutcomeExact, Unused
  <2>1. outcome \in {"output", "invalid_argument"}
    BY DEF PipelineInv, TypeInv
  <2>2. CASE outcome = "invalid_argument"
    BY <2>2 DEF PipelineInv, CountInv
  <2>3. CASE outcome = "output"
    <3> DEFINE c == args.count
    <3>1. /\ args \in Calls
          /\ \A k \in 1..Len(Stages) : Accepts(Stages[k].domain)
          /\ \A k \in 1..Len(Stages) :
                Stages[k].symbols > 0 => Valid(Stages[k].moves)
      BY <2>3, OutputBegun
    <3>2. Len(Stages) \in Nat /\ Len(Stages) >= 6
      BY <3>1, StageFacts
    <3>3. args.length \in Nat /\ args.binding > 0 /\ OutputSize > 0 /\ args.fold \in BOOLEAN
      BY <3>1, SizeAssumption DEF Calls
    <3>4. \A f \in KeyCounts : Valid(c[f])
      <4>1. 1 \in 1..Len(Stages) /\ Stages[1].domain = "KeyForward"
        BY <3>1, <3>2, StageTable DEF StageIs
      <4>2. Accepts("KeyForward")
        BY <3>1, <4>1
      <4> QED  BY <4>2 DEF Accepts, ValidKeyProfile
    <3>5. args.length # 0 => Valid(c["forward_moves"])
      <4>1. /\ 4 \in 1..Len(Stages) /\ Stages[4].symbols = args.length
            /\ Stages[4].moves = c["forward_moves"]
        BY <3>1, <3>2, StageTable DEF StageIs
      <4>2. args.length # 0 => args.length > 0
        BY <3>3
      <4> QED  BY <3>1, <4>1, <4>2
    <3>6. ASSUME args.fold  PROVE \A f \in ReturnCounts : Valid(c[f])
      <4>1. 5 \in 1..Len(Stages) /\ Stages[5].domain = "ReturnInit"
        BY <3>1, <3>2, <3>6, StageTable DEF StageIs
      <4>2. Accepts("ReturnInit")
        BY <3>1, <4>1
      <4> QED  BY <4>2 DEF Accepts, ValidReturnProfile
    <3>7. Valid(c["final_moves"]) /\ Valid(c["squeeze_moves"])
      <4>1. CASE args.fold
        <5>1. /\ 8 \in 1..Len(Stages) /\ Stages[8].symbols = args.binding
              /\ Stages[8].moves = c["final_moves"]
              /\ 9 \in 1..Len(Stages) /\ Stages[9].symbols = OutputSize
              /\ Stages[9].moves = c["squeeze_moves"]
          <6>1. /\ Len(Stages) = 9
                /\ StageIs(8, "Finalization", args.binding, "final_moves")
                /\ StageIs(9, "Squeeze", OutputSize, "squeeze_moves")
            BY <3>1, <4>1, StageTable
          <6> QED  BY <6>1 DEF StageIs
        <5> QED  BY <3>1, <3>3, <5>1
      <4>2. CASE ~args.fold
        <5>1. /\ 5 \in 1..Len(Stages) /\ Stages[5].symbols = args.binding
              /\ Stages[5].moves = c["final_moves"]
              /\ 6 \in 1..Len(Stages) /\ Stages[6].symbols = OutputSize
              /\ Stages[6].moves = c["squeeze_moves"]
          <6>1. /\ Len(Stages) = 6
                /\ StageIs(5, "Finalization", args.binding, "final_moves")
                /\ StageIs(6, "Squeeze", OutputSize, "squeeze_moves")
            BY <3>1, <4>2, StageTable
          <6> QED  BY <6>1 DEF StageIs
        <5> QED  BY <3>1, <3>3, <5>1
      <4> QED  BY <4>1, <4>2
    <3> HIDE DEF c
    <3>8. ASSUME NEW f \in Counts \ Unused  PROVE Valid(c[f])
      <4>1. CASE f \in KeyCounts
        BY <3>4, <4>1
      <4>2. CASE f = "forward_moves"
        <5>1. args.length # 0
          BY <4>2 DEF Unused
        <5> QED  BY <3>5, <4>2, <5>1
      <4>3. CASE f \in ReturnCounts
        <5>1. args.fold
          BY <4>3 DEF Unused
        <5> QED  BY <3>6, <4>3, <5>1
      <4>4. CASE f \in {"final_moves", "squeeze_moves"}
        BY <3>7, <4>4
      <4> QED  BY <4>1, <4>2, <4>3, <4>4 DEF Counts
    <3> QED  BY <2>3, <3>8 DEF c
  <2> QED  BY <2>1, <2>2, <2>3
<1> QED  BY <1>1, PipelineInvariance, PTL

(* What each symbol of the return pass takes from the snapshot is the      *)
(* state after the whole forward pass and before the return pass.          *)
THEOREM ReturnBinds == Spec => []ReturnBindsForwardState
<1>1. PipelineInv => ReturnBindsForwardState
  <2> SUFFICES ASSUME PipelineInv,
                      NEW i \in FirstMoves({"ReturnInit", "InputReturn", "ReturnSeal"})
               PROVE  {j \in 1..Len(log) : log[j].domain \in ForwardDomains}
                        \in {1..k : k \in log[i].symbol.seen}
    BY DEF ReturnBindsForwardState, ForwardDomains
  <2>1. i \in 1..Len(log) /\ log[i].domain \in ReturnDomains
    BY DEF FirstMoves, ReturnDomains
  <2>2. PICK k \in 1..stage : log[i].domain = Stages[k].domain
    BY <2>1 DEF PipelineInv, LogInv
  <2>3. args \in Calls /\ stage \in 0..Len(Stages) /\ Len(Stages) \in Nat
    BY StageFacts DEF PipelineInv, TypeInv
  <2>4. k \in 1..Len(Stages)
    BY <2>3
  <2>5. args.fold /\ k >= 5
    BY <2>1, <2>2, <2>3, <2>4, StageFacts
  <2>6. 5 \in 1..stage /\ Stages[5].domain = "ReturnInit"
    BY <2>3, <2>5, StageTable DEF StageIs
  <2>7. {j \in 1..Len(log) : log[j].domain \in ForwardDomains} = 1..snapshot
    BY <2>6 DEF PipelineInv, SnapshotInv
  <2>8. snapshot \in log[i].symbol.seen
    <3>1. i \in FirstMoves({"ReturnInit"}) \/ i \in FirstMoves({"InputReturn", "ReturnSeal"})
      BY DEF FirstMoves
    <3> QED  BY <3>1 DEF PipelineInv, SeenInv
  <2> QED  BY <2>7, <2>8
<1> QED  BY <1>1, PipelineInvariance, PTL

(* No two symbols of the reverse message, the return seal and the squeeze  *)
(* are computed from the same state.                                       *)
THEOREM StatesAreReadOnce == Spec => []NoStateReadTwice
<1>1. PipelineInv => NoStateReadTwice
  <2> SUFFICES ASSUME PipelineInv,
                      NEW i \in FirstMoves({"InputReturn", "ReturnSeal", "Squeeze"}),
                      NEW j \in FirstMoves({"InputReturn", "ReturnSeal", "Squeeze"}),
                      log[i].symbol.seen = log[j].symbol.seen
               PROVE  i = j
    BY DEF NoStateReadTwice
  <2>1. \A m \in FirstMoves({"InputReturn", "ReturnSeal", "Squeeze"}) :
            /\ log[m].symbol.seen \in {{snapshot, m - 1}, {m - 1}}
            /\ m \in Int
    <3> TAKE m \in FirstMoves({"InputReturn", "ReturnSeal", "Squeeze"})
    <3>1. m \in FirstMoves({"Squeeze"}) \/ m \in FirstMoves({"InputReturn", "ReturnSeal"})
      BY DEF FirstMoves
    <3> QED  BY <3>1 DEF PipelineInv, SeenInv, FirstMoves
  <2> DEFINE A == log[i].symbol.seen  a == i - 1  b == j - 1
  <2>2. A \in {{snapshot, a}, {a}} /\ A \in {{snapshot, b}, {b}}
    BY <2>1
  <2> HIDE DEF A, a, b
  <2>3. a = b
    BY <2>2
  <2> QED  BY <2>1, <2>3 DEF a, b
<1> QED  BY <1>1, PipelineInvariance, PTL

(* An output has absorbed the message in order, in reverse when there is a *)
(* return pass, and was read byte by byte.                                 *)
THEOREM OutputSaw == Spec => []OutputSawBothPasses
<1>1. PipelineInv => OutputSawBothPasses
  <2> SUFFICES ASSUME PipelineInv, outcome = "output" PROVE OutputSawBothPasses
    BY DEF OutputSawBothPasses
  <2> DEFINE n == args.length
             bytes(d) == {<<Rank(d, i), log[i].symbol.byte>> : i \in FirstMoves({d})}
  <2>1. /\ args \in Calls /\ Len(output) = OutputSize
        /\ \A k \in 1..Len(Stages) : Begun(k) = Stages[k].symbols
    BY OutputBegun
  <2>2. n \in Nat /\ Len(Stages) \in Nat /\ Len(Stages) >= 6
    BY <2>1, StageFacts DEF Calls
  <2>3. ASSUME NEW d \in Domains, NEW k \in 1..Len(Stages), NEW byte,
               Stages[k].domain = d, Stages[k].symbols = n,
               \A q \in 1..n : MessageByte(d, q - 1) = byte[q]
        PROVE  bytes(d) = {<<q, byte[q]>> : q \in 1..n}
    <3>1. Absorbed(k, d) /\ Begun(k) = n
      BY <2>1, <2>3 DEF PipelineInv, AbsorbInv
    <3>2. \A i \in FirstMoves({d}) : /\ Rank(d, i) \in 1..n
                                      /\ log[i].symbol.byte = byte[Rank(d, i)]
      BY <2>3, <3>1 DEF Absorbed
    <3>3. \A q \in 1..n : \E i \in FirstMoves({d}) : Rank(d, i) = q
      BY <3>1 DEF Absorbed
    <3> DEFINE pair(q) == <<q, byte[q]>>
    <3>4. \A i \in FirstMoves({d}) : <<Rank(d, i), log[i].symbol.byte>> = pair(Rank(d, i))
      BY <3>2
    <3>5. bytes(d) = {pair(Rank(d, i)) : i \in FirstMoves({d})}
      BY <3>4
    <3> HIDE DEF pair, bytes
    <3>6. bytes(d) = {pair(q) : q \in 1..n}
      BY <3>2, <3>3, <3>5
    <3> QED  BY <3>6 DEF pair
  <2> HIDE DEF bytes
  <2>4. bytes("InputForward") = {<<q, {q}>> : q \in 1..n}
    <3>1. /\ 4 \in 1..Len(Stages) /\ Stages[4].domain = "InputForward"
          /\ Stages[4].symbols = n
      BY <2>1, <2>2, StageTable DEF StageIs
    <3> DEFINE byte == [q \in 1..n |-> {q}]
    <3>2. \A q \in 1..n : MessageByte("InputForward", q - 1) = byte[q]
      BY <2>2 DEF MessageByte
    <3>3. {<<q, byte[q]>> : q \in 1..n} = {<<q, {q}>> : q \in 1..n}
      OBVIOUS
    <3> HIDE DEF byte
    <3>4. bytes("InputForward") = {<<q, byte[q]>> : q \in 1..n}
      <4>1. "InputForward" \in Domains
        BY DEF Domains
      <4> QED  BY <2>3, <3>1, <3>2, <4>1
    <3> QED  BY <3>3, <3>4
  <2>5. ASSUME args.fold
        PROVE  bytes("InputReturn") = {<<q, {n + 1 - q}>> : q \in 1..n}
    <3>1. /\ 6 \in 1..Len(Stages) /\ Stages[6].domain = "InputReturn"
          /\ Stages[6].symbols = n
      BY <2>1, <2>2, <2>5, StageTable DEF StageIs
    <3> DEFINE byte == [q \in 1..n |-> {n + 1 - q}]
    <3>2. \A q \in 1..n : MessageByte("InputReturn", q - 1) = byte[q]
      BY <2>2 DEF MessageByte
    <3>3. {<<q, byte[q]>> : q \in 1..n} = {<<q, {n + 1 - q}>> : q \in 1..n}
      OBVIOUS
    <3> HIDE DEF byte
    <3>4. bytes("InputReturn") = {<<q, byte[q]>> : q \in 1..n}
      <4>1. "InputReturn" \in Domains
        BY DEF Domains
      <4> QED  BY <2>3, <3>1, <3>2, <4>1
    <3> QED  BY <3>3, <3>4
  <2>6. ASSUME ~args.fold  PROVE bytes("InputReturn") = {}
    <3>1. \A k \in 1..Len(Stages) : Stages[k].domain # "InputReturn"
      BY <2>1, <2>6, StageFacts DEF ReturnDomains
    <3>2. stage \in 0..Len(Stages)
      BY DEF PipelineInv, TypeInv
    <3>3. \A i \in 1..Len(log) : log[i].domain # "InputReturn"
      BY <2>2, <3>1, <3>2 DEF PipelineInv, LogInv
    <3> QED  BY <3>3 DEF FirstMoves, bytes
  <2> QED  BY <2>1, <2>4, <2>5, <2>6 DEF OutputSawBothPasses, Rank, bytes
<1> QED  BY <1>1, PipelineInvariance, PTL

(* The symbols of a key domain combine bytes of the key only, and all.     *)
LEMMA KeyBytesCover ==
    ASSUME NEW d, NEW n,
           \/ d = "KeyForward" /\ n = HeaderSize + 2 * KeySize
           \/ d = "KeyReturn" /\ n = KeySize
           \/ d = "KeySeal" /\ n = SealSize
    PROVE  /\ \A q \in 1..n : KeyBytes(d, q - 1) \subseteq 0..(KeySize - 1)
           /\ \A b \in 0..(KeySize - 1) : \E q \in 1..n : b \in KeyBytes(d, q - 1)
<1>1. /\ KeySize \in Nat \ {0} /\ SealSize \in Nat \ {0} /\ HeaderSize \in Nat
      /\ KeySize = 2 * SealSize
  BY SizeAssumption
<1> DEFINE at(k) == k % KeySize
<1>2. \A k \in Int : at(k) \in 0..(KeySize - 1)
  BY <1>1
<1>3. CASE d = "KeyForward" /\ n = HeaderSize + 2 * KeySize
  <2> DEFINE j(i) == (i - HeaderSize) \div 2
  <2>1. ASSUME NEW i \in Int
        PROVE  KeyBytes("KeyForward", i) =
                 IF i < HeaderSize THEN {}
                 ELSE IF (i - HeaderSize) % 2 = 0 THEN {j(i)}
                 ELSE {j(i), at(j(i) + 11), at(j(i) + 23)}
    BY DEF KeyBytes
  <2>2. ASSUME NEW q \in 1..n  PROVE KeyBytes(d, q - 1) \subseteq 0..(KeySize - 1)
    <3> DEFINE i == q - 1
    <3>1. i \in Int /\ i < HeaderSize + 2 * KeySize
      BY <1>1, <1>3
    <3>2. ~(i < HeaderSize) => j(i) \in 0..(KeySize - 1)
      BY <1>1, <3>1
    <3> HIDE DEF i, j, at
    <3>3. ~(i < HeaderSize) => /\ at(j(i) + 11) \in 0..(KeySize - 1)
                              /\ at(j(i) + 23) \in 0..(KeySize - 1)
      BY <1>2, <3>2
    <3>4. KeyBytes("KeyForward", i) \subseteq 0..(KeySize - 1)
      BY <2>1, <3>1, <3>2, <3>3
    <3> QED  BY <1>3, <3>4 DEF i
  <2>3. ASSUME NEW b \in 0..(KeySize - 1)
        PROVE  \E q \in 1..n : b \in KeyBytes(d, q - 1)
    <3> DEFINE i == HeaderSize + 2 * b
    <3>1. i \in Int /\ i + 1 \in 1..n /\ (i + 1) - 1 = i
      BY <1>1, <1>3
    <3>2. ~(i < HeaderSize) /\ (i - HeaderSize) % 2 = 0 /\ j(i) = b
      BY <1>1
    <3> HIDE DEF i, j, at
    <3>3. b \in KeyBytes("KeyForward", i)
      BY <2>1, <3>1, <3>2
    <3> QED  BY <1>3, <3>1, <3>3
  <2> QED  BY <2>2, <2>3
<1>4. CASE d = "KeyReturn" /\ n = KeySize
  <2> DEFINE j(i) == KeySize - 1 - i
  <2>1. \A i : KeyBytes("KeyReturn", i) = {j(i), at(j(i) + 7), at(j(i) + 19)}
    BY DEF KeyBytes
  <2>2. \A i \in 0..(KeySize - 1) : j(i) \in 0..(KeySize - 1) /\ j(j(i)) = i
    BY <1>1
  <2>3. \A q \in 1..n : q - 1 \in 0..(KeySize - 1)
    BY <1>1, <1>4
  <2>4. \A i \in 0..(KeySize - 1) : i + 1 \in 1..n /\ (i + 1) - 1 = i
    BY <1>1, <1>4
  <2>5. \A i \in 0..(KeySize - 1) : i + 7 \in Int /\ i + 19 \in Int
    BY <1>1
  <2> HIDE DEF j, at
  <2>6. \A i \in 0..(KeySize - 1) : KeyBytes("KeyReturn", i) \subseteq 0..(KeySize - 1)
    BY <1>2, <2>1, <2>2, <2>5
  <2>7. \A b \in 0..(KeySize - 1) : b \in KeyBytes("KeyReturn", j(b))
    BY <2>1, <2>2
  <2>8. ASSUME NEW b \in 0..(KeySize - 1)
        PROVE  \E q \in 1..n : b \in KeyBytes(d, q - 1)
    <3> DEFINE i == j(b)
    <3>1. i \in 0..(KeySize - 1) /\ b \in KeyBytes("KeyReturn", i)
      BY <2>2, <2>7
    <3> HIDE DEF i
    <3> QED  BY <1>4, <2>4, <3>1
  <2> QED  BY <1>4, <2>3, <2>6, <2>8
<1>5. CASE d = "KeySeal" /\ n = SealSize
  <2>1. \A i : KeyBytes("KeySeal", i) = {i, i + SealSize, at(i + 5), at(i + 27)}
    BY DEF KeyBytes
  <2>2. \A i \in 0..(SealSize - 1) : /\ i \in 0..(KeySize - 1)
                                    /\ i + SealSize \in 0..(KeySize - 1)
                                    /\ i + 5 \in Int /\ i + 27 \in Int
    BY <1>1
  <2>3. \A q \in 1..n : q - 1 \in 0..(SealSize - 1)
    BY <1>1, <1>5
  <2> HIDE DEF at
  <2>4. \A i \in 0..(SealSize - 1) : KeyBytes("KeySeal", i) \subseteq 0..(KeySize - 1)
    BY <1>2, <2>1, <2>2
  <2>5. ASSUME NEW b \in 0..(KeySize - 1)
        PROVE  \E q \in 1..n : b \in KeyBytes(d, q - 1)
    <3> DEFINE i == IF b < SealSize THEN b ELSE b - SealSize
    <3>1. /\ i \in 0..(SealSize - 1) /\ i + 1 \in 1..n /\ (i + 1) - 1 = i
          /\ b = i \/ b = i + SealSize
      BY <1>1, <1>5
    <3> HIDE DEF i
    <3>2. b \in KeyBytes("KeySeal", i)
      BY <2>1, <3>1
    <3> QED  BY <1>5, <3>1, <3>2
  <2> QED  BY <1>5, <2>3, <2>4, <2>5
<1> QED  BY <1>3, <1>4, <1>5

(* Each of the three key passes of an evaluation with an output has read   *)
(* every byte of the key and none past its end, whatever the key size.     *)
THEOREM KeyIsInEveryPass == Spec => []KeyInEveryPass
<1>1. PipelineInv => KeyInEveryPass
  <2> SUFFICES ASSUME PipelineInv, outcome = "output",
                      NEW d \in {"KeyForward", "KeyReturn", "KeySeal"}
               PROVE  UNION {log[i].symbol.key : i \in FirstMoves({d})} = 0..(KeySize - 1)
    BY DEF KeyInEveryPass
  <2>1. /\ args \in Calls
        /\ \A k \in 1..Len(Stages) : Begun(k) = Stages[k].symbols
    BY OutputBegun
  <2>2. Len(Stages) \in Nat /\ Len(Stages) >= 6
    BY <2>1, StageFacts
  <2>3. PICK k \in 1..3 : /\ Stages[k].domain = d
                          /\ \/ d = "KeyForward" /\ Stages[k].symbols = HeaderSize + 2 * KeySize
                             \/ d = "KeyReturn" /\ Stages[k].symbols = KeySize
                             \/ d = "KeySeal" /\ Stages[k].symbols = SealSize
    BY <2>1, StageTable DEF StageIs
  <2> DEFINE n == Stages[k].symbols
             K == 0..(KeySize - 1)
  <2>4. Absorbed(k, d) /\ Begun(k) = n
    <3>1. k \in 1..Len(Stages) /\ d \in Domains
      BY <2>2 DEF Domains
    <3> QED  BY <2>1, <2>3, <3>1 DEF PipelineInv, AbsorbInv
  <2>5. /\ \A q \in 1..n : KeyBytes(d, q - 1) \subseteq K
        /\ \A b \in K : \E q \in 1..n : b \in KeyBytes(d, q - 1)
    BY <2>3, KeyBytesCover
  <2> HIDE DEF n, K
  <2>6. \A i \in FirstMoves({d}) : /\ Rank(d, i) \in 1..n
                                   /\ log[i].symbol.key = KeyBytes(d, Rank(d, i) - 1)
    BY <2>4 DEF Absorbed
  <2>7. \A q \in 1..n : \E i \in FirstMoves({d}) : Rank(d, i) = q
    BY <2>4 DEF Absorbed
  <2>8. \A i \in FirstMoves({d}) : log[i].symbol.key \subseteq K
    BY <2>5, <2>6
  <2>9. ASSUME NEW b \in K  PROVE \E i \in FirstMoves({d}) : b \in log[i].symbol.key
    <3>1. PICK q \in 1..n : b \in KeyBytes(d, q - 1)
      BY <2>5
    <3>2. PICK i \in FirstMoves({d}) : Rank(d, i) = q
      BY <2>7
    <3> QED  BY <2>6, <3>1, <3>2
  <2> QED  BY <2>8, <2>9 DEF K
<1> QED  BY <1>1, PipelineInvariance, PTL
=============================================================================
