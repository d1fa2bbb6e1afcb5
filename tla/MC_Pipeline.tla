----------------------------- MODULE MC_Pipeline -----------------------------
(* Instances of Pipeline: all calls with at most two unusual counts, and   *)
(* the frozen Candidate C1 parameters.                                     *)
EXTENDS Pipeline

CONSTANT Odd     \* counts other than 1 that a caller may pass

MCArguments ==
    LET chosen == {F \in SUBSET Counts : Cardinality(F) <= 2}
        count(F, g) == [f \in Counts |-> IF f \in F THEN g[f] ELSE 1]
    IN  {[length |-> n, binding |-> n + 1, fold |-> r, count |-> c] :
            n \in 0..2, r \in BOOLEAN,
            c \in UNION {{count(F, g) : g \in [F -> Odd]} : F \in chosen}}

FrozenCounts ==
    [f \in Counts |-> CASE f \in {"forward_moves", "message_moves", "seal_symbols"} -> 8
                        [] f = "init_symbols"  -> 16
                        [] f = "squeeze_moves" -> 2
                        [] OTHER               -> 4]

FrozenArguments ==
    {[length |-> n, binding |-> b, fold |-> TRUE, count |-> FrozenCounts] :
        n \in 0..2, b \in {16, 24}}

(* docs/SPECIFICATION.md of PVC-PRF-1: the default key schedule contains   *)
(* 120 framed symbols and 480 cube movements.                              *)
FrozenKeySchedule ==
    log # <<>> /\ log[Len(log)] = [op |-> "enter", domain |-> "InputForward"] =>
        /\ Cardinality({i \in 1..Len(log) : log[i].op = "move"}) = 480
        /\ Cardinality({<<log[i].domain, log[i].symbol_index>> :
                          i \in {j \in 1..Len(log) : log[j].op = "move"}}) = 120
=============================================================================
