------------------------------ MODULE CubeWalk -------------------------------
(***************************************************************************)
(* The cube of PVC-PRF-1 and the physical part of apply_move: the line     *)
(* through the cursor is rotated, the cursor advances along it, the axis   *)
(* of the move becomes previous_axis, and the move is traced.              *)
(*                                                                         *)
(* The controller words only choose among the two other axes and the       *)
(* amounts 1..7 (preview_move); the choice is left open here, so what      *)
(* holds of the walk holds for every key, message and controller.          *)
(***************************************************************************)
EXTENDS Naturals, Sequences, FiniteSets

CONSTANTS Side,        \* kCubeSide: 8 in the code
          PerfectCube, \* kPerfectCube, the cells of a fresh WorkingState
          Cells,       \* the values a cell may hold: bytes in the code
          MaxMoves     \* bound on the number of moves, for model checking

Axes    == {"X", "Y", "Z"}
Coords  == [Axes -> 0..(Side - 1)]
Amounts == 1..(Side - 1)

ASSUME SideAssumption == Side \in Nat /\ Side > 1
ASSUME CubeAssumption == PerfectCube \in [Coords -> Cells]
ASSUME MaxMovesAssumption == MaxMoves \in Nat

VARIABLES cube,          \* WorkingState::cube
          cursor,        \* WorkingState::cursor
          previous_axis, \* WorkingState::previous_axis
          trace          \* the moves so far, as MoveTrace records

walk == <<cube, cursor, previous_axis, trace>>

Moves == [axis : Axes, amount : Amounts, cursor_before : Coords,
          cursor_after : Coords, previous_axis : Axes]

TypeOK == /\ cube \in [Coords -> Cells]
          /\ cursor \in Coords
          /\ previous_axis \in Axes
          /\ trace \in Seq(Moves)

(* make_initial_state: the seed fixes cursor and previous_axis.            *)
Init == /\ cube = PerfectCube
        /\ cursor \in Coords
        /\ previous_axis \in Axes
        /\ trace = <<>>

-----------------------------------------------------------------------------
(* Positions along a line, modulo Side: the one `amount` cells further on  *)
(* and the one `amount` cells back.                                        *)

Ahead(i, amount) == IF i + amount >= Side THEN i + amount - Side ELSE i + amount

MutantBehind(i, amount) == Ahead(i, amount)
MutantBehindClamped(i, amount) == IF i < amount THEN 0 ELSE i - amount

Behind(i, amount) == IF i < amount THEN i + Side - amount ELSE i - amount

line_contains(axis, line_point, point) ==
    \A a \in Axes \ {axis} : line_point[a] = point[a]

(* Each cell of the line through line_point moves `amount` positions on,   *)
(* so a position receives the cell that was `amount` positions before it.  *)
rotate_line(c, axis, line_point, amount) ==
    [q \in Coords |->
        IF line_contains(axis, line_point, q)
        THEN c[[q EXCEPT ![axis] = Behind(q[axis], amount)]]
        ELSE c[q]]

advance(p, axis, amount) == [p EXCEPT ![axis] = Ahead(p[axis], amount)]

(* Either of the two axes that differ from the previous one.               *)

MutantOtherAxis(previous, second) ==
    IF second THEN [X |-> "Z", Y |-> "X", Z |-> "Y"][previous]
              ELSE [X |-> "Y", Y |-> "Z", Z |-> "Z"][previous]

choose_other_axis(previous, second) ==
    IF second THEN [X |-> "Z", Y |-> "X", Z |-> "Y"][previous]
              ELSE [X |-> "Y", Y |-> "Z", Z |-> "X"][previous]

apply_move(axis, amount) ==
    /\ cube' = rotate_line(cube, axis, cursor, amount)
    /\ cursor' = advance(cursor, axis, amount)
    /\ previous_axis' = axis
    /\ trace' = Append(trace, [axis |-> axis, amount |-> amount,
                               cursor_before |-> cursor,
                               cursor_after |-> cursor',
                               previous_axis |-> previous_axis])

(* preview_move and apply_move with the controller left open.              *)
Move == /\ Len(trace) < MaxMoves
        /\ \E second \in BOOLEAN, amount \in Amounts :
              apply_move(choose_other_axis(previous_axis, second), amount)

Next == Move

Spec == Init /\ [][Next]_walk

-----------------------------------------------------------------------------
Origin == IF trace = <<>> THEN cursor ELSE trace[1].cursor_before

(* Rotation and cursor agree on direction, amount and wrap-around: the     *)
(* cell the walk started on travels with the cursor through every move.    *)
CarriedCell == cube[cursor] = PerfectCube[Origin]

histogram(c) == [v \in Cells |-> Cardinality({q \in Coords : c[q] = v})]

(* Rotations move cells and never copy or drop one: the byte histogram     *)
(* stays the one of the perfect cube.                                      *)
HistogramPreserved == histogram(cube) = histogram(PerfectCube)

(* The trace is a connected path that never turns back on itself: each     *)
(* move starts where the last one ended, on another axis, so two moves     *)
(* displace the cursor along two axes.                                     *)
TraceConnected ==
    \A k \in 1..Len(trace) :
        /\ trace[k].axis # trace[k].previous_axis
        /\ trace[k].cursor_after = IF k = Len(trace) THEN cursor
                                   ELSE trace[k + 1].cursor_before
        /\ k < Len(trace) =>
              \A a \in {trace[k].axis, trace[k + 1].axis} :
                  trace[k].cursor_before[a] # trace[k + 1].cursor_after[a]

(* A rotation is undone by rotating the line through the new cursor on to  *)
(* where it began; Undone takes back the traced moves, the last one first. *)
UndoMove(c, m) == rotate_line(c, m.axis, m.cursor_after, Side - m.amount)

Undone(c, moves) ==
    LET back[k \in 0..Len(moves)] ==
            IF k = 0 THEN c ELSE UndoMove(back[k - 1], moves[Len(moves) + 1 - k])
    IN  back[Len(moves)]

(* The trace determines the cube: rotating the traced lines back, last     *)
(* move first, restores the perfect cube.                                  *)
Retraceable == Undone(cube, trace) = PerfectCube
=============================================================================
