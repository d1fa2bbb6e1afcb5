---------------------------- MODULE CubeWalkProof ----------------------------
(***************************************************************************)
(* The walk of apply_move for a cube of any side and any number of moves:  *)
(* types, the cell that travels with the cursor, the byte histogram, the   *)
(* connected trace, and that the trace takes the cube back to its start.   *)
(***************************************************************************)
EXTENDS CubeWalk, FiniteSetTheorems, FunctionTheorems, WellFoundedInduction,
        TLAPS

(* Positions stay on the line, the position reached differs from the one   *)
(* left, and Ahead and Behind undo each other.                             *)
LEMMA LineFacts ==
    ASSUME NEW i \in 0..(Side - 1), NEW amount \in Amounts
    PROVE  /\ Ahead(i, amount) \in 0..(Side - 1)
           /\ Behind(i, amount) \in 0..(Side - 1)
           /\ Ahead(i, amount) # i
           /\ Behind(Ahead(i, amount), amount) = i
           /\ Ahead(Behind(i, amount), amount) = i
  BY SideAssumption DEF Ahead, Behind, Amounts

(* The next axis is an axis other than the previous one.                   *)
LEMMA OtherAxis ==
    ASSUME NEW previous \in Axes, NEW second \in BOOLEAN
    PROVE  /\ choose_other_axis(previous, second) \in Axes
           /\ choose_other_axis(previous, second) # previous
  BY DEF choose_other_axis, Axes

(* The cursor stays in the cube and moves along the axis of the move only. *)
LEMMA AdvanceFacts ==
    ASSUME NEW p \in Coords, NEW axis \in Axes, NEW amount \in Amounts
    PROVE  /\ advance(p, axis, amount) \in Coords
           /\ advance(p, axis, amount)[axis] = Ahead(p[axis], amount)
           /\ advance(p, axis, amount)[axis] # p[axis]
           /\ \A a \in Axes \ {axis} : advance(p, axis, amount)[a] = p[a]
<1>1. p[axis] \in 0..(Side - 1)
  BY DEF Coords
<1>2. /\ Ahead(p[axis], amount) \in 0..(Side - 1)
      /\ Ahead(p[axis], amount) # p[axis]
  BY <1>1, LineFacts
<1> QED  BY <1>2 DEF advance, Coords

(* A rotation yields a cube again, and the cell under the cursor is found  *)
(* where the cursor advances to.                                           *)
LEMMA RotationFacts ==
    ASSUME NEW c \in [Coords -> Cells], NEW p \in Coords, NEW axis \in Axes,
           NEW amount \in Amounts
    PROVE  /\ rotate_line(c, axis, p, amount) \in [Coords -> Cells]
           /\ rotate_line(c, axis, p, amount)[advance(p, axis, amount)] = c[p]
<1>1. ASSUME NEW q \in Coords
      PROVE  [q EXCEPT ![axis] = Behind(q[axis], amount)] \in Coords
  <2>1. q[axis] \in 0..(Side - 1)
    BY DEF Coords
  <2>2. Behind(q[axis], amount) \in 0..(Side - 1)
    BY <2>1, LineFacts
  <2> QED  BY <2>2 DEF Coords
<1>2. rotate_line(c, axis, p, amount) \in [Coords -> Cells]
  BY <1>1 DEF rotate_line
<1> DEFINE r == advance(p, axis, amount)
<1>3. /\ r \in Coords /\ r[axis] = Ahead(p[axis], amount)
      /\ \A a \in Axes \ {axis} : r[a] = p[a]
  BY AdvanceFacts
<1>4. line_contains(axis, p, r)
  BY <1>3 DEF line_contains
<1>5. Behind(r[axis], amount) = p[axis]
  <2>1. p[axis] \in 0..(Side - 1)
    BY DEF Coords
  <2> QED  BY <1>3, <2>1, LineFacts
<1>6. [r EXCEPT ![axis] = Behind(r[axis], amount)] = p
  BY <1>3, <1>5 DEF Coords
<1>7. rotate_line(c, axis, p, amount)[r] = c[p]
  BY <1>3, <1>4, <1>6 DEF rotate_line
<1> QED  BY <1>2, <1>7

(* Where a rotation takes the cell at q, and where the cell at q came from. *)
Target(q, axis, p, amount) ==
    IF line_contains(axis, p, q) THEN [q EXCEPT ![axis] = Ahead(q[axis], amount)] ELSE q
Source(q, axis, p, amount) ==
    IF line_contains(axis, p, q) THEN [q EXCEPT ![axis] = Behind(q[axis], amount)] ELSE q

(* A rotation permutes the cells: Target and Source are inverse on the     *)
(* cube, and the rotated cube reads each cell at its source.               *)
LEMMA RotationPermutes ==
    ASSUME NEW c \in [Coords -> Cells], NEW p \in Coords, NEW axis \in Axes,
           NEW amount \in Amounts, NEW q \in Coords
    PROVE  /\ Target(q, axis, p, amount) \in Coords
           /\ Source(q, axis, p, amount) \in Coords
           /\ Source(Target(q, axis, p, amount), axis, p, amount) = q
           /\ Target(Source(q, axis, p, amount), axis, p, amount) = q
           /\ rotate_line(c, axis, p, amount)[q] = c[Source(q, axis, p, amount)]
<1>1. q[axis] \in 0..(Side - 1)
  BY DEF Coords
<1> DEFINE f == [q EXCEPT ![axis] = Ahead(q[axis], amount)]
           b == [q EXCEPT ![axis] = Behind(q[axis], amount)]
<1>2. /\ Ahead(q[axis], amount) \in 0..(Side - 1)
      /\ Behind(q[axis], amount) \in 0..(Side - 1)
      /\ Behind(Ahead(q[axis], amount), amount) = q[axis]
      /\ Ahead(Behind(q[axis], amount), amount) = q[axis]
  BY <1>1, LineFacts
<1>3. /\ f \in Coords /\ b \in Coords
      /\ f[axis] = Ahead(q[axis], amount) /\ b[axis] = Behind(q[axis], amount)
      /\ \A a \in Axes \ {axis} : f[a] = q[a] /\ b[a] = q[a]
  BY <1>2 DEF Coords
<1>4. /\ line_contains(axis, p, f) <=> line_contains(axis, p, q)
      /\ line_contains(axis, p, b) <=> line_contains(axis, p, q)
  BY <1>3 DEF line_contains
<1>5. /\ [f EXCEPT ![axis] = Behind(f[axis], amount)] = q
      /\ [b EXCEPT ![axis] = Ahead(b[axis], amount)] = q
  BY <1>2, <1>3 DEF Coords
<1>6. rotate_line(c, axis, p, amount)[q] = c[Source(q, axis, p, amount)]
  BY DEF rotate_line, Source
<1>7. CASE line_contains(axis, p, q)
  <2>1. Target(q, axis, p, amount) = f /\ Source(q, axis, p, amount) = b
    BY <1>7 DEF Target, Source
  <2>2. Source(f, axis, p, amount) = q /\ Target(b, axis, p, amount) = q
    BY <1>4, <1>5, <1>7 DEF Target, Source
  <2> QED  BY <1>3, <1>6, <2>1, <2>2
<1>8. CASE ~line_contains(axis, p, q)
  BY <1>6, <1>8 DEF Target, Source
<1> QED  BY <1>7, <1>8

(* A cube has finitely many cells.                                         *)
LEMMA CoordsFinite == IsFiniteSet(Coords)
<1> DEFINE R == 0..(Side - 1)
           F == [q \in Coords |-> << <<q["X"], q["Y"]>>, q["Z"] >>]
<1>1. IsFiniteSet(R)
  BY SideAssumption, FS_Interval
<1>2. IsFiniteSet((R \X R) \X R)
  BY <1>1, FS_Product
<1>3. F \in [Coords -> (R \X R) \X R]
  BY DEF Coords, Axes
<1>4. ASSUME NEW q \in Coords, NEW r \in Coords, F[q] = F[r]
      PROVE  q = r
  BY <1>4 DEF Coords, Axes
<1>5. F \in Injection(Coords, (R \X R) \X R)
  BY <1>3, <1>4, Fun_IsInj
<1> QED  BY <1>2, <1>5, FS_Injection

(* A rotation leaves the number of cells with any given value as it was.   *)
LEMMA RotationHistogram ==
    ASSUME NEW c \in [Coords -> Cells], NEW p \in Coords, NEW axis \in Axes,
           NEW amount \in Amounts
    PROVE  histogram(rotate_line(c, axis, p, amount)) = histogram(c)
<1> DEFINE d == rotate_line(c, axis, p, amount)
           t(q) == Target(q, axis, p, amount)
           u(q) == Source(q, axis, p, amount)
<1>1. \A q \in Coords : /\ t(q) \in Coords /\ u(q) \in Coords
                        /\ u(t(q)) = q /\ t(u(q)) = q /\ d[q] = c[u(q)]
  BY RotationPermutes
<1> HIDE DEF d, t, u
<1>2. ASSUME NEW v \in Cells
      PROVE  Cardinality({q \in Coords : d[q] = v}) = Cardinality({q \in Coords : c[q] = v})
  <2> DEFINE S == {q \in Coords : c[q] = v}
             T == {q \in Coords : d[q] = v}
             G == [q \in S |-> t(q)]
  <2>1. IsFiniteSet(S)
    BY CoordsFinite, FS_Subset
  <2>2. G \in [S -> T]
    BY <1>1
  <2>3. \A a, b \in S : G[a] = G[b] => a = b
    BY <1>1
  <2>4. \A y \in T : \E x \in S : G[x] = y
    <3> TAKE y \in T
    <3>1. u(y) \in S /\ G[u(y)] = y
      BY <1>1
    <3> QED  BY <3>1
  <2> HIDE DEF G
  <2>5. G \in Bijection(S, T)
    BY <2>2, <2>3, <2>4, Fun_IsBij
  <2>6. ExistsBijection(S, T)
    BY <2>5 DEF ExistsBijection
  <2> QED  BY <2>1, <2>6, FS_Bijection
<1>3. histogram(d) = histogram(c)
  BY <1>2 DEF histogram
<1> QED  BY <1>3 DEF d

(* What apply_move does to a walk, from the lemmas above.                  *)
LEMMA MoveFacts ==
    ASSUME TypeOK, Move
    PROVE  \E axis \in Axes, amount \in Amounts :
              /\ axis # previous_axis
              /\ apply_move(axis, amount)
  BY OtherAxis DEF TypeOK, Move

-----------------------------------------------------------------------------
(* The inductive invariant: types, the carried cell, the histogram, the    *)
(* connected trace, and that each traced move displaced the cursor along   *)
(* its own axis only, the latest one along previous_axis.                  *)
WalkInv ==
    /\ TypeOK
    /\ CarriedCell
    /\ HistogramPreserved
    /\ TraceConnected
    /\ trace # <<>> => previous_axis = trace[Len(trace)].axis
    /\ \A k \in 1..Len(trace) :
          /\ trace[k].cursor_after[trace[k].axis] # trace[k].cursor_before[trace[k].axis]
          /\ \A a \in Axes \ {trace[k].axis} :
                trace[k].cursor_after[a] = trace[k].cursor_before[a]

(* A fresh WorkingState satisfies the invariant.                           *)
LEMMA InitWalk == Init => WalkInv
  BY CubeAssumption DEF Init, WalkInv, TypeOK, CarriedCell, HistogramPreserved,
                        Origin, TraceConnected

(* A move preserves the invariant.                                         *)
LEMMA MoveWalk ==
    ASSUME WalkInv, Move
    PROVE  WalkInv'
<1>1. TypeOK
  BY DEF WalkInv
<1>2. PICK axis \in Axes, amount \in Amounts :
          axis # previous_axis /\ apply_move(axis, amount)
  BY <1>1, MoveFacts
<1> DEFINE m == [axis |-> axis, amount |-> amount, cursor_before |-> cursor,
                 cursor_after |-> cursor', previous_axis |-> previous_axis]
<1>3. /\ cube' = rotate_line(cube, axis, cursor, amount)
      /\ cursor' = advance(cursor, axis, amount)
      /\ previous_axis' = axis
      /\ trace' = Append(trace, m)
  BY <1>2 DEF apply_move
<1>4. /\ cube \in [Coords -> Cells] /\ cursor \in Coords
      /\ previous_axis \in Axes /\ trace \in Seq(Moves)
  BY <1>1 DEF TypeOK
<1>5. /\ cube' \in [Coords -> Cells]
      /\ cube'[cursor'] = cube[cursor]
  BY <1>3, <1>4, RotationFacts
<1>6. /\ cursor' \in Coords
      /\ cursor'[axis] # cursor[axis]
      /\ \A a \in Axes \ {axis} : cursor'[a] = cursor[a]
  BY <1>3, <1>4, AdvanceFacts
<1>7. m \in Moves
  BY <1>4, <1>6 DEF Moves
<1>8. /\ trace' \in Seq(Moves) /\ Len(trace') = Len(trace) + 1
      /\ Len(trace) \in Nat /\ trace'[Len(trace) + 1] = m
      /\ \A k \in 1..Len(trace) : trace'[k] = trace[k]
  BY <1>3, <1>4, <1>7
<1>9. TypeOK'
  BY <1>3, <1>5, <1>6, <1>8 DEF TypeOK
<1>10. CarriedCell'
  <2>1. CASE trace = <<>>
    <3>1. trace' # <<>> /\ trace'[1] = m
      <4>1. Len(trace) = 0
        BY <2>1
      <4>2. Len(trace') = 1 /\ trace'[1] = m
        <5> HIDE DEF m
        <5> QED  BY <1>8, <4>1
      <4> QED  BY <4>2
    <3>2. Origin' = Origin
      BY <2>1, <3>1 DEF Origin
    <3> QED  BY <1>5, <3>2 DEF CarriedCell, WalkInv
  <2>2. CASE trace # <<>>
    <3>1. 1 \in 1..Len(trace)
      BY <1>4, <2>2
    <3>2. trace' # <<>> /\ trace'[1] = trace[1]
      BY <1>8, <3>1
    <3>3. Origin' = Origin
      BY <2>2, <3>2 DEF Origin
    <3> QED  BY <1>5, <3>3 DEF CarriedCell, WalkInv
  <2> QED  BY <2>1, <2>2
<1>11. trace' # <<>> => previous_axis' = trace'[Len(trace')].axis
  BY <1>3, <1>8
<1>12. ASSUME NEW k \in 1..Len(trace')
       PROVE  /\ trace'[k].cursor_after[trace'[k].axis]
                     # trace'[k].cursor_before[trace'[k].axis]
              /\ \A a \in Axes \ {trace'[k].axis} :
                     trace'[k].cursor_after[a] = trace'[k].cursor_before[a]
  <2>1. CASE k = Len(trace) + 1
    BY <1>6, <1>8, <2>1
  <2>2. CASE k \in 1..Len(trace)
    BY <1>8, <2>2 DEF WalkInv
  <2> QED  BY <1>8, <2>1, <2>2
<1>13. TraceConnected'
  <2> SUFFICES ASSUME NEW k \in 1..Len(trace')
               PROVE  /\ trace'[k].axis # trace'[k].previous_axis
                      /\ trace'[k].cursor_after = IF k = Len(trace') THEN cursor'
                                                  ELSE trace'[k + 1].cursor_before
                      /\ k < Len(trace') =>
                            \A a \in {trace'[k].axis, trace'[k + 1].axis} :
                                trace'[k].cursor_before[a] # trace'[k + 1].cursor_after[a]
    BY DEF TraceConnected
  <2>1. CASE k = Len(trace) + 1
    BY <1>2, <1>8, <2>1
  <2>2. CASE k = Len(trace)
    <3>1. /\ k \in 1..Len(trace) /\ trace'[k] = trace[k] /\ trace'[k + 1] = m
          /\ k # Len(trace')
      BY <1>8, <2>2
    <3>2. /\ trace[k].axis # trace[k].previous_axis
          /\ trace[k].cursor_after = cursor
          /\ previous_axis = trace[k].axis
      BY <2>2, <3>1 DEF WalkInv, TraceConnected
    <3>3. trace[k].axis # axis /\ trace[k].axis \in Axes
      BY <1>2, <1>4, <3>2
    <3>4. /\ cursor[trace[k].axis] # trace[k].cursor_before[trace[k].axis]
          /\ \A a \in Axes \ {trace[k].axis} : cursor[a] = trace[k].cursor_before[a]
      BY <3>1, <3>2 DEF WalkInv
    <3>5. cursor'[trace[k].axis] = cursor[trace[k].axis]
      BY <1>6, <3>3
    <3>6. cursor[axis] = trace[k].cursor_before[axis]
      BY <3>3, <3>4
    <3> QED  BY <1>6, <3>1, <3>2, <3>4, <3>5, <3>6
  <2>3. CASE k \in 1..Len(trace) /\ k # Len(trace)
    <3>1. /\ k + 1 \in 1..Len(trace) /\ trace'[k] = trace[k]
          /\ trace'[k + 1] = trace[k + 1] /\ k # Len(trace') /\ k < Len(trace)
      BY <1>8, <2>3
    <3> QED  BY <2>3, <3>1 DEF WalkInv, TraceConnected
  <2> QED  BY <1>8, <2>1, <2>2, <2>3
<1>14. HistogramPreserved'
  BY <1>3, <1>4, RotationHistogram DEF HistogramPreserved, WalkInv
<1> QED  BY <1>9, <1>10, <1>11, <1>12, <1>13, <1>14 DEF WalkInv

(* The invariant holds of every walk.                                      *)
THEOREM WalkInvariance == Spec => []WalkInv
<1>1. WalkInv /\ UNCHANGED walk => WalkInv'
  BY DEF WalkInv, walk, TypeOK, CarriedCell, HistogramPreserved, Origin, TraceConnected
<1>2. WalkInv /\ [Next]_walk => WalkInv'
  BY <1>1, MoveWalk DEF Next
<1> QED  BY InitWalk, <1>2, PTL DEF Spec

(* The variables of a WorkingState keep their types: the cursor never      *)
(* leaves the cube and amounts stay in 1..Side-1.                          *)
THEOREM WalkTypes == Spec => []TypeOK
  BY WalkInvariance, PTL DEF WalkInv

(* The cell an evaluation starts on stays under the cursor for ever,       *)
(* whatever the key, the message and the controller.                       *)
THEOREM CellIsCarried == Spec => []CarriedCell
  BY WalkInvariance, PTL DEF WalkInv

(* No move copies or loses a cell: the byte histogram is the perfect       *)
(* cube's for ever.                                                        *)
THEOREM HistogramIsPreserved == Spec => []HistogramPreserved
  BY WalkInvariance, PTL DEF WalkInv

(* The trace of every walk is connected, and any two consecutive moves     *)
(* displace the cursor along two axes.                                     *)
THEOREM TraceIsConnected == Spec => []TraceConnected
  BY WalkInvariance, PTL DEF WalkInv

-----------------------------------------------------------------------------
(* Induction on the naturals for a set: its least missing element would    *)
(* have a predecessor in the set.                                          *)
LEMMA SetInduction ==
    ASSUME NEW S, 0 \in S, \A n \in Nat : n \in S => n + 1 \in S
    PROVE  Nat \subseteq S
<1> DEFINE R == {p \in Nat \X Nat : p[1] < p[2]}
           T == Nat \ S
<1>1. IsWellFoundedOn(R, Nat)
  BY NatLessThanWellFounded DEF OpToRel
<1>2. \A a, b \in Nat : a < b => <<a, b>> \in R
  OBVIOUS
<1> HIDE DEF R
<1> SUFFICES ASSUME T # {} PROVE FALSE
  OBVIOUS
<1>3. PICK x \in T : \A y \in T : ~ (<<y, x>> \in R)
  BY <1>1, WFMin
<1>4. x \in Nat /\ x # 0 /\ x \notin S
  OBVIOUS
<1>5. x - 1 \in Nat /\ x - 1 < x /\ (x - 1) + 1 = x
  BY <1>4
<1>6. x - 1 \in T
  BY <1>4, <1>5
<1> QED  BY <1>2, <1>3, <1>4, <1>5, <1>6

(* Rotating the line through the advanced cursor on to where it began      *)
(* restores the cube.                                                      *)
LEMMA RotationUndone ==
    ASSUME NEW c \in [Coords -> Cells], NEW p \in Coords, NEW axis \in Axes,
           NEW amount \in Amounts
    PROVE  rotate_line(rotate_line(c, axis, p, amount), axis,
                       advance(p, axis, amount), Side - amount) = c
<1> DEFINE r == advance(p, axis, amount)
           d == rotate_line(c, axis, p, amount)
           b == rotate_line(d, axis, r, Side - amount)
<1>1. /\ r \in Coords
      /\ \A a \in Axes \ {axis} : r[a] = p[a]
  BY AdvanceFacts
<1>2. Side - amount \in Amounts
  BY SideAssumption DEF Amounts
<1>3. d \in [Coords -> Cells]
  BY RotationFacts
<1>4. b \in [Coords -> Cells]
  BY <1>1, <1>2, <1>3, RotationFacts
<1>5. ASSUME NEW q \in Coords
      PROVE  b[q] = c[q]
  <2>1. b[q] = d[Source(q, axis, r, Side - amount)]
    <3> HIDE DEF r, d
    <3> QED  BY <1>1, <1>2, <1>3, RotationPermutes
  <2>2. Source(q, axis, r, Side - amount) = Target(q, axis, p, amount)
    <3>1. q[axis] \in 0..(Side - 1)
      BY DEF Coords
    <3>2. Behind(q[axis], Side - amount) = Ahead(q[axis], amount)
      BY <3>1, SideAssumption DEF Behind, Ahead, Amounts
    <3>3. line_contains(axis, r, q) <=> line_contains(axis, p, q)
      BY <1>1 DEF line_contains
    <3> HIDE DEF r
    <3> QED  BY <3>2, <3>3 DEF Source, Target
  <2>3. /\ Target(q, axis, p, amount) \in Coords
        /\ Source(Target(q, axis, p, amount), axis, p, amount) = q
    BY RotationPermutes
  <2>4. d[Target(q, axis, p, amount)] = c[q]
    BY <2>3, RotationPermutes
  <2> QED  BY <2>1, <2>2, <2>4
<1> HIDE DEF b
<1>6. b = c
  BY <1>4, <1>5
<1> QED  BY <1>6 DEF b

(* The cubes that undoing the moves passes through, from the last move     *)
(* back to the first.                                                      *)
IsUndoing(f, c, moves, n) ==
    f = [k \in 0..n |->
            IF k = 0 THEN c ELSE UndoMove(f[k - 1], moves[Len(moves) + 1 - k])]

(* They exist for every number of moves, so Undone is the last of them.    *)
LEMMA UndoingExists ==
    ASSUME NEW c, NEW moves, NEW n \in Nat
    PROVE  \E f : IsUndoing(f, c, moves, n)
<1> DEFINE step(x, k) == UndoMove(x, moves[Len(moves) + 1 - k])
           S == {i \in Nat : \E f : f = [k \in 0..i |-> IF k = 0 THEN c ELSE step(f[k - 1], k)]}
<1> HIDE DEF step
<1>1. 0 \in S
  <2> DEFINE f == [k \in 0..0 |-> c]
  <2>1. f = [k \in 0..0 |-> IF k = 0 THEN c ELSE step(f[k - 1], k)]
    OBVIOUS
  <2> QED  BY <2>1
<1>2. ASSUME NEW i \in Nat, i \in S
      PROVE  i + 1 \in S
  <2>1. PICK f : f = [k \in 0..i |-> IF k = 0 THEN c ELSE step(f[k - 1], k)]
    BY <1>2
  <2> DEFINE g == [k \in 0..(i + 1) |-> IF k <= i THEN f[k] ELSE step(f[i], i + 1)]
             h == [k \in 0..(i + 1) |-> IF k = 0 THEN c ELSE step(g[k - 1], k)]
  <2>2. ASSUME NEW k \in 0..(i + 1)
        PROVE  g[k] = h[k]
    <3>1. CASE k = 0
      BY <2>1, <3>1
    <3>2. CASE k \in 1..i
      <4>1. g[k] = f[k] /\ h[k] = step(g[k - 1], k) /\ g[k - 1] = f[k - 1]
        BY <3>2
      <4>2. f[k] = step(f[k - 1], k)
        <5>1. k \in 0..i /\ k # 0
          BY <3>2
        <5> QED  BY <2>1, <5>1
      <4> QED  BY <4>1, <4>2
    <3>3. CASE k = i + 1
      <4>1. g[k] = step(f[i], i + 1) /\ h[k] = step(g[i], i + 1) /\ g[i] = f[i]
        BY <3>3
      <4> QED  BY <4>1
    <3> QED  BY <3>1, <3>2, <3>3
  <2>3. g = h
    BY <2>2
  <2> HIDE DEF g
  <2> QED  BY <2>3
<1>3. n \in S
  BY <1>1, <1>2, SetInduction
<1> QED  BY <1>3 DEF IsUndoing, step

LEMMA UndoneIsLast ==
    ASSUME NEW c, NEW moves, Len(moves) \in Nat
    PROVE  \E f : /\ IsUndoing(f, c, moves, Len(moves))
                  /\ Undone(c, moves) = f[Len(moves)]
<1> DEFINE f == CHOOSE f : IsUndoing(f, c, moves, Len(moves))
<1>1. IsUndoing(f, c, moves, Len(moves))
  BY UndoingExists
<1>2. Undone(c, moves) = f[Len(moves)]
  BY DEF Undone, IsUndoing
<1> QED  BY <1>1, <1>2

(* Undoing a longer trace undoes its last move first.                      *)
LEMMA UndoneAppended ==
    ASSUME NEW c, NEW t \in Seq(Moves), NEW m \in Moves
    PROVE  Undone(c, Append(t, m)) = Undone(UndoMove(c, m), t)
<1> DEFINE u == Append(t, m)  n == Len(t)
<1>1. /\ n \in Nat /\ Len(u) = n + 1 /\ u[n + 1] = m
      /\ \A k \in 1..n : u[k] = t[k]
  OBVIOUS
<1> HIDE DEF u, n
<1>2. PICK f : IsUndoing(f, UndoMove(c, m), t, n) /\ Undone(UndoMove(c, m), t) = f[n]
  BY <1>1, UndoneIsLast DEF n
<1>3. PICK g : IsUndoing(g, c, u, n + 1) /\ Undone(c, u) = g[n + 1]
  BY <1>1, UndoneIsLast
<1>4. f = [k \in 0..n |-> IF k = 0 THEN UndoMove(c, m) ELSE UndoMove(f[k - 1], t[n + 1 - k])]
  BY <1>2 DEF IsUndoing, n
<1> DEFINE S == {k \in Nat : k \in 0..n => g[k + 1] = f[k]}
<1>5. 0 \in S
  <2>1. g[1] = UndoMove(g[0], u[n + 1 + 1 - 1]) /\ g[0] = c /\ f[0] = UndoMove(c, m)
    BY <1>1, <1>2, <1>3 DEF IsUndoing, n
  <2> QED  BY <1>1, <2>1
<1>6. ASSUME NEW k \in Nat, k \in S
      PROVE  k + 1 \in S
  <2> SUFFICES ASSUME k + 1 \in 0..n PROVE g[k + 1 + 1] = f[k + 1]
    OBVIOUS
  <2>1. /\ k \in 0..n /\ k + 1 # 0 /\ k + 1 + 1 \in 0..(n + 1) /\ k + 1 + 1 # 0
        /\ n + 1 - (k + 1) \in 1..n
        /\ n + 1 + 1 - (k + 1 + 1) = n + 1 - (k + 1)
        /\ k + 1 - 1 = k /\ k + 1 + 1 - 1 = k + 1
    BY <1>1
  <2>2. f[k + 1] = UndoMove(f[k], t[n + 1 - (k + 1)])
    BY <1>4, <2>1
  <2>3. g[k + 1 + 1] = UndoMove(g[k + 1], u[n + 1 + 1 - (k + 1 + 1)])
    BY <1>1, <1>3, <2>1 DEF IsUndoing
  <2>4. g[k + 1] = f[k]
    BY <1>6, <2>1
  <2> QED  BY <1>1, <2>1, <2>2, <2>3, <2>4
<1>7. n \in S
  BY <1>1, <1>5, <1>6, SetInduction
<1>8. g[n + 1] = f[n]
  BY <1>1, <1>7
<1> QED  BY <1>2, <1>3, <1>8 DEF u

(* The trace of every walk, read backwards, takes the cube back to the     *)
(* perfect cube: nothing but the traced moves has touched it.              *)
THEOREM WalkIsRetraceable == Spec => []Retraceable
<1>1. Init => Retraceable
  <2> SUFFICES ASSUME Init PROVE Retraceable
    OBVIOUS
  <2>1. trace = <<>> /\ Len(trace) = 0 /\ cube = PerfectCube
    BY DEF Init
  <2>2. PICK f : IsUndoing(f, cube, trace, 0) /\ Undone(cube, trace) = f[0]
    BY <2>1, UndoneIsLast
  <2> QED  BY <2>1, <2>2 DEF Retraceable, IsUndoing
<1>2. ASSUME TypeOK, Retraceable, Move
      PROVE  Retraceable'
  <2>1. PICK axis \in Axes, amount \in Amounts : apply_move(axis, amount)
    BY <1>2, MoveFacts
  <2> DEFINE m == [axis |-> axis, amount |-> amount, cursor_before |-> cursor,
                   cursor_after |-> cursor', previous_axis |-> previous_axis]
  <2>2. /\ cube' = rotate_line(cube, axis, cursor, amount)
        /\ cursor' = advance(cursor, axis, amount)
        /\ trace' = Append(trace, m)
    BY <2>1 DEF apply_move
  <2>3. /\ cube \in [Coords -> Cells] /\ cursor \in Coords
        /\ previous_axis \in Axes /\ trace \in Seq(Moves)
    BY <1>2 DEF TypeOK
  <2>4. m \in Moves
    BY <2>2, <2>3, AdvanceFacts DEF Moves
  <2>5. UndoMove(cube', m) = cube
    BY <2>2, <2>3, RotationUndone DEF UndoMove
  <2> HIDE DEF m
  <2>6. Undone(cube', Append(trace, m)) = Undone(cube, trace)
    BY <2>3, <2>4, <2>5, UndoneAppended
  <2>7. Undone(cube', trace') = PerfectCube
    BY <1>2, <2>2, <2>6 DEF Retraceable
  <2> QED  BY <2>7 DEF Retraceable
<1>3. Retraceable /\ UNCHANGED walk => Retraceable'
  BY DEF Retraceable, walk
<1> QED  BY <1>1, <1>2, <1>3, WalkTypes, PTL DEF Spec, Next
=============================================================================
