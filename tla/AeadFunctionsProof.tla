------------------------- MODULE AeadFunctionsProof --------------------------
(***************************************************************************)
(* The frames are injective, for all nonces, counters, associated data,    *)
(* contexts and messages whose lengths fit their 64-bit fields; what the   *)
(* keystream and the tag are made of; and open inverts seal.               *)
(***************************************************************************)
EXTENDS AeadFunctions, SequenceTheorems, TLAPS

(* Two octets are equal only when their values are.                        *)
LEMMA OctetInjective ==
    ASSUME NEW a, NEW b, Octet(a) = Octet(b)
    PROVE  a = b
<1>1. [octet |-> a] = [octet |-> b]
  BY Zenon DEF Octet
<1>2. [octet |-> a].octet = [octet |-> b].octet
  BY <1>1
<1> QED  BY <1>2

(* A number is determined by its last byte and the rest.                   *)
LEMMA ByteSplit ==
    ASSUME NEW v \in Nat, NEW w \in Nat, Shr8(v) = Shr8(w), v % 256 = w % 256
    PROVE  v = w
  BY SMT DEF Shr8

(* Shifting a natural number right by a byte yields a natural number.       *)
LEMMA ShiftType == \A v \in Nat : Shr8(v) \in Nat
  BY SMT DEF Shr8

(* append_u64_be loses nothing of a 64-bit value.                          *)
LEMMA U64Injective ==
    ASSUME NEW v \in U64, NEW w \in U64, u64_be(v) = u64_be(w)
    PROVE  v = w
<1> DEFINE v1 == Shr8(v)  v2 == Shr8(v1)  v3 == Shr8(v2)  v4 == Shr8(v3)
           v5 == Shr8(v4) v6 == Shr8(v5)  v7 == Shr8(v6)
           w1 == Shr8(w)  w2 == Shr8(w1)  w3 == Shr8(w2)  w4 == Shr8(w3)
           w5 == Shr8(w4) w6 == Shr8(w5)  w7 == Shr8(w6)
<1>1. /\ v \in Nat /\ v1 \in Nat /\ v2 \in Nat /\ v3 \in Nat
      /\ v4 \in Nat /\ v5 \in Nat /\ v6 \in Nat /\ v7 \in Nat
      /\ w \in Nat /\ w1 \in Nat /\ w2 \in Nat /\ w3 \in Nat
      /\ w4 \in Nat /\ w5 \in Nat /\ w6 \in Nat /\ w7 \in Nat
  BY ShiftType DEF U64
<1>2. v7 < 256 /\ w7 < 256
  BY DEF U64, Shr56, Shr32, Shr16
<1> DEFINE V == <<Octet(v7 % 256), Octet(v6 % 256), Octet(v5 % 256),
                  Octet(v4 % 256), Octet(v3 % 256), Octet(v2 % 256),
                  Octet(v1 % 256), Octet(v % 256)>>
           W == <<Octet(w7 % 256), Octet(w6 % 256), Octet(w5 % 256),
                  Octet(w4 % 256), Octet(w3 % 256), Octet(w2 % 256),
                  Octet(w1 % 256), Octet(w % 256)>>
<1>3. u64_be(v) = V
  BY DEF u64_be, Shr56, Shr32, Shr16
<1>4. u64_be(w) = W
  BY DEF u64_be, Shr56, Shr32, Shr16
<1> HIDE DEF v1, v2, v3, v4, v5, v6, v7, w1, w2, w3, w4, w5, w6, w7, V, W
<1>5. /\ v7 % 256 = w7 % 256 /\ v6 % 256 = w6 % 256 /\ v5 % 256 = w5 % 256
      /\ v4 % 256 = w4 % 256 /\ v3 % 256 = w3 % 256 /\ v2 % 256 = w2 % 256
      /\ v1 % 256 = w1 % 256 /\ v % 256 = w % 256
  <2>1. V = W
    BY <1>3, <1>4
  <2>2. /\ Octet(v7 % 256) = Octet(w7 % 256) /\ Octet(v6 % 256) = Octet(w6 % 256)
        /\ Octet(v5 % 256) = Octet(w5 % 256) /\ Octet(v4 % 256) = Octet(w4 % 256)
        /\ Octet(v3 % 256) = Octet(w3 % 256) /\ Octet(v2 % 256) = Octet(w2 % 256)
        /\ Octet(v1 % 256) = Octet(w1 % 256) /\ Octet(v % 256) = Octet(w % 256)
    BY <2>1, SMT DEF V, W
  <2> QED  BY <2>2, OctetInjective, SMT
<1>6. v7 = w7
  BY <1>1, <1>2, <1>5, SMT
<1>7. v6 = w6
  BY <1>1, <1>5, <1>6, ByteSplit DEF v7, w7
<1>8. v5 = w5
  BY <1>1, <1>5, <1>7, ByteSplit DEF v6, w6
<1>9. v4 = w4
  BY <1>1, <1>5, <1>8, ByteSplit DEF v5, w5
<1>10. v3 = w3
  BY <1>1, <1>5, <1>9, ByteSplit DEF v4, w4
<1>11. v2 = w2
  BY <1>1, <1>5, <1>10, ByteSplit DEF v3, w3
<1>12. v1 = w1
  BY <1>1, <1>5, <1>11, ByteSplit DEF v2, w2
<1> QED  BY <1>1, <1>5, <1>12, ByteSplit DEF v1, w1

(* What stands before and after position n of a byte string.               *)
Take(s, n) == [i \in 1..n |-> s[i]]
Drop(s, n) == [i \in 1..(Len(s) - n) |-> s[i + n]]

(* x is made of a and b: the length of a is enough to recover both parts.  *)
Joined(S, x, a, b) ==
    /\ x \in Seq(S)
    /\ Len(x) = Len(a) + Len(b)
    /\ Take(x, Len(a)) = a
    /\ Drop(x, Len(a)) = b

(* The two parts of a concatenation can be told from where they meet.      *)
LEMMA Joins ==
    ASSUME NEW S, NEW a \in Seq(S), NEW b \in Seq(S)
    PROVE  Joined(S, a \o b, a, b)
<1>1. /\ Len(a \o b) = Len(a) + Len(b) /\ Len(a) \in Nat /\ Len(b) \in Nat
      /\ DOMAIN a = 1..Len(a) /\ DOMAIN b = 1..Len(b)
  BY ConcatProperties, LenProperties
<1>2. a \o b \in Seq(S)
  BY ConcatProperties, Zenon
<1>3. \A i \in 1..(Len(a) + Len(b)) :
          (a \o b)[i] = IF i <= Len(a) THEN a[i] ELSE b[i - Len(a)]
  BY ConcatProperties
<1>4. \A i \in 1..Len(a) : (a \o b)[i] = a[i]
  BY <1>1, <1>3
<1>5. Take(a \o b, Len(a)) = a
  BY <1>1, <1>4 DEF Take
<1>6. ASSUME NEW i \in 1..Len(b) PROVE (a \o b)[i + Len(a)] = b[i]
  <2>1. /\ i + Len(a) \in 1..(Len(a) + Len(b))
        /\ ~(i + Len(a) <= Len(a)) /\ i + Len(a) - Len(a) = i
    BY <1>1
  <2> QED  BY <1>3, <2>1
<1>7. Len(a \o b) - Len(a) = Len(b)
  BY <1>1
<1>8. Drop(a \o b, Len(a)) = [i \in 1..Len(b) |-> b[i]]
  BY <1>6, <1>7 DEF Drop
<1>9. Drop(a \o b, Len(a)) = b
  BY <1>1, <1>8
<1> QED  BY <1>1, <1>2, <1>5, <1>9, Zenon DEF Joined

(* Two concatenations with first parts of equal length are equal only part *)
(* by part.                                                                *)
LEMMA PartsEqual ==
    ASSUME NEW S, NEW x, NEW y, NEW a, NEW b, NEW c, NEW d,
           Joined(S, x, a, b), Joined(S, y, c, d), Len(a) = Len(c), x = y
    PROVE  a = c /\ b = d
  BY Zenon DEF Joined

(* The first part of a byte string's first part can be recovered from the  *)
(* whole.                                                                  *)
LEMMA FirstOfFirst ==
    ASSUME NEW S, NEW x, NEW f \in Seq(S), NEW b, NEW p \in Seq(S), NEW a \in Seq(S),
           Joined(S, x, f, b), Joined(S, f, p, a)
    PROVE  Take(x, Len(p)) = p
<1>1. Len(p) \in Nat /\ Len(a) \in Nat /\ Len(f) = Len(p) + Len(a)
  BY LenProperties DEF Joined
<1>2. 1..Len(p) \subseteq 1..Len(f)
  BY <1>1
<1>3. \A i \in 1..Len(f) : x[i] = f[i]
  <2>1. f = [i \in 1..Len(f) |-> x[i]]
    BY Zenon DEF Joined, Take
  <2> QED  BY <2>1
<1>4. Take(x, Len(p)) = Take(f, Len(p))
  BY <1>2, <1>3 DEF Take
<1> QED  BY <1>4, Zenon DEF Joined

(* The parts of a frame are byte strings of known length.                  *)
LEMMA PartsFacts ==
    ASSUME NEW B, HeaderBytes \subseteq B, NEW t \in Nat, NEW v \in Nat
    PROVE  /\ StreamHeader(t) \in Seq(B) /\ Len(StreamHeader(t)) = 4
           /\ ContextHeader(t) \in Seq(B) /\ Len(ContextHeader(t)) = 5
           /\ MacHeader(t) \in Seq(B) /\ Len(MacHeader(t)) = 3
           /\ u64_be(v) \in Seq(B) /\ Len(u64_be(v)) = 8
<1>1. \A c \in {"PVC-AEAD-0", "PVC-MAC-0", "S", "A", "C1", "M1"} : Const(c) \in B
  BY DEF HeaderBytes
<1>2. \A n \in Nat : Octet(n) \in B
  BY DEF HeaderBytes
<1>3. \A n \in Nat : Octet(n % 256) \in B
  BY <1>2
<1>4. /\ StreamHeader(t) \in Seq(B) /\ Len(StreamHeader(t)) = 4
  BY <1>1, <1>2 DEF StreamHeader
<1>5. /\ ContextHeader(t) \in Seq(B) /\ Len(ContextHeader(t)) = 5
  BY <1>1, <1>2 DEF ContextHeader
<1>6. /\ MacHeader(t) \in Seq(B) /\ Len(MacHeader(t)) = 3
  BY <1>1, <1>2 DEF MacHeader
<1>7. /\ Shr8(v) \in Nat /\ Shr16(v) \in Nat /\ Shr8(Shr16(v)) \in Nat
      /\ Shr32(v) \in Nat /\ Shr8(Shr32(v)) \in Nat
      /\ Shr16(Shr32(v)) \in Nat /\ Shr56(v) \in Nat
  BY ShiftType DEF Shr16, Shr32, Shr56
<1>8. u64_be(v) \in Seq(B) /\ Len(u64_be(v)) = 8
  BY <1>3, <1>7 DEF u64_be
<1> QED  BY <1>4, <1>5, <1>6, <1>8

(* Headers show the tag size they were built for.                          *)
LEMMA HeaderTagSize ==
    ASSUME NEW t, NEW u
    PROVE  /\ StreamHeader(t) = StreamHeader(u) => t = u
           /\ ContextHeader(t) = ContextHeader(u) => t = u
           /\ MacHeader(t) = MacHeader(u) => t = u
<1>1. /\ StreamHeader(t) = StreamHeader(u) => Octet(t) = Octet(u)
      /\ ContextHeader(t) = ContextHeader(u) => Octet(t) = Octet(u)
      /\ MacHeader(t) = MacHeader(u) => Octet(t) = Octet(u)
  BY SMT DEF StreamHeader, ContextHeader, MacHeader
<1> QED  BY <1>1, OctetInjective

(* A stream frame determines its nonce, block counter and tag size: no two *)
(* keystream blocks of a key come from the same C1 input.                  *)
THEOREM StreamFrameInjective ==
    ASSUME NEW B, HeaderBytes \subseteq B,
           NEW m \in Seq(B), NEW n \in Seq(B),
           Len(m) = NonceBytes, Len(n) = NonceBytes,
           NEW v \in U64, NEW w \in U64, NEW t \in Nat, NEW u \in Nat,
           frame_stream_block(m, v, t) = frame_stream_block(n, w, u)
    PROVE  m = n /\ v = w /\ t = u
<1>1. v \in Nat /\ w \in Nat
  BY DEF U64
<1>2. /\ StreamHeader(t) \in Seq(B) /\ StreamHeader(u) \in Seq(B)
      /\ u64_be(v) \in Seq(B) /\ u64_be(w) \in Seq(B)
      /\ Len(StreamHeader(t)) = Len(StreamHeader(u))
  BY <1>1, PartsFacts
<1> DEFINE X == StreamHeader(t) \o m  Y == StreamHeader(u) \o n
           F == X \o u64_be(v)       G == Y \o u64_be(w)
<1>3. Joined(B, X, StreamHeader(t), m) /\ Joined(B, Y, StreamHeader(u), n)
  BY <1>2, Joins, Zenon
<1>4. F = G
  BY DEF frame_stream_block
<1> HIDE DEF X, Y
<1>5. X \in Seq(B) /\ Y \in Seq(B) /\ Len(X) = Len(Y)
  BY <1>2, <1>3 DEF Joined
<1>6. Joined(B, F, X, u64_be(v)) /\ Joined(B, G, Y, u64_be(w))
  BY <1>2, <1>5, Joins, Zenon
<1> HIDE DEF F, G
<1>7. X = Y /\ u64_be(v) = u64_be(w)
  BY <1>4, <1>5, <1>6, PartsEqual, Zenon
<1>8. StreamHeader(t) = StreamHeader(u) /\ m = n
  BY <1>2, <1>3, <1>7, PartsEqual, Zenon
<1> QED  BY <1>7, <1>8, HeaderTagSize, U64Injective, Zenon

(* An authentication context determines its nonce, its associated data and *)
(* its tag size.                                                           *)
THEOREM ContextInjective ==
    ASSUME NEW B, HeaderBytes \subseteq B,
           NEW m \in Seq(B), NEW n \in Seq(B),
           Len(m) = NonceBytes, Len(n) = NonceBytes,
           NEW a \in Seq(B), NEW b \in Seq(B), Len(a) \in U64, Len(b) \in U64,
           NEW t \in Nat, NEW u \in Nat,
           frame_authentication_context(m, a, t)
               = frame_authentication_context(n, b, u)
    PROVE  m = n /\ a = b /\ t = u
<1>1. Len(a) \in Nat /\ Len(b) \in Nat
  BY DEF U64
<1>2. /\ ContextHeader(t) \in Seq(B) /\ ContextHeader(u) \in Seq(B)
      /\ u64_be(Len(a)) \in Seq(B) /\ u64_be(Len(b)) \in Seq(B)
      /\ Len(ContextHeader(t)) = Len(ContextHeader(u))
      /\ Len(u64_be(Len(a))) = Len(u64_be(Len(b)))
  BY <1>1, PartsFacts
<1> DEFINE X == ContextHeader(t) \o m    Y == ContextHeader(u) \o n
           P == X \o u64_be(Len(a))      Q == Y \o u64_be(Len(b))
           F == P \o a                   G == Q \o b
<1>3. Joined(B, X, ContextHeader(t), m) /\ Joined(B, Y, ContextHeader(u), n)
  BY <1>2, Joins, Zenon
<1>4. F = G
  BY DEF frame_authentication_context
<1> HIDE DEF X, Y
<1>5. X \in Seq(B) /\ Y \in Seq(B) /\ Len(X) = Len(Y)
  BY <1>2, <1>3 DEF Joined
<1>6. Joined(B, P, X, u64_be(Len(a))) /\ Joined(B, Q, Y, u64_be(Len(b)))
  BY <1>2, <1>5, Joins, Zenon
<1> HIDE DEF P, Q
<1>7. P \in Seq(B) /\ Q \in Seq(B) /\ Len(P) = Len(Q)
  BY <1>2, <1>5, <1>6 DEF Joined
<1>8. Joined(B, F, P, a) /\ Joined(B, G, Q, b)
  BY <1>7, Joins, Zenon
<1> HIDE DEF F, G
<1>9. P = Q /\ a = b
  BY <1>4, <1>7, <1>8, PartsEqual, Zenon
<1>10. X = Y
  BY <1>5, <1>6, <1>9, PartsEqual, Zenon
<1>11. ContextHeader(t) = ContextHeader(u) /\ m = n
  BY <1>2, <1>3, <1>10, PartsEqual, Zenon
<1> QED  BY <1>9, <1>11, HeaderTagSize, Zenon

(* An M1 frame determines its context, its message and its tag size: the   *)
(* boundary between context and message cannot move.                       *)
THEOREM MacFrameInjective ==
    ASSUME NEW B, HeaderBytes \subseteq B,
           NEW a \in Seq(B), NEW b \in Seq(B), Len(a) \in U64, Len(b) \in U64,
           NEW c \in Seq(B), NEW d \in Seq(B), Len(c) \in U64, Len(d) \in U64,
           NEW t \in Nat, NEW u \in Nat,
           frame_message(a, c, t) = frame_message(b, d, u)
    PROVE  a = b /\ c = d /\ t = u
<1>1. /\ Len(a) \in Nat /\ Len(b) \in Nat /\ Len(c) \in Nat /\ Len(d) \in Nat
  BY DEF U64
<1>2. /\ MacHeader(t) \in Seq(B) /\ MacHeader(u) \in Seq(B)
      /\ u64_be(Len(a)) \in Seq(B) /\ u64_be(Len(b)) \in Seq(B)
      /\ u64_be(Len(c)) \in Seq(B) /\ u64_be(Len(d)) \in Seq(B)
      /\ Len(MacHeader(t)) = Len(MacHeader(u))
      /\ Len(u64_be(Len(a))) = Len(u64_be(Len(b)))
      /\ Len(u64_be(Len(c))) = Len(u64_be(Len(d)))
  BY <1>1, PartsFacts
<1> DEFINE X == MacHeader(t) \o u64_be(Len(a))  Y == MacHeader(u) \o u64_be(Len(b))
           P == X \o u64_be(Len(c))              Q == Y \o u64_be(Len(d))
           F == P \o a                           G == Q \o b
<1>3. /\ Joined(B, X, MacHeader(t), u64_be(Len(a)))
      /\ Joined(B, Y, MacHeader(u), u64_be(Len(b)))
  BY <1>2, Joins, Zenon
<1>4. F \o c = G \o d
  BY DEF frame_message
<1> HIDE DEF X, Y
<1>5. X \in Seq(B) /\ Y \in Seq(B) /\ Len(X) = Len(Y)
  BY <1>2, <1>3 DEF Joined
<1>6. Joined(B, P, X, u64_be(Len(c))) /\ Joined(B, Q, Y, u64_be(Len(d)))
  BY <1>2, <1>5, Joins, Zenon
<1> HIDE DEF P, Q
<1>7. P \in Seq(B) /\ Q \in Seq(B) /\ Len(P) = Len(Q)
  BY <1>2, <1>5, <1>6 DEF Joined
<1>8. Joined(B, F, P, a) /\ Joined(B, G, Q, b)
  BY <1>7, Joins, Zenon
<1> HIDE DEF F, G
<1>9. F \in Seq(B) /\ G \in Seq(B)
  BY <1>8, Zenon DEF Joined
<1>10. Joined(B, F \o c, F, c) /\ Joined(B, G \o d, G, d)
  BY <1>9, Joins, Zenon
<1>11. Take(F \o c, Len(P)) = P /\ Take(G \o d, Len(Q)) = Q
  BY <1>7, <1>8, <1>9, <1>10, FirstOfFirst, Zenon
<1>12. P = Q
  BY <1>4, <1>7, <1>11, Zenon
<1>13. X = Y
  BY <1>5, <1>6, <1>12, PartsEqual, Zenon
<1>14. MacHeader(t) = MacHeader(u) /\ u64_be(Len(a)) = u64_be(Len(b))
  BY <1>2, <1>3, <1>13, PartsEqual, Zenon
<1>15. t = u /\ Len(a) = Len(b)
  BY <1>14, HeaderTagSize, U64Injective, Zenon
<1>16. Len(F) = Len(G)
  BY <1>7, <1>8, <1>15 DEF Joined
<1>17. F = G /\ c = d
  BY <1>4, <1>10, <1>16, PartsEqual, Zenon
<1>18. a = b
  BY <1>7, <1>8, <1>17, PartsEqual, Zenon
<1> QED  BY <1>15, <1>17, <1>18

-----------------------------------------------------------------------------
(* Arithmetic of blocks and of 64-bit lengths.                             *)

(* Shifting keeps the order of two numbers.                                *)
LEMMA ShiftMonotonic ==
    ASSUME NEW v \in Nat, NEW w \in Nat, w <= v
    PROVE  Shr8(w) <= Shr8(v) /\ Shr8(w) \in Nat /\ Shr8(v) \in Nat
  BY DEF Shr8

(* What is smaller than a 64-bit value is one.                             *)
LEMMA U64Smaller ==
    ASSUME NEW v \in U64, NEW w \in Nat, w <= v
    PROVE  w \in U64
<1> DEFINE v1 == Shr8(v)  v2 == Shr8(v1)  v3 == Shr8(v2)  v4 == Shr8(v3)
           v5 == Shr8(v4) v6 == Shr8(v5)  v7 == Shr8(v6)
           w1 == Shr8(w)  w2 == Shr8(w1)  w3 == Shr8(w2)  w4 == Shr8(w3)
           w5 == Shr8(w4) w6 == Shr8(w5)  w7 == Shr8(w6)
<1>1. v \in Nat /\ Shr56(v) < 256
  BY DEF U64
<1>2. Shr56(v) = v7 /\ Shr56(w) = w7
  BY DEF Shr56, Shr32, Shr16
<1> HIDE DEF v1, v2, v3, v4, v5, v6, v7, w1, w2, w3, w4, w5, w6, w7
<1>3. w1 <= v1 /\ w1 \in Nat /\ v1 \in Nat
  BY <1>1, ShiftMonotonic DEF v1, w1
<1>4. w2 <= v2 /\ w2 \in Nat /\ v2 \in Nat
  BY <1>3, ShiftMonotonic DEF v2, w2
<1>5. w3 <= v3 /\ w3 \in Nat /\ v3 \in Nat
  BY <1>4, ShiftMonotonic DEF v3, w3
<1>6. w4 <= v4 /\ w4 \in Nat /\ v4 \in Nat
  BY <1>5, ShiftMonotonic DEF v4, w4
<1>7. w5 <= v5 /\ w5 \in Nat /\ v5 \in Nat
  BY <1>6, ShiftMonotonic DEF v5, w5
<1>8. w6 <= v6 /\ w6 \in Nat /\ v6 \in Nat
  BY <1>7, ShiftMonotonic DEF v6, w6
<1>9. w7 <= v7 /\ w7 \in Nat /\ v7 \in Nat
  BY <1>8, ShiftMonotonic DEF v7, w7
<1> QED  BY <1>1, <1>2, <1>9 DEF U64

(* Byte j of n bytes belongs to a block that the loop of apply_keystream   *)
(* reaches, and to a byte of that block.                                   *)
LEMMA BlockFacts ==
    ASSUME NEW n \in Nat, NEW j \in 1..n
    PROVE  /\ (j - 1) \div BlockSize \in 0..(Blocks(n) - 1)
           /\ (j - 1) \div BlockSize < Blocks(n)
           /\ (j - 1) \div BlockSize <= j - 1
           /\ 1 + ((j - 1) % BlockSize) \in 1..BlockSize
<1>1. BlockSize \in Nat /\ BlockSize > 0 /\ j - 1 \in Nat /\ n - 1 \in Nat
  BY BlockSizeAssumption
<1>2. \A a, b \in Nat : a <= b => a \div BlockSize <= b \div BlockSize
  BY <1>1
<1>3. \A a \in Nat : /\ a \div BlockSize \in Nat /\ a \div BlockSize <= a
                     /\ a % BlockSize \in 0..(BlockSize - 1)
  BY <1>1
<1>4. (j - 1) \div BlockSize <= (n - 1) \div BlockSize
  BY <1>1, <1>2
<1>5. Blocks(n) = 1 + ((n - 1) \div BlockSize)
  BY DEF Blocks
<1> HIDE DEF Blocks
<1> QED  BY <1>1, <1>3, <1>4, <1>5

(* Block and place in the block determine the byte.                        *)
LEMMA BlockPlace ==
    ASSUME NEW i \in Nat \ {0}, NEW j \in Nat \ {0},
           (i - 1) \div BlockSize = (j - 1) \div BlockSize,
           1 + ((i - 1) % BlockSize) = 1 + ((j - 1) % BlockSize)
    PROVE  i = j
<1>1. BlockSize \in Nat /\ BlockSize > 0 /\ i - 1 \in Nat /\ j - 1 \in Nat
  BY BlockSizeAssumption
<1>2. (i - 1) % BlockSize = (j - 1) % BlockSize
  BY <1>1
<1>3. i - 1 = j - 1
  BY <1>1, <1>2
<1> QED  BY <1>3

-----------------------------------------------------------------------------
(* Exclusive-or on sets of atoms.                                          *)

(* Masking twice with the same byte restores a byte.                       *)
LEMMA XorTwice ==
    ASSUME NEW a, NEW b
    PROVE  /\ Xor(Xor(a, b), b) = a
           /\ Xor(a, Xor(a, b)) = b
  BY SMT DEF Xor

(* The comparison of verify_tag: no difference means equal.                *)
LEMMA XorEmpty ==
    ASSUME NEW a, NEW b, Xor(a, b) = {}
    PROVE  a = b
  BY Zenon DEF Xor

(* The atom of an output byte of C1.                                       *)
Atom(key, frame, i) == {[key |-> key, frame |-> frame, i |-> i]}

(* Two output bytes of C1 are equal only for one key, frame and position.  *)
LEMMA AtomInjective ==
    ASSUME NEW k, NEW f, NEW i, NEW l, NEW g, NEW j, Atom(k, f, i) = Atom(l, g, j)
    PROVE  k = l /\ f = g /\ i = j
<1> DEFINE x == [key |-> k, frame |-> f, i |-> i]
           y == [key |-> l, frame |-> g, i |-> j]
<1>1. x = y
  BY Zenon DEF Atom
<1>2. x.key = y.key /\ x.frame = y.frame /\ x.i = y.i
  BY <1>1, Zenon
<1> QED  BY <1>2

(* A damaged byte of C1 is no byte of C1.                                  *)
LEMMA DamagedAtom ==
    ASSUME NEW k, NEW f, NEW i, NEW l, NEW g, NEW j
    PROVE  Xor(Atom(k, f, i), Const("damage")) # Atom(l, g, j)
<1> DEFINE x == [key |-> k, frame |-> f, i |-> i]
           y == [const |-> "damage"]
           z == [key |-> l, frame |-> g, i |-> j]
<1>1. x # y
  OBVIOUS
<1> HIDE DEF x, y, z
<1>2. Xor({x}, {y}) # {z}
  BY <1>1, Zenon DEF Xor
<1> QED  BY <1>2 DEF Atom, Const, x, y, z

-----------------------------------------------------------------------------
(* Byte j of the keystream of a nonce and tag size.                        *)
StreamByte(key, nonce, j, tag_size) ==
    Atom(key, frame_stream_block(nonce, (j - 1) \div BlockSize, tag_size),
         1 + ((j - 1) % BlockSize))

(* apply_keystream masks every byte, the last partial block included.      *)
LEMMA KeystreamFacts ==
    ASSUME NEW S, NEW input \in Seq(S), NEW key, NEW nonce, NEW t
    PROVE  apply_keystream(key, nonce, input, t) =
               [j \in 1..Len(input) |-> Xor(input[j], StreamByte(key, nonce, j, t))]
<1>1. Len(input) \in Nat
  BY LenProperties
<1>2. ASSUME NEW j \in 1..Len(input)
      PROVE  /\ (j - 1) \div BlockSize < Blocks(Len(input))
             /\ C1(key, frame_stream_block(nonce, (j - 1) \div BlockSize, t))
                    [1 + ((j - 1) % BlockSize)] = StreamByte(key, nonce, j, t)
  <2>1. /\ (j - 1) \div BlockSize < Blocks(Len(input))
        /\ 1 + ((j - 1) % BlockSize) \in 1..BlockSize
    BY <1>1, BlockFacts
  <2> QED  BY <2>1, Zenon DEF C1, StreamByte, Atom
<1> QED  BY <1>2, Zenon DEF apply_keystream

(* Applying the keystream again restores the input.                        *)
LEMMA KeystreamTwice ==
    ASSUME NEW S, NEW T, NEW input \in Seq(S), NEW key, NEW nonce, NEW t,
           apply_keystream(key, nonce, input, t) \in Seq(T),
           Len(apply_keystream(key, nonce, input, t)) = Len(input)
    PROVE  apply_keystream(key, nonce, apply_keystream(key, nonce, input, t), t) = input
<1> DEFINE c == apply_keystream(key, nonce, input, t)
<1>1. c = [j \in 1..Len(input) |-> Xor(input[j], StreamByte(key, nonce, j, t))]
  BY KeystreamFacts
<1>2. apply_keystream(key, nonce, c, t)
        = [j \in 1..Len(c) |-> Xor(c[j], StreamByte(key, nonce, j, t))]
  BY KeystreamFacts
<1> HIDE DEF c
<1>3. \A j \in 1..Len(input) : Xor(c[j], StreamByte(key, nonce, j, t)) = input[j]
  BY <1>1, XorTwice, Zenon
<1>4. apply_keystream(key, nonce, c, t) = [j \in 1..Len(input) |-> input[j]]
  BY <1>2, <1>3, Zenon DEF c
<1>5. input = [j \in 1..Len(input) |-> input[j]]
  BY LenProperties
<1> QED  BY <1>4, <1>5 DEF c

(* The bytes of a tag are those of C1 on its frame.                        *)
LEMMA TagFacts ==
    ASSUME NEW k, NEW f, NEW t \in TagSizes, NEW tag, tag = Prefix(C1(k, f), t)
    PROVE  /\ tag \in Seq({Atom(k, f, i) : i \in Nat})
           /\ Len(tag) = t
           /\ \A i \in 1..t : tag[i] = Atom(k, f, i)
<1> DEFINE S == {Atom(k, f, i) : i \in Nat}
           c == C1(k, f)
<1>1. t \in Nat /\ t >= 1 /\ t <= BlockSize /\ BlockSize \in Nat
  BY TagSizeAssumption, BlockSizeAssumption
<1>2. \A i \in 1..t : c[i] = Atom(k, f, i) /\ c[i] \in S
  BY <1>1 DEF C1, Atom
<1> HIDE DEF S, c
<1>3. /\ SubSeq(c, 1, t) \in Seq(S)
      /\ Len(SubSeq(c, 1, t)) = IF 1 <= t THEN t - 1 + 1 ELSE 0
      /\ \A i \in 1..(t - 1 + 1) : SubSeq(c, 1, t)[i] = c[1 + i - 1]
  BY <1>1, <1>2, SubSeqProperties
<1>4. \A i \in 1..t : SubSeq(c, 1, t)[i] = c[i]
  BY <1>1, <1>3
<1>5. Len(SubSeq(c, 1, t)) = t
  BY <1>1, <1>3
<1> QED  BY <1>2, <1>3, <1>4, <1>5 DEF Prefix, S, c

(* The ciphertext is a byte string as long as the plaintext.               *)
LEMMA CiphertextLength ==
    ASSUME NEW S, NEW input \in Seq(S), NEW key, NEW nonce, NEW t
    PROVE  LET c == apply_keystream(key, nonce, input, t)
           IN  c \in Seq({c[j] : j \in 1..Len(input)}) /\ Len(c) = Len(input)
<1> DEFINE c == apply_keystream(key, nonce, input, t)
           n == Len(input)
           T == {c[j] : j \in 1..n}
<1>1. n \in Nat
  BY LenProperties
<1>2. c = [j \in 1..n |-> Xor(input[j], StreamByte(key, nonce, j, t))]
  BY KeystreamFacts
<1> HIDE DEF c, n
<1>3. c \in [1..n -> T]
  BY <1>2
<1> HIDE DEF T
<1>4. c \in Seq(T) /\ Len(c) = n
  BY <1>1, <1>3
<1> QED  BY <1>4 DEF c, n, T

(* An authentication context is a byte string of known length.             *)
LEMMA ContextShape ==
    ASSUME NEW B, HeaderBytes \subseteq B, NEW n \in Seq(B), Len(n) = NonceBytes,
           NEW a \in Seq(B), NEW t \in Nat
    PROVE  LET c == frame_authentication_context(n, a, t)
           IN  c \in Seq(B) /\ Len(c) = 13 + NonceBytes + Len(a)
<1>2. Len(a) \in Nat /\ NonceBytes \in Nat
  BY LenProperties, NonceBytesAssumption
<1>3. /\ ContextHeader(t) \in Seq(B) /\ Len(ContextHeader(t)) = 5
      /\ u64_be(Len(a)) \in Seq(B) /\ Len(u64_be(Len(a))) = 8
  BY <1>2, PartsFacts
<1> DEFINE x == ContextHeader(t) \o n  y == x \o u64_be(Len(a))
<1>4. x \in Seq(B) /\ Len(x) = Len(ContextHeader(t)) + Len(n)
  BY <1>3, ConcatProperties, Zenon
<1> HIDE DEF x
<1>5. y \in Seq(B) /\ Len(y) = Len(x) + Len(u64_be(Len(a)))
  BY <1>3, <1>4, ConcatProperties, Zenon
<1> HIDE DEF y
<1>6. y \o a \in Seq(B) /\ Len(y \o a) = Len(y) + Len(a)
  BY <1>5, ConcatProperties, Zenon
<1>7. Len(y) + Len(a) = 13 + NonceBytes + Len(a)
  BY <1>2, <1>3, <1>4, <1>5
<1> QED  BY <1>6, <1>7 DEF x, y, frame_authentication_context

(* The frame over which open verifies a tag of length t.                   *)
OpenFrame(nonce, associated_data, ciphertext, t) ==
    frame_message(frame_authentication_context(nonce, associated_data, t), ciphertext, t)

(* A packet of bytes of B whose lengths fit their fields.                  *)
Framed(B, nonce, associated_data, ciphertext) ==
    /\ nonce \in Seq(B) /\ Len(nonce) = NonceBytes
    /\ associated_data \in Seq(B) /\ 13 + NonceBytes + Len(associated_data) \in U64
    /\ ciphertext \in Seq(B) /\ Len(ciphertext) \in U64

(* Equal frames are those of one packet and one tag size.                  *)
LEMMA OpenFrameInjective ==
    ASSUME NEW Bytes, HeaderBytes \subseteq Bytes, NEW t1 \in Nat, NEW t2 \in Nat,
           NEW n1, NEW a1, NEW c1, Framed(Bytes, n1, a1, c1),
           NEW n2, NEW a2, NEW c2, Framed(Bytes, n2, a2, c2),
           OpenFrame(n1, a1, c1, t1) = OpenFrame(n2, a2, c2, t2)
    PROVE  n1 = n2 /\ a1 = a2 /\ c1 = c2 /\ t1 = t2
<1>1. /\ n1 \in Seq(Bytes) /\ n2 \in Seq(Bytes)
       /\ Len(n1) = NonceBytes /\ Len(n2) = NonceBytes
       /\ a1 \in Seq(Bytes) /\ a2 \in Seq(Bytes)
       /\ 13 + NonceBytes + Len(a1) \in U64 /\ 13 + NonceBytes + Len(a2) \in U64
       /\ c1 \in Seq(Bytes) /\ c2 \in Seq(Bytes) /\ Len(c1) \in U64 /\ Len(c2) \in U64
  BY DEF Framed
<1> DEFINE f1 == frame_authentication_context(n1, a1, t1)
           f2 == frame_authentication_context(n2, a2, t2)
<1>2. f1 \in Seq(Bytes) /\ Len(f1) = 13 + NonceBytes + Len(a1)
  BY <1>1, ContextShape
<1>3. f2 \in Seq(Bytes) /\ Len(f2) = 13 + NonceBytes + Len(a2)
  BY <1>1, ContextShape
<1>4. frame_message(f1, c1, t1) = frame_message(f2, c2, t2)
  BY DEF OpenFrame
<1> HIDE DEF f1, f2
<1>5. f1 = f2 /\ c1 = c2 /\ t1 = t2
  <2>1. /\ HeaderBytes \subseteq Bytes /\ t1 \in Nat /\ t2 \in Nat
        /\ f1 \in Seq(Bytes) /\ f2 \in Seq(Bytes) /\ c1 \in Seq(Bytes) /\ c2 \in Seq(Bytes)
        /\ Len(f1) \in U64 /\ Len(f2) \in U64 /\ Len(c1) \in U64 /\ Len(c2) \in U64
        /\ frame_message(f1, c1, t1) = frame_message(f2, c2, t2)
    BY <1>2, <1>3, <1>4, <1>1
  <2> QED  BY <2>1, MacFrameInjective, SMTT(40)
<1>6. Len(a1) \in Nat /\ Len(a2) \in Nat /\ NonceBytes \in Nat
  BY <1>1, LenProperties, NonceBytesAssumption
<1>7. Len(a1) \in U64 /\ Len(a2) \in U64
  BY <1>6, <1>1, U64Smaller
<1>8. frame_authentication_context(n1, a1, t1) = frame_authentication_context(n2, a2, t2)
  BY <1>5 DEF f1, f2
<1>9. n1 = n2 /\ a1 = a2
  <2>1. /\ HeaderBytes \subseteq Bytes /\ t1 \in Nat /\ t2 \in Nat
        /\ n1 \in Seq(Bytes) /\ n2 \in Seq(Bytes) /\ a1 \in Seq(Bytes) /\ a2 \in Seq(Bytes)
        /\ Len(n1) = NonceBytes /\ Len(n2) = NonceBytes
        /\ Len(a1) \in U64 /\ Len(a2) \in U64
        /\ frame_authentication_context(n1, a1, t1)
               = frame_authentication_context(n2, a2, t2)
    BY <1>7, <1>8, <1>1
  <2> QED  BY <2>1, NonceBytesAssumption, ContextInjective, SMTT(40)
<1> QED  BY <1>5, <1>9

(* What open accepts has, byte for byte, the tag of its own frame.         *)
LEMMA AcceptedTag ==
    ASSUME NEW keys, NEW nonce, NEW associated_data, NEW ciphertext, NEW tag,
           open(keys, nonce, associated_data, ciphertext, tag).opened
    PROVE  /\ Len(tag) \in TagSizes
           /\ \A i \in 1..Len(tag) :
                 tag[i] = Atom(keys.authentication_key,
                               OpenFrame(nonce, associated_data, ciphertext, Len(tag)), i)
<1> DEFINE k == keys.authentication_key
           f == OpenFrame(nonce, associated_data, ciphertext, Len(tag))
<1>1. /\ Len(tag) \in TagSizes
      /\ \A i \in 1..Len(tag) : Xor(C1(k, f)[i], tag[i]) = {}
  <2>1. CASE ~ (Len(tag) \in TagSizes /\ verify_tag(
                 k, frame_authentication_context(nonce, associated_data, Len(tag)),
                 ciphertext, tag))
    BY <2>1 DEF open, NullOpt
  <2>2. CASE Len(tag) \in TagSizes /\ verify_tag(
                 k, frame_authentication_context(nonce, associated_data, Len(tag)),
                 ciphertext, tag)
    BY <2>2 DEF verify_tag, OpenFrame
  <2> QED  BY <2>1, <2>2
<1> HIDE DEF k, f
<1>2. \A i \in 1..Len(tag) : C1(k, f)[i] = Atom(k, f, i)
  BY <1>1, TagSizeAssumption, BlockSizeAssumption DEF C1, Atom
<1>3. \A i \in 1..Len(tag) : C1(k, f)[i] = tag[i]
  BY <1>1, XorEmpty, Zenon
<1> QED  BY <1>1, <1>2, <1>3 DEF k, f

(* Whatever the keys, the nonce, the associated data, the plaintext and    *)
(* the tag size: open of what seal returned returns the plaintext.         *)
THEOREM OpenInvertsSeal ==
    ASSUME NEW S, NEW plaintext \in Seq(S), NEW keys, NEW nonce,
           NEW associated_data, NEW tag_size \in TagSizes
    PROVE  LET m == seal(keys, nonce, associated_data, plaintext, tag_size)
           IN  open(keys, nonce, associated_data, m.ciphertext, m.tag)
                   = [opened |-> TRUE, plaintext |-> plaintext]
<1> DEFINE c == apply_keystream(keys.encryption_key, nonce, plaintext, tag_size)
           context == frame_authentication_context(nonce, associated_data, tag_size)
           frame == frame_message(context, c, tag_size)
           computed == Prefix(C1(keys.authentication_key, frame), tag_size)
<1>1. seal(keys, nonce, associated_data, plaintext, tag_size) = [ciphertext |-> c, tag |-> computed]
  BY DEF seal, compute_tag
<1>2. c \in Seq({c[j] : j \in 1..Len(plaintext)}) /\ Len(c) = Len(plaintext)
  BY CiphertextLength
<1>3. apply_keystream(keys.encryption_key, nonce, c, tag_size) = plaintext
  BY <1>2, KeystreamTwice
<1>4. /\ Len(computed) = tag_size
      /\ \A i \in 1..tag_size : computed[i] = Atom(keys.authentication_key, frame, i)
  <2> DEFINE auth == keys.authentication_key
  <2> HIDE DEF frame, auth
  <2>1. /\ computed \in Seq({Atom(auth, frame, i) : i \in Nat})
        /\ Len(computed) = tag_size
        /\ \A i \in 1..tag_size : computed[i] = Atom(auth, frame, i)
    <3>1. computed = Prefix(C1(auth, frame), tag_size)
      BY DEF auth
    <3> HIDE DEF computed
    <3> QED  BY <3>1, TagFacts
  <2> QED  BY <2>1 DEF auth
<1>5. \A i \in 1..tag_size :
          C1(keys.authentication_key, frame)[i] = Atom(keys.authentication_key, frame, i)
  BY TagSizeAssumption, BlockSizeAssumption DEF C1, Atom
<1> HIDE DEF computed, frame, c, context
<1>6. \A i \in 1..Len(computed) : Xor(C1(keys.authentication_key, frame)[i], computed[i]) = {}
  BY <1>4, <1>5 DEF Xor
<1>7. verify_tag(keys.authentication_key, context, c, computed)
  BY <1>4, <1>6 DEF verify_tag, frame
<1>8. open(keys, nonce, associated_data, c, computed) = [opened |-> TRUE, plaintext |-> plaintext]
  BY <1>3, <1>4, <1>7 DEF open, context
<1> QED  BY <1>1, <1>8
=============================================================================
