-------------------------- MODULE FaultCampaignProof --------------------------
(***************************************************************************)
(* The fault-injection campaign for every block size, tag sizes, number of *)
(* bits and number of cases, and every difference a state fault may make.  *)
(***************************************************************************)
EXTENDS FaultCampaign, AeadFunctionsProof, FunctionTheorems, FiniteSetTheorems,
        WellFoundedInduction

-----------------------------------------------------------------------------
(* A power of two is a positive number: that of the subsets of 1..b.       *)
LEMMA PowerFacts ==
    ASSUME NEW b \in Nat
    PROVE  2^b \in Nat /\ 2^b > 0
<1> DEFINE S == 1..b
<1>1. IsFiniteSet(S) /\ Cardinality(S) = b
  BY FS_Interval
<1> HIDE DEF S
<1>2. IsFiniteSet(SUBSET S) /\ Cardinality(SUBSET S) = 2^b
  BY <1>1, FS_SUBSET
<1> DEFINE P == SUBSET S
<1>3. P # {} /\ IsFiniteSet(P) /\ Cardinality(P) = 2^b
  BY <1>2
<1> HIDE DEF P
<1>4. Cardinality(P) \in Nat /\ Cardinality(P) # 0
  BY <1>3, FS_CardinalityType, FS_EmptySet
<1> QED  BY <1>3, <1>4

(* Flipping a bit of a number changes it.                                  *)
LEMMA FlipPowerFacts ==
    ASSUME NEW n \in Nat, NEW b \in Nat
    PROVE  FlipPower(n, b) \in Int /\ FlipPower(n, b) # n
<1> DEFINE q == 2^b
<1>1. q \in Nat /\ q > 0
  BY PowerFacts
<1>2. FlipPower(n, b) = n + q \/ FlipPower(n, b) = n - q
  BY Zenon DEF FlipPower
<1> HIDE DEF q
<1> QED  BY <1>1, <1>2

-----------------------------------------------------------------------------
(* The profiles are the tag sizes in increasing order.                     *)
Rank(t) == Cardinality({u \in TagSizes : u <= t})

LEMMA RankFacts ==
    /\ IsFiniteSet(TagSizes) /\ Profiles \in Nat /\ Profiles > 0
    /\ \A t \in TagSizes : t \in Nat /\ t > 0 /\ Rank(t) \in 1..Profiles
    /\ \A t, u \in TagSizes : t < u => Rank(t) < Rank(u)
<1>1. BlockSize \in Nat /\ IsFiniteSet(1..BlockSize)
  BY BlockSizeAssumption, FS_Interval
<1>2. IsFiniteSet(TagSizes)
  BY <1>1, TagSizeAssumption, FS_Subset
<1>3. Profiles \in Nat /\ Profiles > 0
  BY <1>2, FS_CardinalityType, FS_EmptySet, PacketAssumption DEF Profiles
<1>4. \A t \in TagSizes : t \in Nat /\ t > 0
  BY <1>1, TagSizeAssumption
<1> DEFINE Up(t) == {u \in TagSizes : u <= t}
<1>5. ASSUME NEW t \in TagSizes
      PROVE  /\ Up(t) \in SUBSET TagSizes /\ IsFiniteSet(Up(t)) /\ t \in Up(t)
             /\ Cardinality(Up(t)) \in 1..Profiles
  <2>1. Up(t) \in SUBSET TagSizes /\ t \in Up(t)
    BY <1>4
  <2> DEFINE U == Up(t)
  <2> HIDE DEF U
  <2>2. U \in SUBSET TagSizes /\ U # {}
    BY <2>1 DEF U
  <2>3. IsFiniteSet(U) /\ Cardinality(U) <= Profiles
    BY <1>2, <2>2, FS_Subset DEF Profiles
  <2>4. Cardinality(U) \in Nat /\ Cardinality(U) # 0
    BY <2>2, <2>3, FS_CardinalityType, FS_EmptySet
  <2> QED  BY <1>3, <2>1, <2>3, <2>4 DEF U
<1>6. ASSUME NEW t \in TagSizes, NEW u \in TagSizes, t < u
      PROVE  Cardinality(Up(t)) < Cardinality(Up(u))
  <2>1. Up(t) \in SUBSET Up(u) /\ u \in Up(u) /\ u \notin Up(t)
    BY <1>4, <1>6
  <2> DEFINE A == Up(t)  B == Up(u)
  <2>2. IsFiniteSet(B) /\ Cardinality(B) \in Nat /\ Cardinality(A) \in Nat
    BY <1>3, <1>5
  <2>3. A \in SUBSET B /\ A # B
    BY <2>1
  <2> HIDE DEF A, B
  <2>4. Cardinality(A) <= Cardinality(B) /\ Cardinality(A) # Cardinality(B)
    BY <2>2, <2>3, FS_Subset
  <2> QED  BY <2>2, <2>4 DEF A, B
<1> QED  BY <1>2, <1>3, <1>4, <1>5, <1>6 DEF Rank

LEMMA TagBytesFacts ==
    /\ \A p \in 1..Profiles : TagBytes(p) \in TagSizes
    /\ \A p, q \in 1..Profiles : p < q => TagBytes(p) < TagBytes(q)
<1> DEFINE f == [t \in TagSizes |-> Rank(t)]
           I == 1..Profiles
<1>1. f \in [TagSizes -> I]
  BY RankFacts
<1>2. \A t, u \in TagSizes : f[t] = f[u] => t = u
  BY RankFacts
<1>3. IsFiniteSet(I) /\ Cardinality(I) = Profiles
  BY RankFacts, FS_Interval
<1>4. Cardinality(TagSizes) = Profiles
  BY DEF Profiles
<1>5. f \in Injection(TagSizes, I)
  BY <1>1, <1>2, Fun_IsInj
<1> HIDE DEF f, I
<1>6. f \in Surjection(TagSizes, I)
  BY <1>3, <1>4, <1>5, FS_Injection
<1>7. \A p \in I : \E t \in TagSizes : f[t] = p
  BY <1>6 DEF Surjection
<1>8. \A p \in I : \E t \in TagSizes : Rank(t) = p
  BY <1>7 DEF f
<1>9. \A p \in I : TagBytes(p) \in TagSizes /\ Rank(TagBytes(p)) = p
  BY <1>8 DEF TagBytes, Rank
<1>10. ASSUME NEW p \in I, NEW q \in I, p < q
       PROVE  TagBytes(p) < TagBytes(q)
  <2> DEFINE t == TagBytes(p)  u == TagBytes(q)
  <2>1. t \in TagSizes /\ u \in TagSizes /\ Rank(t) = p /\ Rank(u) = q
    BY <1>9
  <2> HIDE DEF t, u
  <2>2. t \in Nat /\ u \in Nat /\ p \in Nat /\ q \in Nat
    BY <2>1, RankFacts DEF I
  <2>3. ~ (u < t) /\ u # t
    BY <1>10, <2>1, <2>2, RankFacts
  <2>4. t < u
    BY <2>2, <2>3
  <2> QED  BY <2>4 DEF t, u
<1> QED  BY <1>9, <1>10 DEF I

-----------------------------------------------------------------------------
(* The packet of a profile.                                                *)
CaseNonce     == Data("nonce", NonceBytes)
CaseData      == Data("ad", 2)
CasePlaintext == Data("plaintext", 3 * BlockSize)
CaseCiphertext(t) == apply_keystream("e", CaseNonce, CasePlaintext, t)
CaseFrame(t)  == OpenFrame(CaseNonce, CaseData, CaseCiphertext(t), t)

(* The bytes of a packet and of its headers.                               *)
CaseBytes(t) == HeaderBytes \cup {CaseNonce[i] : i \in 1..NonceBytes}
                    \cup {CaseData[i] : i \in 1..2}
                    \cup {CaseCiphertext(t)[i] : i \in 1..(3 * BlockSize)}

(* A function on 1..n is a sequence.                                       *)
LEMMA Listed ==
    ASSUME NEW n \in Nat, NEW s, s = [i \in 1..n |-> s[i]], NEW B,
           \A i \in 1..n : s[i] \in B
    PROVE  s \in Seq(B) /\ Len(s) = n
<1>1. s \in [1..n -> B]
  OBVIOUS
<1> QED  BY <1>1

LEMMA PlaintextFacts ==
    /\ CasePlaintext \in Seq({CasePlaintext[i] : i \in 1..(3 * BlockSize)})
    /\ Len(CasePlaintext) = 3 * BlockSize /\ 3 * BlockSize \in Nat
<1> DEFINE n == 3 * BlockSize
           B == {CasePlaintext[i] : i \in 1..n}
<1>1. n \in Nat
  BY BlockSizeAssumption
<1>2. CasePlaintext = [i \in 1..n |-> CasePlaintext[i]]
  BY DEF CasePlaintext, Data
<1>3. \A i \in 1..n : CasePlaintext[i] \in B
  OBVIOUS
<1> HIDE DEF n, B
<1>4. CasePlaintext \in Seq(B) /\ Len(CasePlaintext) = n
  BY <1>1, <1>2, <1>3, Listed
<1> QED  BY <1>1, <1>4 DEF n, B

LEMMA PacketBytes ==
    ASSUME NEW t
    PROVE  /\ HeaderBytes \subseteq CaseBytes(t)
           /\ CaseNonce \in Seq(CaseBytes(t)) /\ Len(CaseNonce) = NonceBytes
           /\ CaseData \in Seq(CaseBytes(t)) /\ Len(CaseData) = 2
           /\ CaseCiphertext(t) \in Seq(CaseBytes(t))
           /\ Len(CaseCiphertext(t)) = 3 * BlockSize
<1> DEFINE B == CaseBytes(t)
           n == 3 * BlockSize
           c == CaseCiphertext(t)
<1>1. n \in Nat /\ NonceBytes \in Nat
  BY BlockSizeAssumption, NonceBytesAssumption
<1>2. /\ HeaderBytes \subseteq B
      /\ \A i \in 1..NonceBytes : CaseNonce[i] \in B
      /\ \A i \in 1..2 : CaseData[i] \in B
      /\ \A i \in 1..n : c[i] \in B
  BY DEF CaseBytes
<1> HIDE DEF B
<1>3. CaseNonce = [i \in 1..NonceBytes |-> CaseNonce[i]]
  BY DEF CaseNonce, Data
<1>4. CaseData = [i \in 1..2 |-> CaseData[i]]
  BY DEF CaseData, Data
<1>5. c = [i \in 1..n |-> c[i]]
  <2>1. CasePlaintext \in Seq({CasePlaintext[i] : i \in 1..n}) /\ Len(CasePlaintext) = n
    BY PlaintextFacts
  <2>2. c = [j \in 1..Len(CasePlaintext) |->
                Xor(CasePlaintext[j], StreamByte("e", CaseNonce, j, t))]
    BY <2>1, KeystreamFacts DEF CaseCiphertext
  <2> HIDE DEF c, n
  <2> QED  BY <2>1, <2>2
<1> HIDE DEF n, c
<1>6. CaseNonce \in Seq(B) /\ Len(CaseNonce) = NonceBytes
  BY <1>1, <1>2, <1>3, Listed
<1>7. CaseData \in Seq(B) /\ Len(CaseData) = 2
  BY <1>2, <1>4, Listed
<1>8. c \in Seq(B) /\ Len(c) = n
  BY <1>1, <1>2, <1>5, Listed
<1> QED  BY <1>2, <1>6, <1>7, <1>8 DEF B, c, n

(* What make_case returns.                                                 *)
LEMMA CaseOf ==
    ASSUME NEW p \in 1..Profiles
    PROVE  LET t == TagBytes(p)
               c == Cases[p].case
               s == Cases[p].sealed
           IN  /\ t \in TagSizes /\ t \in Nat /\ t >= 1
               /\ c.keys = [encryption_key |-> "e", authentication_key |-> "a"]
               /\ c.nonce = CaseNonce /\ c.associated_data = CaseData
               /\ c.plaintext = CasePlaintext /\ Cases[p].tag_size = t
               /\ s = seal(c.keys, CaseNonce, CaseData, CasePlaintext, t)
               /\ s.ciphertext = CaseCiphertext(t)
               /\ s.tag = Prefix(C1("a", CaseFrame(t)), t)
               /\ s.tag \in Seq({Atom("a", CaseFrame(t), i) : i \in Nat})
               /\ Len(s.tag) = t
               /\ \A i \in 1..t : s.tag[i] = Atom("a", CaseFrame(t), i)
<1> DEFINE t == TagBytes(p)
           k == [encryption_key |-> "e", authentication_key |-> "a"]
           c == [keys |-> k, nonce |-> CaseNonce, associated_data |-> CaseData,
                 plaintext |-> CasePlaintext]
           s == seal(k, CaseNonce, CaseData, CasePlaintext, t)
<1>1. t \in TagSizes /\ t \in Nat /\ t >= 1
  BY TagBytesFacts, RankFacts
<1>2. Cases[p] = [case |-> c, tag_size |-> t, sealed |-> s]
  BY DEF Cases, make_case, CaseNonce, CaseData, CasePlaintext
<1> HIDE DEF t
<1>3. s = [ciphertext |-> CaseCiphertext(t), tag |-> Prefix(C1("a", CaseFrame(t)), t)]
  BY DEF seal, compute_tag, CaseCiphertext, CaseFrame, OpenFrame
<1> DEFINE f == CaseFrame(t)
           tag == Prefix(C1("a", f), t)
           a == "a"
<1>4. tag = Prefix(C1(a, f), t)
  OBVIOUS
<1> HIDE DEF f, tag, a
<1>5. /\ tag \in Seq({Atom(a, f, i) : i \in Nat}) /\ Len(tag) = t
      /\ \A i \in 1..t : tag[i] = Atom(a, f, i)
  BY <1>1, <1>4, TagFacts, SMTT(30)
<1> HIDE DEF s, k
<1>6. /\ Cases[p].case = c /\ Cases[p].tag_size = t /\ Cases[p].sealed = s
      /\ c.keys = k /\ c.nonce = CaseNonce /\ c.associated_data = CaseData
      /\ c.plaintext = CasePlaintext
  BY <1>2
<1>7. s.ciphertext = CaseCiphertext(t) /\ s.tag = tag
  BY <1>3 DEF tag, f
<1> HIDE DEF c
<1>8. /\ Cases[p].case.keys = [encryption_key |-> "e", authentication_key |-> "a"]
      /\ s = seal(Cases[p].case.keys, CaseNonce, CaseData, CasePlaintext, t)
  BY <1>6 DEF s, k
<1> QED  BY <1>1, <1>5, <1>6, <1>7, <1>8, Zenon DEF t, tag, f, a

(* make_case and the state tests find every baseline they require.         *)
LEMMA BaselineHolds == Baseline
<1> SUFFICES ASSUME NEW p \in 1..Profiles
             PROVE  LET c == Cases[p].case
                        s == Cases[p].sealed
                    IN  /\ open(c.keys, c.nonce, c.associated_data, s.ciphertext, s.tag)
                              = [opened |-> TRUE, plaintext |-> c.plaintext]
                        /\ s.tag = Prefix(C1(c.keys.authentication_key,
                                             mac_frame_for_case(Cases[p])),
                                          Cases[p].tag_size)
  BY Zenon DEF Baseline
<1> DEFINE t == TagBytes(p)  c == Cases[p].case  s == Cases[p].sealed
           B == {CasePlaintext[i] : i \in 1..(3 * BlockSize)}
           m == seal(c.keys, CaseNonce, CaseData, CasePlaintext, t)
<1>1. /\ t \in TagSizes
      /\ c.keys = [encryption_key |-> "e", authentication_key |-> "a"]
      /\ c.nonce = CaseNonce /\ c.associated_data = CaseData
      /\ c.plaintext = CasePlaintext /\ Cases[p].tag_size = t /\ s = m
      /\ s.ciphertext = CaseCiphertext(t) /\ s.tag = Prefix(C1("a", CaseFrame(t)), t)
  BY CaseOf, Zenon
<1>2. CasePlaintext \in Seq(B)
  BY PlaintextFacts
<1>3. open(c.keys, CaseNonce, CaseData, m.ciphertext, m.tag)
        = [opened |-> TRUE, plaintext |-> CasePlaintext]
  <2> DEFINE k == c.keys
  <2> HIDE DEF B, k, t, c
  <2> QED  BY <1>1, <1>2, OpenInvertsSeal
<1>4. mac_frame_for_case(Cases[p]) = CaseFrame(t)
  BY <1>1, Zenon DEF mac_frame_for_case, CaseFrame, OpenFrame
<1>5. c.keys.authentication_key = "a"
  BY <1>1
<1> QED  BY <1>1, <1>3, <1>4, <1>5, Zenon

-----------------------------------------------------------------------------
(* The byte that holds bit n.                                              *)
LEMMA DivFacts ==
    ASSUME NEW n \in Nat, NEW b \in Nat \ {0}
    PROVE  /\ n \div b \in Nat /\ n % b \in 0..(b - 1)
           /\ \A m \in Nat : n < b * m => n \div b < m
           /\ (n * b) \div b = n /\ n * b \in Nat
<1>1. n \div b \in Nat /\ n % b \in 0..(b - 1) /\ n = b * (n \div b) + (n % b)
  OBVIOUS
<1>2. ASSUME NEW m \in Nat, n < b * m PROVE n \div b < m
  <2> DEFINE q == n \div b  r == n % b
  <2>1. q \in Nat /\ r \in Nat /\ n = b * q + r
    BY <1>1
  <2> HIDE DEF q, r
  <2>2. b * q < b * m
    BY <1>2, <2>1
  <2>3. q < m
    <3> SUFFICES ASSUME m <= q PROVE FALSE
      BY <2>1
    <3>1. b * q = b * m + b * (q - m) /\ b * (q - m) >= 0
      BY <2>1
    <3> QED  BY <2>1, <2>2, <3>1
  <2> QED  BY <2>3 DEF q
<1>3. n * b \in Nat /\ (n * b) \div b = n
  <2> DEFINE x == n * b  q == x \div b  r == x % b
  <2>1. x \in Nat
    OBVIOUS
  <2>2. q \in Nat /\ r \in 0..(b - 1) /\ x = b * q + r
    BY <2>1
  <2>3. x = b * n
    OBVIOUS
  <2> HIDE DEF q, r, x
  <2>4. b * (n - q) = r
    BY <2>2, <2>3
  <2>5. n - q = 0
    <3>1. CASE n - q >= 1
      <4>1. b * (n - q) = b + b * (n - q - 1) /\ b * (n - q - 1) >= 0
        BY <2>2, <3>1
      <4> QED  BY <2>2, <2>4, <4>1
    <3>2. CASE n - q <= -1
      <4>1. b * (n - q) = -b - b * (q - n - 1) /\ b * (q - n - 1) >= 0
        BY <2>2, <3>2
      <4> QED  BY <2>2, <2>4, <4>1
    <3> QED  BY <2>2, <3>1, <3>2
  <2>6. q = n
    BY <2>2, <2>5
  <2> QED  BY <2>1, <2>6 DEF q, x
<1> QED  BY <1>1, <1>2, <1>3

(* A flipped bit changes the one byte that holds it.                       *)
LEMMA FlipFacts ==
    ASSUME NEW S, NEW s \in Seq(S), NEW n \in Nat, NEW q, q = n \div ByteBits,
           q < Len(s), NEW f, f = FlipBit(s, n)
    PROVE  /\ 1 + q \in 1..Len(s)
           /\ \A j \in 1..Len(s) : f[j] # s[j] <=> j = 1 + q
           /\ Len(f) = Len(s) /\ f # s
           /\ \A B : S \subseteq B /\ f[1 + q] \in B => f \in Seq(B)
<1> DEFINE i == 1 + q
           bit == [bit |-> n % ByteBits]
           x == Xor(s[i], {bit})
           m == Len(s)
<1>1. m \in Nat /\ s = [j \in 1..m |-> s[j]] /\ \A j \in 1..m : s[j] \in S
  BY LenProperties
<1>2. i \in 1..m
  <2>1. q \in Nat
    BY StageAssumption
  <2> QED  BY <1>1, <2>1
<1> HIDE DEF i, m
<1>3. f = [j \in 1..m |-> IF j = i THEN x ELSE s[j]]
  BY <1>1, <1>2 DEF FlipBit, i
<1>4. x # s[i]
  BY DEF Xor
<1> HIDE DEF x
<1>5. /\ f[i] = x
      /\ \A j \in 1..m : f[j] # s[j] <=> j = i
      /\ f = [j \in 1..m |-> f[j]]
      /\ \A j \in 1..m : f[j] \in S \cup {x}
  BY <1>1, <1>2, <1>3, <1>4
<1>6. Len(f) = m
  <2> DEFINE A == {f[j] : j \in 1..m}
  <2>1. \A j \in 1..m : f[j] \in A
    OBVIOUS
  <2> HIDE DEF A
  <2> QED  BY <1>1, <1>5, <2>1, Listed
<1>8. ASSUME NEW B, S \subseteq B, f[i] \in B
      PROVE  f \in Seq(B)
  <2>1. \A j \in 1..m : f[j] \in B
    BY <1>5, <1>8
  <2> QED  BY <1>1, <1>5, <2>1, Listed
<1>7. f # s
  BY <1>2, <1>5
<1> QED  BY <1>2, <1>5, <1>6, <1>7, <1>8 DEF i, m

-----------------------------------------------------------------------------
LEMMA Widened ==
    ASSUME NEW A, NEW B, A \subseteq B, NEW s \in Seq(A)
    PROVE  s \in Seq(B)
<1>1. Len(s) \in Nat /\ s = [i \in 1..Len(s) |-> s[i]] /\ \A i \in 1..Len(s) : s[i] \in B
  BY LenProperties
<1> QED  BY <1>1, Listed

(* The packet that the running profile alters.                             *)
LEMMA PacketOfProfile ==
    ASSUME profile \in 1..Profiles, NEW t, t = TagBytes(profile)
    PROVE  /\ t \in TagSizes /\ t \in Nat /\ t >= 1
           /\ Case.keys = [encryption_key |-> "e", authentication_key |-> "a"]
           /\ Case.nonce = CaseNonce /\ Case.associated_data = CaseData
           /\ Case.plaintext = CasePlaintext /\ Sealed.ciphertext = CaseCiphertext(t)
           /\ Sealed.tag \in Seq({Atom("a", CaseFrame(t), i) : i \in Nat})
           /\ Len(Sealed.tag) = t
           /\ \A i \in 1..t : Sealed.tag[i] = Atom("a", CaseFrame(t), i)
  BY CaseOf, Zenon DEF Case, Sealed

(* What open accepts of the altered packets is tagged for its own frame.   *)
LEMMA AcceptedCase ==
    ASSUME profile \in 1..Profiles, NEW nonce, NEW ad, NEW ciphertext, NEW tag,
           OpenCase(nonce, ad, ciphertext, tag).opened
    PROVE  /\ Len(tag) \in TagSizes
           /\ \A i \in 1..Len(tag) :
                 tag[i] = Atom("a", OpenFrame(nonce, ad, ciphertext, Len(tag)), i)
<1> DEFINE k == Case.keys
<1>1. k.authentication_key = "a"
  <2>1. k = [encryption_key |-> "e", authentication_key |-> "a"]
    BY PacketOfProfile, Zenon
  <2> QED  BY <2>1
<1>2. open(k, nonce, ad, ciphertext, tag).opened
  BY DEF OpenCase
<1> HIDE DEF k
<1>3. /\ Len(tag) \in TagSizes
      /\ \A i \in 1..Len(tag) :
            tag[i] = Atom(k.authentication_key,
                          OpenFrame(nonce, ad, ciphertext, Len(tag)), i)
  BY <1>2, AcceptedTag
<1> QED  BY <1>1, <1>3, Zenon

(* open rejects a tag of which a byte has changed.                         *)
LEMMA AlteredTagRejected ==
    ASSUME profile \in 1..Profiles, NEW tag, Len(tag) = TagBytes(profile),
           NEW i \in 1..TagBytes(profile), tag[i] # Sealed.tag[i]
    PROVE  ~ OpenCase(Case.nonce, Case.associated_data, Sealed.ciphertext, tag).opened
<1> DEFINE t == TagBytes(profile)
<1>1. /\ Case.nonce = CaseNonce /\ Case.associated_data = CaseData
      /\ Sealed.ciphertext = CaseCiphertext(t)
      /\ Sealed.tag[i] = Atom("a", CaseFrame(t), i)
  BY PacketOfProfile, Zenon
<1> SUFFICES ASSUME OpenCase(CaseNonce, CaseData, CaseCiphertext(t), tag).opened
             PROVE  FALSE
  BY <1>1, Zenon
<1>2. tag[i] = Atom("a", OpenFrame(CaseNonce, CaseData, CaseCiphertext(t), Len(tag)), i)
  <2>1. i \in 1..Len(tag)
    OBVIOUS
  <2> QED  BY <2>1, AcceptedCase
<1> QED  BY <1>1, <1>2, Zenon DEF CaseFrame

(* open rejects another packet, or a tag of another length, as long as the *)
(* first byte of the tag is left.                                          *)
LEMMA OtherPacketRejected ==
    ASSUME profile \in 1..Profiles, NEW B, CaseBytes(TagBytes(profile)) \subseteq B,
           NEW nonce \in Seq(B), NEW ad \in Seq(B), NEW ciphertext \in Seq(B), NEW tag,
           Len(nonce) = NonceBytes, Len(ad) = 2, Len(ciphertext) = 3 * BlockSize,
           tag[1] = Sealed.tag[1],
           \/ nonce # CaseNonce \/ ad # CaseData
           \/ ciphertext # CaseCiphertext(TagBytes(profile))
           \/ Len(tag) # TagBytes(profile)
    PROVE  ~ OpenCase(nonce, ad, ciphertext, tag).opened
<1> DEFINE t == TagBytes(profile)  u == Len(tag)
           c == CaseCiphertext(t)
<1> SUFFICES ASSUME OpenCase(nonce, ad, ciphertext, tag).opened
             PROVE  FALSE
  OBVIOUS
<1>1. t \in Nat /\ t >= 1 /\ Sealed.tag[1] = Atom("a", CaseFrame(t), 1)
  <2>1. t \in Nat /\ t >= 1 /\ \A i \in 1..t : Sealed.tag[i] = Atom("a", CaseFrame(t), i)
    BY PacketOfProfile, Zenon
  <2> HIDE DEF t
  <2> QED  BY <2>1
<1>2. u \in TagSizes /\ \A i \in 1..u : tag[i] = Atom("a", OpenFrame(nonce, ad, ciphertext, u), i)
  BY AcceptedCase, Zenon
<1>3. u \in Nat /\ 1 \in 1..u
  BY <1>2, RankFacts
<1> HIDE DEF t, u
<1>4. CaseFrame(t) = OpenFrame(nonce, ad, ciphertext, u)
  <2>1. Atom("a", CaseFrame(t), 1) = Atom("a", OpenFrame(nonce, ad, ciphertext, u), 1)
    BY <1>1, <1>2, <1>3, Zenon
  <2> QED  BY <2>1, AtomInjective
<1>5. /\ HeaderBytes \subseteq B /\ CaseNonce \in Seq(B) /\ Len(CaseNonce) = NonceBytes
      /\ CaseData \in Seq(B) /\ Len(CaseData) = 2
      /\ c \in Seq(B) /\ Len(c) = 3 * BlockSize
  <2> DEFINE A == CaseBytes(t)
  <2>1. /\ HeaderBytes \subseteq A /\ CaseNonce \in Seq(A) /\ Len(CaseNonce) = NonceBytes
        /\ CaseData \in Seq(A) /\ Len(CaseData) = 2
        /\ c \in Seq(A) /\ Len(c) = 3 * BlockSize /\ A \subseteq B
    BY PacketBytes, Zenon DEF t
  <2> HIDE DEF A, c
  <2>2. CaseNonce \in Seq(B) /\ CaseData \in Seq(B) /\ c \in Seq(B)
    BY <2>1, Widened, Zenon
  <2> QED  BY <2>1, <2>2
<1>6. Framed(B, CaseNonce, CaseData, c) /\ Framed(B, nonce, ad, ciphertext)
  <2>1. 13 + NonceBytes + 2 = NonceBytes + 15
    BY NonceBytesAssumption
  <2>2. /\ 13 + NonceBytes + Len(ad) \in U64 /\ 13 + NonceBytes + Len(CaseData) \in U64
        /\ Len(ciphertext) \in U64 /\ Len(c) \in U64
    BY <1>5, <2>1, PacketAssumption
  <2> QED  BY <1>5, <2>2 DEF Framed
<1>7. OpenFrame(CaseNonce, CaseData, c, t) = OpenFrame(nonce, ad, ciphertext, u)
  BY <1>4 DEF CaseFrame
<1> HIDE DEF c
<1>8. CaseNonce = nonce /\ CaseData = ad /\ c = ciphertext /\ t = u
  BY <1>1, <1>3, <1>5, <1>6, <1>7, OpenFrameInjective
<1> QED  BY <1>8, Zenon DEF c, t, u

-----------------------------------------------------------------------------
(* A flipped bit of the tag is in one byte of it.                          *)
LEMMA TagFlip ==
    ASSUME profile \in 1..Profiles, NEW n \in Nat, NEW i, i = n \div ByteBits,
           i < TagBytes(profile)
    PROVE  /\ 1 + i \in 1..TagBytes(profile)
           /\ Len(FlipBit(Sealed.tag, n)) = TagBytes(profile)
           /\ \A j \in 1..TagBytes(profile) :
                 FlipBit(Sealed.tag, n)[j] # Sealed.tag[j] <=> j = 1 + i
           /\ ~ OpenCase(Case.nonce, Case.associated_data, Sealed.ciphertext,
                         FlipBit(Sealed.tag, n)).opened
<1> DEFINE t == TagBytes(profile)
           s == Sealed.tag
           S == {Atom("a", CaseFrame(t), j) : j \in Nat}
           f == FlipBit(s, n)
<1>1. s \in Seq(S) /\ Len(s) = t /\ t \in Nat
  BY PacketOfProfile, Zenon
<1> HIDE DEF s, S, t
<1>2. i < Len(s) /\ f = FlipBit(s, n)
  BY <1>1 DEF t
<1> HIDE DEF f
<1>3. /\ 1 + i \in 1..Len(s)
      /\ \A j \in 1..Len(s) : f[j] # s[j] <=> j = 1 + i
      /\ Len(f) = Len(s)
  BY <1>1, <1>2, FlipFacts
<1>4. ~ OpenCase(Case.nonce, Case.associated_data, Sealed.ciphertext, f).opened
  BY <1>1, <1>3, AlteredTagRejected DEF s, t
<1> QED  BY <1>1, <1>3, <1>4 DEF s, t, f

(* What the packet tests observe, fault by fault.                          *)
LEMMA TagBitOutcome ==
    ASSUME profile \in 1..Profiles, NEW n \in Nat, n < ByteBits * TagBytes(profile)
    PROVE  ~ TagBit(n).accepted /\ ~ TagBit(n).bypassed
<1> DEFINE t == TagBytes(profile)
           i == n \div ByteBits
           f == FlipBit(Sealed.tag, n)
<1>1. t \in Nat
  BY PacketOfProfile, Zenon
<1>2. i < t
  <2> HIDE DEF t
  <2> QED  BY <1>1, DivFacts, StageAssumption DEF t
<1> HIDE DEF i
<1>3. /\ 1 + i \in 1..t /\ Len(f) = t /\ f[1 + i] # Sealed.tag[1 + i]
      /\ ~ OpenCase(Case.nonce, Case.associated_data, Sealed.ciphertext, f).opened
  BY <1>2, TagFlip DEF i
<1> HIDE DEF f
<1>4. ~ comparison_model(f, Sealed.tag, Len(f), {})
  BY <1>3 DEF comparison_model
<1> QED  BY <1>3, <1>4 DEF TagBit, TagOutcome, Outcome, f

LEMMA ComparisonSkipOutcome ==
    ASSUME profile \in 1..Profiles, NEW n \in Nat, n < TagBytes(profile)
    PROVE  ~ test_comparison_skip(n).accepted /\ test_comparison_skip(n).bypassed
<1> DEFINE t == TagBytes(profile)
           b == n * ByteBits
           f == FlipBit(Sealed.tag, b)
           skipped == {n + 1}
<1>1. t \in Nat
  BY PacketOfProfile, Zenon
<1>2. n = b \div ByteBits /\ b \in Nat
  BY DivFacts, StageAssumption
<1> HIDE DEF b
<1>3. /\ Len(f) = t /\ \A j \in 1..t : f[j] # Sealed.tag[j] <=> j = 1 + n
      /\ ~ OpenCase(Case.nonce, Case.associated_data, Sealed.ciphertext, f).opened
  BY <1>2, TagFlip
<1> HIDE DEF f
<1>4. comparison_model(Sealed.tag, f, Len(f), skipped)
  BY <1>1, <1>3 DEF comparison_model
<1> QED  BY <1>3, <1>4 DEF test_comparison_skip, TagOutcome, Outcome, f, b

LEMMA LengthPostOutcome ==
    ASSUME profile \in 1..Profiles, NEW n
    PROVE  ~ LengthPost(n).accepted /\ LengthPost(n).bypassed
<1> DEFINE t == TagBytes(profile)
           at == IF profile = 2 THEN Len(Sealed.tag) - 1 ELSE 0
           length == IF profile = 2 THEN TagBytes(1) ELSE 0
           b == at * ByteBits
           f == FlipBit(Sealed.tag, b)
<1>1. Len(Sealed.tag) = t /\ t \in Nat /\ t >= 1
  BY PacketOfProfile, Zenon
<1>2. at \in Nat /\ at < t /\ length \in Nat /\ length <= at
  <2>1. profile = 2 => TagBytes(1) < t /\ TagBytes(1) \in Nat
    BY TagBytesFacts, RankFacts
  <2> HIDE DEF t
  <2> QED  BY <1>1, <2>1
<1> HIDE DEF at
<1>3. at = b \div ByteBits /\ b \in Nat
  BY <1>2, DivFacts, StageAssumption
<1> HIDE DEF b
<1>4. /\ Len(f) = t /\ \A j \in 1..t : f[j] # Sealed.tag[j] <=> j = 1 + at
      /\ ~ OpenCase(Case.nonce, Case.associated_data, Sealed.ciphertext, f).opened
  BY <1>2, <1>3, TagFlip
<1> HIDE DEF f, length
<1>5. comparison_model(Sealed.tag, f, length, {})
  BY <1>1, <1>2, <1>4 DEF comparison_model
<1> QED  BY <1>4, <1>5 DEF LengthPost, TagOutcome, Outcome, f, b, at, length

LEMMA LengthPreOutcome ==
    ASSUME profile \in 1..Profiles, NEW n \in Nat
    PROVE  ~ LengthPre(n).accepted
<1> DEFINE t == TagBytes(profile)
           length == FlipPower(Len(Sealed.tag), n)
           tag == [i \in 1..length |->
                      IF i <= Len(Sealed.tag) THEN Sealed.tag[i] ELSE Octet(0)]
<1>1. Len(Sealed.tag) = t /\ t \in Nat /\ t >= 1
  BY PacketOfProfile, Zenon
<1>2. length \in Int /\ length # t
  BY <1>1, FlipPowerFacts
<1> HIDE DEF length
<1>3. LengthPre(n).accepted
        = OpenCase(Case.nonce, Case.associated_data, Sealed.ciphertext, tag).opened
  BY DEF LengthPre, TagOutcome, Outcome, length
<1> SUFFICES ASSUME OpenCase(Case.nonce, Case.associated_data, Sealed.ciphertext, tag).opened
             PROVE  FALSE
  BY <1>3
<1>4. Len(tag) \in TagSizes
  BY AcceptedCase
<1>5. CASE length >= 1
  <2> DEFINE B == CaseBytes(t)
  <2>1. Len(tag) = length /\ tag[1] = Sealed.tag[1]
    BY <1>1, <1>2, <1>5
  <2>2. /\ Case.nonce = CaseNonce /\ Case.associated_data = CaseData
        /\ Sealed.ciphertext = CaseCiphertext(t)
    BY PacketOfProfile, Zenon
  <2>3. /\ CaseNonce \in Seq(B) /\ Len(CaseNonce) = NonceBytes
        /\ CaseData \in Seq(B) /\ Len(CaseData) = 2
        /\ CaseCiphertext(t) \in Seq(B) /\ Len(CaseCiphertext(t)) = 3 * BlockSize
    BY PacketBytes, Zenon
  <2> HIDE DEF tag
  <2>4. ~ OpenCase(CaseNonce, CaseData, CaseCiphertext(t), tag).opened
    BY <1>2, <2>1, <2>3, OtherPacketRejected
  <2> QED  BY <2>2, <2>4
<1>6. CASE length < 1
  <2>1. tag = <<>>
    BY <1>2, <1>6
  <2> HIDE DEF tag
  <2>2. Len(tag) = 0
    BY <2>1
  <2> QED  BY <1>4, <2>2, RankFacts
<1> QED  BY <1>2, <1>5, <1>6

-----------------------------------------------------------------------------
(* Where released plaintext is damaged.                                    *)
LEMMA XorFacts ==
    ASSUME NEW a, NEW b, NEW c
    PROVE  /\ Xor(a, b) = c <=> a = Xor(c, b)
           /\ Xor(a, b) = Xor(a, c) <=> b = c
  BY SMT DEF Xor

(* The block of a byte of the packet.                                      *)
LEMMA PacketBlock ==
    ASSUME NEW j \in 1..(3 * BlockSize), NEW k, k = (j - 1) \div BlockSize
    PROVE  /\ k \in 0..2 /\ k \in U64 /\ k # NoIndex
           /\ 1 + ((j - 1) % BlockSize) \in 1..BlockSize
<1> DEFINE n == j - 1  q == ExtendedBytes * ByteBits
<1>1. BlockSize \in Nat \ {0} /\ n \in Nat /\ n < BlockSize * 3 /\ 3 * BlockSize >= 3
  BY BlockSizeAssumption
<1>2. k = n \div BlockSize
  OBVIOUS
<1> HIDE DEF n
<1>3. k \in Nat /\ k < 3 /\ n % BlockSize \in 0..(BlockSize - 1)
  <2>1. /\ n \div BlockSize \in Nat /\ n % BlockSize \in 0..(BlockSize - 1)
        /\ \A m \in Nat : n < BlockSize * m => n \div BlockSize < m
    BY <1>1, DivFacts
  <2> QED  BY <1>1, <1>2, <2>1
<1>4. 1 + (n % BlockSize) \in 1..BlockSize
  <2> DEFINE r == n % BlockSize
  <2> HIDE DEF r
  <2> QED  BY <1>1, <1>3 DEF r
<1>5. k \in U64
  <2>1. k <= 3 * BlockSize
    BY <1>1, <1>3
  <2> QED  BY <1>3, <2>1, PacketAssumption, U64Smaller
<1>6. k # NoIndex
  <2>1. q \in Nat /\ NoIndex > 2 + BindingBytes + q /\ BindingBytes \in Nat /\ NoIndex \in Nat
    BY StageAssumption
  <2> HIDE DEF q
  <2> QED  BY <1>3, <2>1
<1> QED  BY <1>3, <1>4, <1>5, <1>6 DEF n

(* A byte is damaged unless the keystream byte that is applied to it is    *)
(* the one that was added to the plaintext.                                *)
LEMMA DamageAt ==
    ASSUME profile \in 1..Profiles, NEW nonce, NEW input, Len(input) = 3 * BlockSize,
           NEW t, NEW faulted, NEW bit
    PROVE  /\ Damage(apply_stream(nonce, input, t, faulted, bit)) \subseteq 1..(3 * BlockSize)
           /\ \A j \in 1..(3 * BlockSize) :
                 j \in Damage(apply_stream(nonce, input, t, faulted, bit)) <=>
                     LET block == (j - 1) \div BlockSize
                     IN  input[j] # Xor(CasePlaintext[j],
                             Atom("e", frame_stream_block(nonce,
                                     IF block = faulted THEN FlipPower(block, bit) ELSE block, t),
                                  1 + ((j - 1) % BlockSize)))
<1> DEFINE m == 3 * BlockSize
           block(j) == (j - 1) \div BlockSize
           counter(j) == IF block(j) = faulted THEN FlipPower(block(j), bit) ELSE block(j)
           at(j) == 1 + ((j - 1) % BlockSize)
           f(j) == frame_stream_block(nonce, counter(j), t)
           out == apply_stream(nonce, input, t, faulted, bit)
<1>1. m \in Nat
  BY BlockSizeAssumption
<1>2. out = [j \in 1..m |-> Xor(input[j], C1("e", f(j))[at(j)])]
  BY Zenon DEF apply_stream
<1>3. \A j \in 1..m : at(j) \in 1..BlockSize
  BY PacketBlock
<1> HIDE DEF at, f, out, m
<1>4. \A j \in 1..m : C1("e", f(j))[at(j)] = Atom("e", f(j), at(j))
  BY <1>3, Zenon DEF C1, Atom
<1>5. \A j \in 1..m : out[j] = Xor(input[j], Atom("e", f(j), at(j)))
  BY <1>2, <1>4, Zenon
<1>6. Len(out) = m
  <2> DEFINE A == {out[j] : j \in 1..m}
  <2>1. out = [j \in 1..m |-> out[j]]
    BY <1>2
  <2>2. \A j \in 1..m : out[j] \in A
    OBVIOUS
  <2> HIDE DEF A
  <2> QED  BY <1>1, <2>1, <2>2, Listed
<1>7. Case.plaintext = CasePlaintext
  BY PacketOfProfile, Zenon
<1>8. Damage(out) = {j \in 1..m : out[j] # CasePlaintext[j]}
  BY <1>6, <1>7 DEF Damage
<1>9. \A j \in 1..m : j \in Damage(out)
                          <=> input[j] # Xor(CasePlaintext[j], Atom("e", f(j), at(j)))
  <2> SUFFICES ASSUME NEW j \in 1..m
               PROVE  j \in Damage(out)
                          <=> input[j] # Xor(CasePlaintext[j], Atom("e", f(j), at(j)))
    OBVIOUS
  <2> DEFINE x == input[j]  y == CasePlaintext[j]  z == Atom("e", f(j), at(j))
  <2>1. j \in Damage(out) <=> Xor(x, z) # y
    BY <1>5, <1>8, Zenon
  <2> HIDE DEF x, y, z
  <2>2. Xor(x, z) = y <=> x = Xor(y, z)
    BY XorFacts
  <2> QED  BY <2>1, <2>2 DEF x, y, z
<1>10. Damage(out) \subseteq 1..m
  BY <1>8
<1> QED  BY <1>9, <1>10, Zenon DEF out, m, f, at

(* The ciphertext of the packet.                                           *)
LEMMA CiphertextAt ==
    ASSUME NEW t, NEW j \in 1..(3 * BlockSize)
    PROVE  CaseCiphertext(t)[j]
               = Xor(CasePlaintext[j],
                     Atom("e", frame_stream_block(CaseNonce, (j - 1) \div BlockSize, t),
                          1 + ((j - 1) % BlockSize)))
<1> DEFINE n == 3 * BlockSize
           B == {CasePlaintext[i] : i \in 1..n}
<1>1. CasePlaintext \in Seq(B) /\ Len(CasePlaintext) = n
  BY PlaintextFacts
<1> HIDE DEF B
<1>2. CaseCiphertext(t) = [i \in 1..Len(CasePlaintext) |->
              Xor(CasePlaintext[i], StreamByte("e", CaseNonce, i, t))]
  BY <1>1, KeystreamFacts DEF CaseCiphertext
<1>3. CaseCiphertext(t)[j] = Xor(CasePlaintext[j], StreamByte("e", CaseNonce, j, t))
  <2>1. j \in 1..Len(CasePlaintext)
    BY <1>1
  <2> QED  BY <1>2, <2>1, Zenon
<1> QED  BY <1>3, Zenon DEF StreamByte

(* A released byte of the ciphertext is damaged exactly when the nonce or  *)
(* the counter of its block has changed.                                   *)
LEMMA StreamDamage ==
    ASSUME profile \in 1..Profiles, NEW t, t = TagBytes(profile),
           NEW B, CaseBytes(t) \subseteq B, NEW nonce \in Seq(B), Len(nonce) = NonceBytes,
           NEW faulted, NEW bit, NEW j \in 1..(3 * BlockSize),
           NEW k, k = (j - 1) \div BlockSize,
           k = faulted => bit \in Nat /\ FlipPower(k, bit) \in U64
    PROVE  j \in Damage(apply_stream(nonce, CaseCiphertext(t), t, faulted, bit))
               <=> nonce # CaseNonce \/ k = faulted
<1> DEFINE c == CaseCiphertext(t)
           v == IF k = faulted THEN FlipPower(k, bit) ELSE k
           at == 1 + ((j - 1) % BlockSize)
           f == frame_stream_block(nonce, v, t)
           g == frame_stream_block(CaseNonce, k, t)
           x == Atom("e", f, at)
           y == Atom("e", g, at)
           p == CasePlaintext[j]
<1>1. k \in Nat /\ k \in U64
  BY PacketBlock
<1>2. Len(c) = 3 * BlockSize /\ CaseNonce \in Seq(CaseBytes(t)) /\ Len(CaseNonce) = NonceBytes
      /\ HeaderBytes \subseteq CaseBytes(t)
  BY PacketBytes, Zenon
<1>3. c[j] = Xor(p, y)
  BY CiphertextAt
<1>4. j \in Damage(apply_stream(nonce, c, t, faulted, bit)) <=> c[j] # Xor(p, x)
  <2> HIDE DEF c
  <2> QED  BY <1>2, DamageAt
<1> HIDE DEF c, x, y, p
<1>5. j \in Damage(apply_stream(nonce, c, t, faulted, bit)) <=> y # x
  BY <1>3, <1>4, XorFacts
<1>6. v \in U64 /\ (v = k <=> k # faulted)
  BY <1>1, FlipPowerFacts
<1>7. ASSUME x = y
      PROVE  nonce = CaseNonce /\ v = k
  <2> DEFINE e == "e"
  <2> HIDE DEF e, at, f, g
  <2>1. Atom(e, f, at) = Atom(e, g, at)
    BY <1>7 DEF x, y, e
  <2>2. f = g
    BY <2>1, AtomInjective
  <2>3. frame_stream_block(nonce, v, t) = frame_stream_block(CaseNonce, k, t)
    BY <2>2 DEF f, g
  <2>4. CaseNonce \in Seq(B) /\ HeaderBytes \subseteq B
    BY <1>2, Widened
  <2>5. t \in Nat
    BY PacketOfProfile, Zenon
  <2> HIDE DEF v
  <2> QED  BY <1>1, <1>2, <1>6, <2>3, <2>4, <2>5, NonceBytesAssumption,
          StreamFrameInjective
<1>8. nonce = CaseNonce /\ v = k => x = y
  BY DEF x, y, f, g
<1> QED  BY <1>5, <1>6, <1>7, <1>8 DEF c

(* With the nonce of the packet, a byte is damaged when that of the        *)
(* ciphertext is.                                                          *)
LEMMA CiphertextDamage ==
    ASSUME profile \in 1..Profiles, NEW t, NEW input, Len(input) = 3 * BlockSize,
           NEW bit, NEW j \in 1..(3 * BlockSize)
    PROVE  j \in Damage(apply_stream(CaseNonce, input, t, NoIndex, bit))
               <=> input[j] # CaseCiphertext(t)[j]
<1> DEFINE k == (j - 1) \div BlockSize
           c == CaseCiphertext(t)
<1>1. k # NoIndex
  BY PacketBlock
<1>2. c[j] = Xor(CasePlaintext[j], Atom("e", frame_stream_block(CaseNonce, k, t),
                                        1 + ((j - 1) % BlockSize)))
  BY CiphertextAt
<1>3. j \in Damage(apply_stream(CaseNonce, input, t, NoIndex, bit))
        <=> input[j] # Xor(CasePlaintext[j],
               Atom("e", frame_stream_block(CaseNonce,
                       IF k = NoIndex THEN FlipPower(k, bit) ELSE k, t),
                    1 + ((j - 1) % BlockSize)))
  BY DamageAt
<1> HIDE DEF k, c
<1> QED  BY <1>1, <1>2, <1>3 DEF c

(* A released ciphertext with the packet's nonce, and one with another.    *)
LEMMA ReleasedDamage ==
    ASSUME profile \in 1..Profiles, NEW t, t = TagBytes(profile),
           NEW B, CaseBytes(t) \subseteq B, NEW nonce \in Seq(B), Len(nonce) = NonceBytes
    PROVE  Damage(apply_stream(nonce, CaseCiphertext(t), t, NoIndex, 0))
               = IF nonce = CaseNonce THEN {} ELSE 1..(3 * BlockSize)
<1> DEFINE D == Damage(apply_stream(nonce, CaseCiphertext(t), t, NoIndex, 0))
           m == 3 * BlockSize
<1>1. D \subseteq 1..m
  <2>1. Len(CaseCiphertext(t)) = m
    BY PacketBytes, Zenon
  <2> QED  BY <2>1, DamageAt
<1>2. ASSUME NEW j \in 1..m
      PROVE  j \in D <=> nonce # CaseNonce
  <2> DEFINE k == (j - 1) \div BlockSize
  <2>1. k # NoIndex
    BY PacketBlock
  <2> HIDE DEF k
  <2> QED  BY <2>1, NonceBytesAssumption, StreamDamage DEF k
<1> HIDE DEF D, m
<1> QED  BY <1>1, <1>2 DEF D, m

LEMMA FirstFlipped ==
    ASSUME NEW S, NEW s \in Seq(S), Len(s) > 0, NEW f, f = FlipBit(s, 0)
    PROVE  /\ \A j \in 1..Len(s) : f[j] # s[j] <=> j = 1
           /\ Len(f) = Len(s) /\ f # s
           /\ \A B : S \subseteq B /\ f[1] \in B => f \in Seq(B)
<1> DEFINE q == 0 \div ByteBits
<1>1. q = 0
  BY StageAssumption
<1>2. Len(s) \in Nat
  BY LenProperties
<1> HIDE DEF q
<1>3. /\ \A j \in 1..Len(s) : f[j] # s[j] <=> j = 1 + q
      /\ Len(f) = Len(s) /\ f # s
      /\ \A B : S \subseteq B /\ f[1 + q] \in B => f \in Seq(B)
  BY <1>1, <1>2, FlipFacts DEF q
<1>4. 1 + q = 1
  BY <1>1
<1> QED  BY <1>3, <1>4

(* Releasing a rejected packet damages what has been altered of it.        *)
LEMMA BranchSkipOutcome ==
    ASSUME profile \in 1..Profiles, NEW n \in 0..3,
           NEW o, o = test_authentication_branch_skip(n)
    PROVE  /\ ~ o.accepted /\ o.bypassed = TRUE
           /\ o.damage = CASE n = 1 -> {1} [] n = 2 -> 1..(3 * BlockSize) [] OTHER -> {}
<1> DEFINE t == TagBytes(profile)
           tag        == IF n = 0 THEN FlipBit(Sealed.tag, 0) ELSE Sealed.tag
           ciphertext == IF n = 1 THEN FlipBit(CaseCiphertext(t), 0) ELSE CaseCiphertext(t)
           nonce      == IF n = 2 THEN FlipBit(CaseNonce, 0) ELSE CaseNonce
           ad         == IF n = 3 THEN FlipBit(CaseData, 0) ELSE CaseData
           D == Damage(apply_stream(nonce, ciphertext, t, NoIndex, 0))
           m == 3 * BlockSize
           A == CaseBytes(t)
           B == A \cup {ciphertext[1], nonce[1], ad[1]}
<1>1. /\ Case.nonce = CaseNonce /\ Case.associated_data = CaseData
      /\ Sealed.ciphertext = CaseCiphertext(t) /\ Len(Sealed.tag) = t
      /\ t \in Nat /\ t >= 1
  BY PacketOfProfile, Zenon
<1>2. /\ CaseNonce \in Seq(A) /\ Len(CaseNonce) = NonceBytes
      /\ CaseData \in Seq(A) /\ Len(CaseData) = 2
      /\ CaseCiphertext(t) \in Seq(A) /\ Len(CaseCiphertext(t)) = m
  BY PacketBytes, Zenon
<1>3. m \in Nat /\ m > 0 /\ NonceBytes \in Nat /\ NonceBytes > 0
  BY BlockSizeAssumption, NonceBytesAssumption, PacketAssumption
<1>4. /\ Len(tag) = t
      /\ n = 0 => ~ OpenCase(Case.nonce, Case.associated_data, Sealed.ciphertext, tag).opened
  <2>1. 0 \div ByteBits = 0
    BY StageAssumption
  <2> DEFINE i == 0 \div ByteBits
  <2> HIDE DEF i
  <2>2. /\ Len(FlipBit(Sealed.tag, 0)) = t
        /\ ~ OpenCase(Case.nonce, Case.associated_data, Sealed.ciphertext,
                      FlipBit(Sealed.tag, 0)).opened
    <3>1. i = 0 /\ i = 0 \div ByteBits
      BY <2>1 DEF i
    <3> HIDE DEF t
    <3> QED  BY <1>1, <3>1, TagFlip DEF t
  <2> QED  BY <1>1, <2>2
<1>5. /\ A \subseteq B /\ ciphertext[1] \in B /\ nonce[1] \in B /\ ad[1] \in B
  OBVIOUS
<1> HIDE DEF A, B, m, t
<1>6. /\ ciphertext \in Seq(B) /\ Len(ciphertext) = m
      /\ n = 1 => /\ ciphertext # CaseCiphertext(t)
                  /\ \A j \in 1..m : ciphertext[j] # CaseCiphertext(t)[j] <=> j = 1
  <2> DEFINE c == CaseCiphertext(t)
             f == FlipBit(c, 0)
  <2> HIDE DEF c, f
  <2>1. CASE n = 1
    <3>1. ciphertext = f
      BY <2>1 DEF c, f
    <3>2. /\ \A j \in 1..Len(c) : f[j] # c[j] <=> j = 1
          /\ Len(f) = Len(c) /\ f # c
          /\ \A E : A \subseteq E /\ f[1] \in E => f \in Seq(E)
      BY <1>2, <1>3, FirstFlipped DEF c, f
    <3> HIDE DEF ciphertext
    <3> QED  BY <1>2, <1>5, <2>1, <3>1, <3>2 DEF c
  <2>2. CASE n # 1
    <3>1. ciphertext = c
      BY <2>2 DEF c
    <3> HIDE DEF ciphertext
    <3> QED  BY <1>2, <1>5, <2>2, <3>1, Widened DEF c
  <2> QED  BY <2>1, <2>2
<1>7. /\ nonce \in Seq(B) /\ Len(nonce) = NonceBytes
      /\ n = 2 => nonce # CaseNonce
  <2> DEFINE c == CaseNonce
             f == FlipBit(c, 0)
  <2> HIDE DEF c, f
  <2>1. CASE n = 2
    <3>1. nonce = f
      BY <2>1 DEF c, f
    <3>2. /\ Len(f) = Len(c) /\ f # c
          /\ \A E : A \subseteq E /\ f[1] \in E => f \in Seq(E)
      BY <1>2, <1>3, FirstFlipped DEF c, f
    <3> HIDE DEF nonce
    <3> QED  BY <1>2, <1>5, <2>1, <3>1, <3>2 DEF c
  <2>2. CASE n # 2
    <3>1. nonce = c
      BY <2>2 DEF c
    <3> HIDE DEF nonce
    <3> QED  BY <1>2, <1>5, <2>2, <3>1, Widened DEF c
  <2> QED  BY <2>1, <2>2
<1>8. /\ ad \in Seq(B) /\ Len(ad) = 2
      /\ n = 3 => ad # CaseData
  <2> DEFINE c == CaseData
             f == FlipBit(c, 0)
  <2> HIDE DEF c, f
  <2>1. CASE n = 3
    <3>1. ad = f
      BY <2>1 DEF c, f
    <3>4. c \in Seq(A) /\ Len(c) > 0
      BY <1>2 DEF c
    <3>2. /\ Len(f) = Len(c) /\ f # c
          /\ \A E : A \subseteq E /\ f[1] \in E => f \in Seq(E)
      BY <3>4, FirstFlipped DEF f
    <3> HIDE DEF ad
    <3> QED  BY <1>2, <1>5, <2>1, <3>1, <3>2 DEF c
  <2>2. CASE n # 3
    <3>1. ad = c
      BY <2>2 DEF c
    <3> HIDE DEF ad
    <3> QED  BY <1>2, <1>5, <2>2, <3>1, Widened DEF c
  <2> QED  BY <2>1, <2>2
<1>9. o = [accepted |-> OpenCase(nonce, ad, ciphertext, tag).opened, bypassed |-> TRUE,
           damage |-> D]
  <2>1. o = [accepted |-> OpenCase(nonce, ad, ciphertext, tag).opened, bypassed |-> TRUE,
           damage |-> Damage(apply_stream(nonce, ciphertext, Len(tag), NoIndex, 0))]
    BY <1>1, Zenon DEF test_authentication_branch_skip, Outcome
  <2> QED  BY <1>4, <2>1, Zenon
<1>10. ~ OpenCase(nonce, ad, ciphertext, tag).opened
  <2>1. CASE n = 0
    <3>1. nonce = CaseNonce /\ ad = CaseData /\ ciphertext = CaseCiphertext(t)
      BY <2>1
    <3> HIDE DEF nonce, ad, ciphertext, tag
    <3> QED  BY <1>1, <1>4, <2>1, <3>1, Zenon
  <2>2. CASE n # 0
    <3>1. tag[1] = Sealed.tag[1]
      BY <2>2
    <3>2. n = 1 \/ n = 2 \/ n = 3
      BY <2>2
    <3> HIDE DEF nonce, ad, ciphertext, tag
    <3>3. nonce # CaseNonce \/ ad # CaseData \/ ciphertext # CaseCiphertext(t)
      BY <1>6, <1>7, <1>8, <3>2, Zenon
    <3> QED  BY <1>5, <1>6, <1>7, <1>8, <3>1, <3>3, OtherPacketRejected DEF A, t, m
  <2> QED  BY <2>1, <2>2
<1>11. D = CASE n = 1 -> {1} [] n = 2 -> 1..m [] OTHER -> {}
  <2>1. CASE n = 1
    <3>1. nonce = CaseNonce
      BY <2>1
    <3> HIDE DEF nonce, ad, ciphertext, tag, D
    <3>2. \A j \in 1..m : j \in D <=> ciphertext[j] # CaseCiphertext(t)[j]
      BY <1>6, <3>1, CiphertextDamage DEF m, D
    <3>3. D \subseteq 1..m
      BY <1>6, DamageAt DEF m, D
    <3> QED  BY <1>3, <1>6, <2>1, <3>2, <3>3
  <2>2. CASE n # 1
    <3>1. ciphertext = CaseCiphertext(t)
      BY <2>2
    <3>2. nonce = CaseNonce <=> n # 2
      BY <1>7
    <3> HIDE DEF nonce, ad, ciphertext, tag
    <3>3. D = IF nonce = CaseNonce THEN {} ELSE 1..m
      BY <1>5, <1>7, <3>1, ReleasedDamage DEF t, A, m
    <3> HIDE DEF D
    <3> QED  BY <2>2, <3>2, <3>3
  <2> QED  BY <2>1, <2>2
<1> HIDE DEF D
<1> QED  BY <1>9, <1>10, <1>11 DEF m

(* A faulted counter damages its block.                                    *)
LEMMA CounterFaultOutcome ==
    ASSUME profile \in 1..Profiles, NEW n \in Nat, n < 3 * CounterBits
    PROVE  /\ CounterFault(n).accepted = FALSE /\ CounterFault(n).bypassed = FALSE
           /\ CounterFault(n).damage
                = {j \in 1..(3 * BlockSize) : (j - 1) \div BlockSize = n \div CounterBits}
<1> DEFINE t == TagBytes(profile)
           b == n \div CounterBits
           bit == n % CounterBits
           c == CaseCiphertext(t)
           D == Damage(apply_stream(CaseNonce, c, t, b, bit))
           A == CaseBytes(t)
           m == 3 * BlockSize
<1>1. /\ Case.nonce = CaseNonce /\ Sealed.ciphertext = c /\ Len(Sealed.tag) = t
  BY PacketOfProfile, Zenon
<1>2. CaseNonce \in Seq(A) /\ Len(CaseNonce) = NonceBytes /\ Len(c) = m
  BY PacketBytes, Zenon
<1>3. CounterFault(n) = [accepted |-> FALSE, bypassed |-> FALSE, damage |-> D]
  BY <1>1, Zenon DEF CounterFault, Outcome, NullOpt
<1>4. b \in 0..2 /\ bit \in 0..(CounterBits - 1) /\ bit \in Nat
  <2>1. CounterBits \in Nat \ {0}
    BY PacketAssumption
  <2>2. n < CounterBits * 3
    BY <2>1
  <2>3. /\ b \in Nat /\ bit \in 0..(CounterBits - 1)
        /\ \A k \in Nat : n < CounterBits * k => b < k
    BY <2>1, DivFacts
  <2> HIDE DEF b, bit
  <2>4. b < 3
    BY <2>2, <2>3
  <2> QED  BY <2>1, <2>3, <2>4
<1>5. FlipPower(b, bit) \in U64
  BY <1>4, PacketAssumption
<1> HIDE DEF b, bit, m
<1>6. D \subseteq 1..m
  BY <1>2, DamageAt DEF m
<1>7. ASSUME NEW j \in 1..m
      PROVE  j \in D <=> (j - 1) \div BlockSize = b
  <2> DEFINE k == (j - 1) \div BlockSize
  <2> HIDE DEF k
  <2> QED  BY <1>2, <1>4, <1>5, NonceBytesAssumption, StreamDamage DEF k, m
<1> HIDE DEF D
<1>8. D = {j \in 1..m : (j - 1) \div BlockSize = b}
  BY <1>6, <1>7
<1> QED  BY <1>3, <1>8 DEF b, m

(* A faulted nonce damages everything.                                     *)
LEMMA NonceFaultOutcome ==
    ASSUME profile \in 1..Profiles, NEW n \in Nat, n < ByteBits * NonceBytes
    PROVE  /\ NonceFault(n).accepted = FALSE /\ NonceFault(n).bypassed = FALSE
           /\ NonceFault(n).damage = 1..(3 * BlockSize)
<1> DEFINE t == TagBytes(profile)
           q == n \div ByteBits
           c == CaseCiphertext(t)
           f == FlipBit(CaseNonce, n)
           D == Damage(apply_stream(f, c, t, NoIndex, 0))
           A == CaseBytes(t)
           B == A \cup {f[1 + q]}
<1>1. /\ Case.nonce = CaseNonce /\ Sealed.ciphertext = c /\ Len(Sealed.tag) = t
  BY PacketOfProfile, Zenon
<1>2. CaseNonce \in Seq(A) /\ Len(CaseNonce) = NonceBytes
  BY PacketBytes, Zenon
<1>3. NonceFault(n) = [accepted |-> FALSE, bypassed |-> FALSE, damage |-> D]
  BY <1>1, Zenon DEF NonceFault, Outcome, NullOpt
<1>4. q < NonceBytes
  <2>1. ByteBits \in Nat \ {0} /\ NonceBytes \in Nat
    BY StageAssumption, NonceBytesAssumption
  <2>2. \A k \in Nat : n < ByteBits * k => q < k
    BY <2>1, DivFacts
  <2> HIDE DEF q
  <2> QED  BY <2>1, <2>2
<1>5. A \subseteq B /\ f[1 + q] \in B
  OBVIOUS
<1> DEFINE s == CaseNonce
<1>6. f = FlipBit(s, n) /\ s \in Seq(A) /\ Len(s) = NonceBytes /\ q = n \div ByteBits
  BY <1>2
<1> HIDE DEF q, f, A, B, s
<1>7. /\ Len(f) = Len(s) /\ f # s
      /\ \A E : A \subseteq E /\ f[1 + q] \in E => f \in Seq(E)
  BY <1>4, <1>6, FlipFacts
<1>8. f \in Seq(B) /\ Len(f) = NonceBytes /\ f # CaseNonce
  BY <1>5, <1>6, <1>7 DEF s
<1>9. D = 1..(3 * BlockSize)
  <2>1. D = IF f = CaseNonce THEN {} ELSE 1..(3 * BlockSize)
    BY <1>5, <1>8, NonceBytesAssumption, ReleasedDamage DEF A
  <2> QED  BY <1>8, <2>1, Zenon
<1> HIDE DEF D
<1> QED  BY <1>3, <1>9

-----------------------------------------------------------------------------
(* What any fault of a packet test does.                                   *)
LEMMA PacketFaultOutcome ==
    ASSUME profile \in 1..Profiles, NEW test \in PacketTests,
           NEW n \in Nat, n < Items(test, profile), NEW o, o = PacketFault(test, n)
    PROVE  LET all == 1..(3 * BlockSize) IN
           /\ ~ o.accepted
           /\ test = "tag_bits" => ~ o.bypassed
           /\ test \in {"comparison_skip", "length_post", "branch_skip"} => o.bypassed
           /\ test = "branch_skip" =>
                 o.damage = CASE n = 1 -> {1} [] n = 2 -> all [] OTHER -> {}
           /\ test = "nonce" => o.damage = all
           /\ test = "counter" =>
                 o.damage = {j \in all : (j - 1) \div BlockSize = n \div CounterBits}
<1>1. CASE test = "tag_bits"
  <2>1. o = TagBit(n) /\ n < ByteBits * TagBytes(profile)
    BY <1>1 DEF PacketFault, Items
  <2>2. ~ TagBit(n).accepted /\ ~ TagBit(n).bypassed
    BY <2>1, TagBitOutcome
  <2> QED  BY <1>1, <2>1, <2>2
<1>2. CASE test = "comparison_skip"
  <2>1. o = test_comparison_skip(n) /\ n < TagBytes(profile)
    BY <1>2 DEF PacketFault, Items
  <2>2. ~ test_comparison_skip(n).accepted /\ test_comparison_skip(n).bypassed
    BY <2>1, ComparisonSkipOutcome
  <2> QED  BY <1>2, <2>1, <2>2
<1>3. CASE test = "length_pre"
  <2>1. o = LengthPre(n)
    BY <1>3 DEF PacketFault
  <2>2. ~ LengthPre(n).accepted
    BY LengthPreOutcome
  <2> QED  BY <1>3, <2>1, <2>2
<1>4. CASE test = "length_post"
  <2>1. o = LengthPost(n)
    BY <1>4 DEF PacketFault
  <2>2. ~ LengthPost(n).accepted /\ LengthPost(n).bypassed
    BY LengthPostOutcome
  <2> QED  BY <1>4, <2>1, <2>2
<1>5. CASE test = "branch_skip"
  <2>1. o = test_authentication_branch_skip(n) /\ n \in 0..3
    BY <1>5 DEF PacketFault, Items
  <2>2. /\ ~ o.accepted /\ o.bypassed
        /\ o.damage = CASE n = 1 -> {1} [] n = 2 -> 1..(3 * BlockSize) [] OTHER -> {}
    BY <2>1, BranchSkipOutcome
  <2> QED  BY <1>5, <2>2
<1>6. CASE test = "counter"
  <2>1. o = CounterFault(n) /\ n < 3 * CounterBits
    <3>1. ~ (profile < Profiles)
      BY <1>6 DEF Items
    <3> QED  BY <1>6, <3>1 DEF PacketFault, Items
  <2>2. /\ o.accepted = FALSE
        /\ o.damage
             = {j \in 1..(3 * BlockSize) : (j - 1) \div BlockSize = n \div CounterBits}
    BY <2>1, CounterFaultOutcome
  <2> QED  BY <1>6, <2>2
<1>7. CASE test = "nonce"
  <2>1. o = NonceFault(n) /\ n < ByteBits * NonceBytes
    <3>1. ~ (profile < Profiles)
      BY <1>7 DEF Items
    <3> QED  BY <1>7, <3>1 DEF PacketFault, Items
  <2>2. o.accepted = FALSE /\ o.damage = 1..(3 * BlockSize)
    BY <2>1, NonceFaultOutcome
  <2> QED  BY <1>7, <2>2
<1> QED  BY <1>1, <1>2, <1>3, <1>4, <1>5, <1>6, <1>7 DEF PacketTests

-----------------------------------------------------------------------------
(* The inductive invariant: the loops are in their bounds, the counters of *)
(* a packet test are those that its faults leave, and the two promises.    *)
LoopInv == /\ mode \in Modes /\ step \in Nat \ {0}
           /\ profile \in 1..Profiles /\ item \in Nat

CountType == [attempts : Nat, acceptances : Nat, bypasses : Nat,
              cases_with_unchanged : SUBSET Nat, cases_with_one_bit : SUBSET Nat]
StatsType == [attempts : Nat, unchanged : Nat, one_bit : Nat, distance_sum : Nat,
              minimum : Nat, maximum : Nat]
CountInv == count \in CountType /\ stats \in StatsType

PacketInv ==
    step <= Len(Tests(mode)) /\ Test \in PacketTests =>
        /\ count.acceptances = 0
        /\ Test = "tag_bits" => count.bypasses = 0
        /\ Test \in {"comparison_skip", "length_post", "branch_skip"} =>
              count.bypasses = count.attempts
        /\ Test \in {"counter", "nonce"} => stats.attempts = item

CampaignInv == LoopInv /\ CountInv /\ PacketInv /\ CampaignSound /\ DamageExact

LEMMA TestsLength ==
    ASSUME NEW m \in Modes
    PROVE  Len(Tests(m)) \in Nat
<1>1. CASE m \in {"default", "--localize"}
  BY <1>1 DEF Tests
<1>2. CASE m = "--replicate"
  BY <1>2 DEF Tests
<1>3. CASE m = "--diagnose"
  BY <1>3 DEF Tests
<1>4. CASE m = "--map"
  BY <1>4 DEF Tests
<1>5. CASE m = "unknown"
  BY <1>5 DEF Tests
<1> QED  BY <1>1, <1>2, <1>3, <1>4, <1>5 DEF Modes

(* The tests of each mode.                                                 *)
LEMMA TestsFacts ==
    ASSUME NEW m \in Modes, NEW i \in 1..Len(Tests(m))
    PROVE  /\ Tests(m)[i] = "diagnosis" => Tests(m)[1] = "diagnosis"
           /\ Tests(m)[i] \in PacketTests \cup {"stream_state", "mac_state", "replication",
                                                "diagnosis"} \cup Families
           /\ m = "--localize" =>
                 Tests(m)[i] \in PacketTests \cup {"stream_state", "mac_state"}
           /\ m = "--replicate" => Tests(m)[i] = "replication"
<1>1. CASE m \in {"default", "--localize"}
  <2>1. Tests(m) = <<"tag_bits", "comparison_skip", "length_pre", "length_post",
                     "branch_skip", "counter", "nonce", "stream_state", "mac_state">>
    BY <1>1 DEF Tests
  <2> QED  BY <1>1, <2>1 DEF PacketTests
<1>2. CASE m = "--replicate"
  <2>1. Tests(m) = <<"replication">>
    BY <1>2 DEF Tests
  <2> QED  BY <1>2, <2>1
<1>3. CASE m = "--diagnose"
  <2>1. Tests(m) = <<"diagnosis", "nonce_family", "key_family">>
    BY <1>3 DEF Tests
  <2> QED  BY <1>3, <2>1 DEF Families
<1>4. CASE m = "--map"
  <2>1. Tests(m) = <<"diagnosis">>
    BY <1>4 DEF Tests
  <2> QED  BY <1>4, <2>1
<1>5. CASE m = "unknown"
  <2>1. Tests(m) = <<>>
    BY <1>5 DEF Tests
  <2> QED  BY <1>5, <2>1
<1> QED  BY <1>1, <1>2, <1>3, <1>4, <1>5 DEF Modes

LEMMA ObserveType ==
    ASSUME NEW s \in StatsType, NEW distance \in Nat
    PROVE  observe(s, distance) \in StatsType
<1>1. \A a, b \in Nat : Least({a, b}) \in Nat /\ Greatest({a, b}) \in Nat
  BY DEF Least, Greatest
<1>2. Least({s.minimum, distance}) \in Nat /\ Greatest({s.maximum, distance}) \in Nat
  BY <1>1 DEF StatsType
<1> DEFINE least == Least({s.minimum, distance})
           greatest == Greatest({s.maximum, distance})
<1> HIDE DEF least, greatest
<1>3. least \in Nat /\ greatest \in Nat
  BY <1>2 DEF least, greatest
<1>4. observe(s, distance) =
        [attempts  |-> s.attempts + 1,
         unchanged |-> s.unchanged + (IF distance = 0 THEN 1 ELSE 0),
         one_bit   |-> s.one_bit + (IF distance = 1 THEN 1 ELSE 0),
         distance_sum |-> s.distance_sum + distance,
         minimum |-> least, maximum |-> greatest]
  BY Zenon DEF observe, least, greatest
<1> QED  BY <1>3, <1>4 DEF StatsType

(* The bits that a state fault changes are finitely many.                  *)
LEMMA ChangeFacts ==
    ASSUME NEW n \in Nat, NEW changed \in Changes(n)
    PROVE  /\ changed \subseteq 0..(n * ByteBits - 1)
           /\ IsFiniteSet(changed) /\ Cardinality(changed) \in Nat
           /\ Cardinality(changed) = 0 <=> changed = {}
<1> DEFINE m == n * ByteBits - 1
           I == 0..m
<1>1. m \in Int
  BY StageAssumption
<1>2. changed \in SUBSET I
  BY DEF Changes
<1> HIDE DEF m
<1>3. IsFiniteSet(I)
  BY <1>1, FS_Interval
<1> HIDE DEF I
<1>4. IsFiniteSet(changed)
  BY <1>2, <1>3, FS_Subset
<1> QED  BY <1>2, <1>4, FS_CardinalityType, FS_EmptySet DEF I, m

LEMMA StateBitsFacts ==
    /\ Cardinality(StateBits) \in Nat \ {0} /\ Cardinality(StateBits) = RegionEnd[5]
    /\ IsFiniteSet(StateBits)
<1> DEFINE n == RegionEnd[5]
<1>1. n \in Nat \ {0}
  <2>1. /\ RegionBits[1] \in Nat \ {0} /\ RegionBits[2] \in Nat /\ RegionBits[3] \in Nat
        /\ RegionBits[4] \in Nat /\ RegionBits[5] \in Nat
    BY RegionAssumption
  <2>2. RegionEnd[5] = RegionBits[1] + RegionBits[2] + RegionBits[3]
                         + RegionBits[4] + RegionBits[5]
    BY DEF RegionEnd
  <2> DEFINE a == RegionBits[1]  b == RegionBits[2]  c == RegionBits[3]
             d == RegionBits[4]  e == RegionBits[5]
  <2>3. n = a + b + c + d + e
    BY <2>2
  <2>4. a \in Nat \ {0} /\ b \in Nat /\ c \in Nat /\ d \in Nat /\ e \in Nat
    BY <2>1
  <2> HIDE DEF n, a, b, c, d, e
  <2> QED  BY <2>3, <2>4
<1>2. StateBits = 0..(n - 1)
  BY DEF StateBits
<1> HIDE DEF n
<1>3. IsFiniteSet(0..(n - 1)) /\ Cardinality(0..(n - 1)) = n
  <2>1. 0 \in Int /\ n - 1 \in Int /\ ~ (0 > n - 1) /\ (n - 1) - 0 + 1 = n
    BY <1>1
  <2> QED  BY <2>1, FS_Interval
<1> QED  BY <1>1, <1>2, <1>3 DEF n

-----------------------------------------------------------------------------
(* The first state, and the steps of the campaign.                         *)
LEMMA CampaignInit == Init => CampaignInv
<1> SUFFICES ASSUME Init PROVE CampaignInv
  OBVIOUS
<1>1. LoopInv
  BY RankFacts DEF Init, LoopInv
<1>2. CountInv
  BY StageAssumption DEF Init, CountInv, CountType, StatsType, NoCount, NoStats
<1>3. PacketInv
  BY DEF Init, PacketInv, NoCount, NoStats
<1>4. CampaignSound
  BY BaselineHolds DEF Init, CampaignSound
<1>5. DamageExact
  BY DEF Init, NoLast, DamageExact
<1> QED  BY <1>1, <1>2, <1>3, <1>4, <1>5 DEF CampaignInv

LEMMA InjectPreserves ==
    ASSUME CampaignInv, InjectPacketFault
    PROVE  CampaignInv'
<1> USE DEF CampaignInv
<1> DEFINE o == PacketFault(Test, item)
           all == 1..(3 * BlockSize)
           one(b) == IF b THEN 1 ELSE 0
<1>1. /\ verdict = "running" /\ step <= Len(Tests(mode)) /\ Test \in PacketTests
      /\ item < Items(Test, profile) /\ item' = item + 1
      /\ mode' = mode /\ step' = step /\ profile' = profile /\ verdict' = verdict
  BY DEF InjectPacketFault, Running
<1>2. /\ count' = [count EXCEPT !.attempts = @ + 1, !.acceptances = @ + one(o.accepted),
                                !.bypasses = @ + one(o.bypassed)]
      /\ stats' = IF Test \in {"counter", "nonce"}
                  THEN observe(stats, Cardinality(o.damage)) ELSE stats
      /\ last' = [test |-> Test, n |-> item, damage |-> o.damage]
  BY DEF InjectPacketFault
<1>3. /\ ~ o.accepted
      /\ Test = "tag_bits" => ~ o.bypassed
      /\ Test \in {"comparison_skip", "length_post", "branch_skip"} => o.bypassed
      /\ Test = "branch_skip" =>
            o.damage = CASE item = 1 -> {1} [] item = 2 -> all [] OTHER -> {}
      /\ Test = "nonce" => o.damage = all
      /\ Test = "counter" =>
            o.damage = {j \in all : (j - 1) \div BlockSize = item \div CounterBits}
  <2>1. profile \in 1..Profiles /\ item \in Nat
    BY DEF LoopInv
  <2> QED  BY <1>1, <2>1, PacketFaultOutcome
<1> HIDE DEF o
<1>4. Test \in {"counter", "nonce"} => Cardinality(o.damage) \in Nat
  <2>1. IsFiniteSet(all)
    BY BlockSizeAssumption, FS_Interval
  <2>2. Test \in {"counter", "nonce"} => o.damage \in SUBSET all
    BY <1>3
  <2> HIDE DEF all
  <2> QED  BY <2>1, <2>2, FS_Subset, FS_CardinalityType
<1> HIDE DEF all
<1>5. LoopInv'
  BY <1>1 DEF LoopInv
<1> DEFINE a == one(o.accepted)  b == one(o.bypassed)
<1>6. /\ count' \in CountType
      /\ count'.acceptances = count.acceptances
      /\ count'.attempts = count.attempts + 1
      /\ count'.bypasses = count.bypasses + one(o.bypassed)
  <2>1. a = 0 /\ b \in Nat
    BY <1>3
  <2>2. count' = [count EXCEPT !.attempts = @ + 1, !.acceptances = @ + a,
                               !.bypasses = @ + b]
    BY <1>2
  <2> HIDE DEF a, b
  <2>3. /\ count' \in CountType
        /\ count'.acceptances = count.acceptances + a
        /\ count'.attempts = count.attempts + 1
        /\ count'.bypasses = count.bypasses + b
    <3>1. count \in CountType /\ a \in Nat
      BY <2>1 DEF CountInv
    <3> DEFINE c == count  d == count'
    <3>2. d = [c EXCEPT !.attempts = @ + 1, !.acceptances = @ + a, !.bypasses = @ + b]
      BY <2>2
    <3>3. c \in CountType
      BY <3>1
    <3> HIDE DEF c, d
    <3>4. /\ d \in CountType /\ d.attempts = c.attempts + 1
          /\ d.acceptances = c.acceptances + a /\ d.bypasses = c.bypasses + b
      <4>1. d = [attempts |-> c.attempts + 1, acceptances |-> c.acceptances + a,
                 bypasses |-> c.bypasses + b,
                 cases_with_unchanged |-> c.cases_with_unchanged,
                 cases_with_one_bit |-> c.cases_with_one_bit]
        BY <3>2, <3>3 DEF CountType
      <4>2. /\ c.attempts \in Nat /\ c.acceptances \in Nat /\ c.bypasses \in Nat
            /\ c.cases_with_unchanged \in SUBSET Nat
            /\ c.cases_with_one_bit \in SUBSET Nat
        BY <3>3 DEF CountType
      <4> QED  BY <2>1, <3>1, <4>1, <4>2 DEF CountType
    <3> QED  BY <3>4 DEF c, d
  <2>4. count.acceptances \in Nat
    BY DEF CountInv, CountType
  <2> QED  BY <2>1, <2>3, <2>4 DEF b
<1>7. CountInv'
  <2>1. stats' \in StatsType
    BY <1>2, <1>4, ObserveType DEF CountInv
  <2> QED  BY <1>6, <2>1 DEF CountInv
<1>8. PacketInv'
  <2>1. Test' = Test
    BY <1>1 DEF Test
  <2>2. Test \in {"counter", "nonce"} => stats'.attempts = stats.attempts + 1
    BY <1>2 DEF observe
  <2>3. count.attempts \in Nat /\ count.bypasses \in Nat
    BY DEF CountInv, CountType
  <2> QED  BY <1>1, <1>3, <1>6, <2>1, <2>2, <2>3 DEF PacketInv
<1>9. CampaignSound'
  BY <1>1 DEF CampaignSound
<1>10. DamageExact'
  <2>1. last'.test = Test /\ last'.n = item /\ last'.damage = o.damage
    BY <1>2
  <2> QED  BY <1>3, <2>1 DEF DamageExact, all
<1> QED  BY <1>5, <1>7, <1>8, <1>9, <1>10

(* A fault of a test that is not about packets.                            *)
LEMMA StateFaultPreserves ==
    ASSUME CampaignInv, NEW tests, Running(tests), tests \cap PacketTests = {},
           UNCHANGED last, CountInv'
    PROVE  CampaignInv'
<1> USE DEF CampaignInv
<1>1. /\ verdict = "running" /\ Test \in tests /\ item' = item + 1 /\ mode' = mode
      /\ step' = step /\ profile' = profile /\ verdict' = verdict /\ last' = last
  BY DEF Running
<1>2. LoopInv'
  BY <1>1 DEF LoopInv
<1>3. PacketInv'
  <2>1. Test' = Test
    BY <1>1 DEF Test
  <2>2. Test \notin PacketTests
    BY <1>1
  <2> QED  BY <2>1, <2>2 DEF PacketInv
<1>4. CampaignSound' /\ DamageExact'
  BY <1>1 DEF CampaignSound, DamageExact
<1> QED  BY <1>2, <1>3, <1>4

LEMMA CaseNumber ==
    ASSUME LoopInv, NEW n, n = item \div Cardinality(StateBits)
    PROVE  n \in Nat
<1> DEFINE b == Cardinality(StateBits)
<1>1. b \in Nat \ {0} /\ item \in Nat
  BY StateBitsFacts DEF LoopInv
<1> HIDE DEF b
<1>2. item \div b \in Nat
  BY <1>1, DivFacts
<1> QED  BY <1>2 DEF b

(* A replication counts a case in two sets.                                *)
LEMMA CasesCounted ==
    ASSUME NEW c \in CountType, NEW U \in SUBSET Nat, NEW V \in SUBSET Nat
    PROVE  [c EXCEPT !.cases_with_unchanged = @ \cup U, !.cases_with_one_bit = @ \cup V]
               \in CountType
<1> DEFINE d == [c EXCEPT !.cases_with_unchanged = @ \cup U, !.cases_with_one_bit = @ \cup V]
           x == c.cases_with_unchanged \cup U
           y == c.cases_with_one_bit \cup V
<1>3. d = [c EXCEPT !.cases_with_unchanged = x, !.cases_with_one_bit = y]
  BY DEF CountType
<1> HIDE DEF d, x, y
<1>1. d = [attempts |-> c.attempts, acceptances |-> c.acceptances, bypasses |-> c.bypasses,
           cases_with_unchanged |-> x, cases_with_one_bit |-> y]
  BY <1>3 DEF CountType
<1>2. /\ c.attempts \in Nat /\ c.acceptances \in Nat /\ c.bypasses \in Nat
      /\ c.cases_with_unchanged \in SUBSET Nat /\ c.cases_with_one_bit \in SUBSET Nat
  BY DEF CountType
<1>4. x \in SUBSET Nat /\ y \in SUBSET Nat
  BY <1>2 DEF x, y
<1>5. d \in CountType
  BY <1>1, <1>2, <1>4 DEF CountType
<1> QED  BY <1>5 DEF d

LEMMA StateTestPreserves ==
    ASSUME CampaignInv,
           \/ test_c1_stream_state_faults \/ test_c1_mac_state_faults
           \/ test_c1_mac_state_replication \/ test_finalization_diagnosis
           \/ test_fault_dependency_families
    PROVE  CampaignInv'
<1>1. profile \in 1..Profiles /\ LoopInv /\ count \in CountType /\ stats \in StatsType
  BY DEF CampaignInv, LoopInv, CountInv
<1>2. TagBytes(profile) \in Nat /\ CanonicalBytes \in Nat
  BY <1>1, TagBytesFacts, RankFacts, StageAssumption
<1>3. CASE test_c1_stream_state_faults
  <2>1. PICK changed \in Changes(CanonicalBytes) : stats' = observe(stats, Cardinality(changed))
    BY <1>3 DEF test_c1_stream_state_faults
  <2>2. Running({"stream_state"}) /\ UNCHANGED <<count, last>>
    BY <1>3 DEF test_c1_stream_state_faults
  <2>3. CountInv'
    <3>1. Cardinality(changed) \in Nat
      BY <1>2, ChangeFacts
    <3> QED  BY <1>1, <2>1, <2>2, <3>1, ObserveType DEF CountInv
  <2>4. {"stream_state"} \cap PacketTests = {}
    BY DEF PacketTests
  <2> QED  BY <2>2, <2>3, <2>4, StateFaultPreserves
<1>4. CASE test_c1_mac_state_faults
  <2>1. PICK changed \in Changes(TagBytes(profile)) :
            stats' = observe(stats, Cardinality(changed))
    BY <1>4 DEF test_c1_mac_state_faults
  <2>2. Running({"mac_state"}) /\ UNCHANGED <<count, last>>
    BY <1>4 DEF test_c1_mac_state_faults
  <2>3. CountInv'
    <3>1. Cardinality(changed) \in Nat
      BY <1>2, ChangeFacts
    <3> QED  BY <1>1, <2>1, <2>2, <3>1, ObserveType DEF CountInv
  <2>4. {"mac_state"} \cap PacketTests = {}
    BY DEF PacketTests
  <2> QED  BY <2>2, <2>3, <2>4, StateFaultPreserves
<1>5. CASE test_c1_mac_state_replication
  <2> DEFINE number == item \div Cardinality(StateBits)
  <2>1. PICK changed \in Changes(TagBytes(profile)) :
            /\ stats' = observe(stats, Cardinality(changed))
            /\ count' = [count EXCEPT
                  !.cases_with_unchanged = @ \cup When(Cardinality(changed) = 0, number),
                  !.cases_with_one_bit   = @ \cup When(Cardinality(changed) = 1, number)]
    BY <1>5 DEF test_c1_mac_state_replication
  <2>2. Running({"replication"}) /\ UNCHANGED last
    BY <1>5 DEF test_c1_mac_state_replication
  <2>3. Cardinality(changed) \in Nat
    BY <1>2, ChangeFacts
  <2>4. stats' \in StatsType
    BY <1>1, <2>1, <2>3, ObserveType
  <2>5. count' \in CountType
    <3> DEFINE U == When(Cardinality(changed) = 0, number)
               V == When(Cardinality(changed) = 1, number)
    <3>1. number \in Nat
      BY <1>1, CaseNumber
    <3> HIDE DEF number
    <3>2. U \in SUBSET Nat /\ V \in SUBSET Nat
      BY <3>1 DEF When
    <3> HIDE DEF U, V
    <3>3. count' = [count EXCEPT !.cases_with_unchanged = @ \cup U,
                                 !.cases_with_one_bit = @ \cup V]
      BY <2>1, Zenon DEF U, V
    <3>4. [count EXCEPT !.cases_with_unchanged = @ \cup U, !.cases_with_one_bit = @ \cup V]
             \in CountType
      BY <1>1, <3>2, CasesCounted
    <3> QED  BY <3>3, <3>4, Zenon
  <2>6. {"replication"} \cap PacketTests = {}
    BY DEF PacketTests
  <2> QED  BY <2>2, <2>4, <2>5, <2>6, StateFaultPreserves DEF CountInv
<1>6. CASE test_finalization_diagnosis
  <2>1. Running({"diagnosis"}) /\ UNCHANGED <<count, stats, last>>
    BY <1>6 DEF test_finalization_diagnosis
  <2>2. CountInv'
    BY <1>1, <2>1 DEF CountInv
  <2>3. {"diagnosis"} \cap PacketTests = {}
    BY DEF PacketTests
  <2> QED  BY <2>1, <2>2, <2>3, StateFaultPreserves
<1>7. CASE test_fault_dependency_families
  <2>1. Running(Families) /\ UNCHANGED <<count, stats, last>>
    BY <1>7 DEF test_fault_dependency_families
  <2>2. CountInv'
    BY <1>1, <2>1 DEF CountInv
  <2>3. Families \cap PacketTests = {}
    BY DEF PacketTests, Families
  <2> QED  BY <2>1, <2>2, <2>3, StateFaultPreserves
<1> QED  BY <1>3, <1>4, <1>5, <1>6, <1>7

(* Nothing that the campaign requires of a packet test fails.              *)
LEMMA RequirementsHold ==
    ASSUME CampaignInv, step <= Len(Tests(mode)), Test \in PacketTests,
           profile = Profiles, item = Items(Test, profile)
    PROVE  Required(Test)
<1>1. /\ count.acceptances = 0
      /\ Test = "tag_bits" => count.bypasses = 0
      /\ Test \in {"comparison_skip", "length_post", "branch_skip"} =>
              count.bypasses = count.attempts
      /\ Test \in {"counter", "nonce"} => stats.attempts = item
  BY DEF CampaignInv, PacketInv
<1>2. Profiles \in Nat /\ ~ (profile < Profiles)
  BY RankFacts
<1>3. Test = "counter" => item > 0
  <2>1. Test = "counter" => item = 3 * CounterBits
    BY <1>2 DEF Items
  <2> QED  BY <2>1, PacketAssumption
<1>4. Test = "nonce" => item > 0
  <2> DEFINE m == ByteBits * NonceBytes
  <2>1. Test = "nonce" => item = m
    BY <1>2 DEF Items
  <2>2. m \in Nat /\ m > 0
    <3>1. ByteBits \in Nat \ {0} /\ NonceBytes \in Nat /\ NonceBytes > 0
      BY StageAssumption, NonceBytesAssumption, PacketAssumption
    <3> QED  BY <3>1
  <2> HIDE DEF m
  <2> QED  BY <2>1, <2>2
<1> QED  BY <1>1, <1>3, <1>4 DEF Required

LEMMA ProfileEndsPreserves ==
    ASSUME CampaignInv, ProfileEnds
    PROVE  CampaignInv'
<1> DEFINE next_test == profile = Profiles
<1>1. /\ step <= Len(Tests(mode)) /\ item = Items(Test, profile)
      /\ verdict = "running" /\ item' = 0 /\ mode' = mode /\ stats' = NoStats /\ last' = NoLast
      /\ verdict' = IF /\ Test = "diagnosis" => Reproduced
                       /\ Test \in PacketTests /\ next_test => Required(Test)
                    THEN verdict ELSE "failed"
      /\ count' = IF next_test \/ Test \notin PacketTests THEN NoCount ELSE count
      /\ IF next_test THEN step' = step + 1 /\ profile' = 1
                      ELSE profile' = profile + 1 /\ step' = step
  BY DEF ProfileEnds
<1>2. LoopInv /\ CountInv /\ PacketInv
  BY DEF CampaignInv
<1>3. Profiles \in Nat /\ Profiles > 0
  BY RankFacts
<1>4. LoopInv'
  BY <1>1, <1>2, <1>3 DEF LoopInv
<1>5. CountInv'
  <2>1. NoCount \in CountType /\ NoStats \in StatsType
    BY StageAssumption DEF NoCount, NoStats, CountType, StatsType
  <2> QED  BY <1>1, <1>2, <2>1 DEF CountInv
<1>6. PacketInv'
  <2>1. /\ NoCount.acceptances = 0 /\ NoCount.bypasses = NoCount.attempts
        /\ NoCount.bypasses = 0 /\ NoStats.attempts = 0
    BY DEF NoCount, NoStats
  <2>2. CASE next_test \/ Test \notin PacketTests
    <3>1. count' = NoCount /\ stats' = NoStats /\ item' = 0
      BY <1>1, <2>2
    <3> QED  BY <2>1, <3>1 DEF PacketInv
  <2>3. CASE ~ next_test /\ Test \in PacketTests
    <3>1. count' = count /\ stats' = NoStats /\ item' = 0 /\ step' = step /\ mode' = mode
      BY <1>1, <2>3
    <3>2. Test' = Test
      BY <3>1 DEF Test
    <3> QED  BY <1>1, <1>2, <2>1, <2>3, <3>1, <3>2 DEF PacketInv
  <2> QED  BY <2>2, <2>3
<1>7. CampaignSound'
  <2>1. Test \in PacketTests /\ next_test => Required(Test)
    BY <1>1, RequirementsHold
  <2>2. verdict' = "failed" => Test = "diagnosis"
    BY <1>1, <2>1
  <2>3. Test = "diagnosis" => Tests(mode)[1] = "diagnosis"
    <3>1. mode \in Modes /\ step \in Nat \ {0} /\ Len(Tests(mode)) \in Nat
      BY <1>2, TestsLength DEF LoopInv
    <3>2. step \in 1..Len(Tests(mode))
      BY <1>1, <3>1
    <3> QED  BY <3>1, <3>2, TestsFacts DEF Test
  <2> QED  BY <1>1, <2>2, <2>3 DEF CampaignSound
<1>8. DamageExact'
  BY <1>1 DEF DamageExact, NoLast
<1> QED  BY <1>4, <1>5, <1>6, <1>7, <1>8 DEF CampaignInv

(* The campaign's invariant: its loops stay in their bounds, every packet  *)
(* test counts what its faults do, and with it the campaign is sound and   *)
(* the damage it records is exact.                                         *)
THEOREM CampaignInvariance == Spec => []CampaignInv
<1>1. Init => CampaignInv
  BY CampaignInit
<1>2. CampaignInv /\ [Next]_vars => CampaignInv'
  <2> SUFFICES ASSUME CampaignInv, [Next]_vars PROVE CampaignInv'
    OBVIOUS
  <2>1. CASE InjectPacketFault
    BY <2>1, InjectPreserves
  <2>2. CASE \/ test_c1_stream_state_faults \/ test_c1_mac_state_faults
             \/ test_c1_mac_state_replication \/ test_finalization_diagnosis
             \/ test_fault_dependency_families
    BY <2>2, StateTestPreserves
  <2>3. CASE ProfileEnds
    BY <2>3, ProfileEndsPreserves
  <2>4. CASE Finish
    BY <2>4 DEF Finish, CampaignInv, LoopInv, CountInv, PacketInv, CampaignSound,
                DamageExact, Test
  <2>5. CASE UNCHANGED vars
    BY <2>5 DEF vars, CampaignInv, LoopInv, CountInv, PacketInv, CampaignSound,
                DamageExact, Test
  <2> QED  BY <2>1, <2>2, <2>3, <2>4, <2>5 DEF Next, Ended
<1> QED  BY <1>1, <1>2, PTL DEF Spec

(* The campaign fails only for an unknown mode or for a diagnosis with     *)
(* other counts, whatever the sizes: open rejects every altered packet.    *)
THEOREM CampaignIsSound == Spec => []CampaignSound
<1>1. CampaignInv => CampaignSound
  BY DEF CampaignInv
<1> QED  BY <1>1, CampaignInvariance, PTL

(* Where released plaintext is damaged, for every block size, nonce size   *)
(* and number of counter bits.                                             *)
THEOREM DamageIsExact == Spec => []DamageExact
<1>1. CampaignInv => DamageExact
  BY DEF CampaignInv
<1> QED  BY <1>1, CampaignInvariance, PTL

-----------------------------------------------------------------------------
(* Least and Greatest find what they name.                                 *)
LEMMA LeastFacts ==
    ASSUME NEW S \in SUBSET Nat, S # {}
    PROVE  Least(S) \in S /\ \A m \in S : Least(S) <= m
<1> DEFINE R == {p \in Nat \X Nat : p[1] < p[2]}
<1>1. IsWellFoundedOn(R, Nat)
  BY NatLessThanWellFounded DEF OpToRel
<1>2. \A a, b \in Nat : a < b => <<a, b>> \in R
  OBVIOUS
<1> HIDE DEF R
<1>3. PICK x \in S : \A y \in S : ~ (<<y, x>> \in R)
  BY <1>1, WFMin
<1>4. ASSUME NEW m \in S
      PROVE  x <= m
  <2>1. m \in Nat /\ x \in Nat /\ ~ (m < x)
    BY <1>2, <1>3
  <2> QED  BY <2>1
<1> QED  BY <1>3, <1>4, Zenon DEF Least

LEMMA GreatestFacts ==
    ASSUME NEW b \in Nat, NEW S \in SUBSET (0..b), S # {}
    PROVE  Greatest(S) \in S /\ \A m \in S : m <= Greatest(S)
<1> DEFINE T == {m \in 0..b : b - m \in S}
           x == Least(T)
<1>1. T \in SUBSET Nat /\ T # {}
  <2>1. PICK m \in S : TRUE
    OBVIOUS
  <2>2. b - m \in 0..b /\ b - (b - m) = m
    OBVIOUS
  <2>3. b - m \in T
    BY <2>1, <2>2
  <2>4. T \in SUBSET Nat
    OBVIOUS
  <2> HIDE DEF T
  <2> QED  BY <2>3, <2>4
<1>2. x \in T /\ \A m \in T : x <= m
  <2> HIDE DEF T
  <2> QED  BY <1>1, LeastFacts
<1> HIDE DEF x
<1>3. b - x \in S /\ x \in Nat
  BY <1>2
<1>4. \A m \in S : m <= b - x
  <2> SUFFICES ASSUME NEW m \in S PROVE m <= b - x
    OBVIOUS
  <2>1. m \in Nat /\ m <= b /\ b - m \in 0..b /\ b - (b - m) = m
    OBVIOUS
  <2>2. b - m \in T
    BY <2>1
  <2> HIDE DEF T
  <2>3. x <= b - m
    BY <1>2, <2>2
  <2> QED  BY <1>3, <2>1, <2>3
<1> QED  BY <1>3, <1>4, Zenon DEF Greatest

-----------------------------------------------------------------------------
(* The overlap of two sets of cube bits, of which one may be empty.        *)
LEMMA JaccardFacts ==
    ASSUME NEW a \in SUBSET CubeBits, NEW b \in SUBSET CubeBits, a \cup b # {}
    PROVE  /\ Jaccard(a, b) \in 0..Million
           /\ a \cap b # {} => Jaccard(a, b) > 0
           /\ Jaccard(a, b) = Million <=> a = b
<1> DEFINE i == Cardinality(a \cap b)  u == Cardinality(a \cup b)
           A == a \cap b  U == a \cup b
           M == Million
<1>1. M \in Nat /\ M > 0
  BY SMT DEF Million
<1>2. IsFiniteSet(CubeBits) /\ Cardinality(CubeBits) <= M
  <2> DEFINE n == RegionBits[1]
  <2>1. n \in Nat /\ n > 0 /\ n <= M
    BY RegionAssumption
  <2>2. CubeBits = 0..(n - 1)
    BY DEF CubeBits
  <2> HIDE DEF n, M
  <2>3. 0 \in Int /\ n - 1 \in Int /\ ~ (0 > n - 1) /\ (n - 1) - 0 + 1 = n
    BY <2>1
  <2>4. IsFiniteSet(0..(n - 1)) /\ Cardinality(0..(n - 1)) = n
    BY <2>3, FS_Interval
  <2> QED  BY <2>1, <2>2, <2>4
<1>3. U \in SUBSET CubeBits /\ A \in SUBSET U /\ U # {}
  OBVIOUS
<1> HIDE DEF M, A, U
<1>4. IsFiniteSet(U) /\ Cardinality(U) <= Cardinality(CubeBits)
  BY <1>2, <1>3, FS_Subset
<1>5. /\ IsFiniteSet(A) /\ Cardinality(A) <= Cardinality(U)
      /\ Cardinality(A) = Cardinality(U) => A = U
  BY <1>3, <1>4, FS_Subset
<1>6. /\ Cardinality(A) \in Nat /\ Cardinality(U) \in Nat /\ Cardinality(CubeBits) \in Nat
      /\ Cardinality(U) # 0 /\ (Cardinality(A) = 0 <=> A = {})
  BY <1>2, <1>3, <1>4, <1>5, FS_CardinalityType, FS_EmptySet
<1>7. /\ i \in Nat /\ u \in Nat /\ u > 0 /\ i <= u /\ u <= M
      /\ (i = 0 <=> A = {}) /\ (i = u => A = U)
  BY <1>1, <1>2, <1>4, <1>5, <1>6 DEF A, U
<1> DEFINE p == i * M
           J == p \div u
           r == p % u
<1>8. Jaccard(a, b) = J
  BY Zenon DEF Jaccard, M
<1> HIDE DEF i, u
<1>9. p \in Nat
  BY <1>1, <1>7
<1>10. J \in Nat /\ r \in Nat /\ r < u /\ p = u * J + r
  <2> HIDE DEF p
  <2> QED  BY <1>7, <1>9
<1> HIDE DEF J, r
<1>11. J <= M
  <2> SUFFICES ASSUME J >= M + 1 PROVE FALSE
    BY <1>1, <1>10
  <2> DEFINE x == u * J  y == u * M  z == u * (J - M - 1)
  <2>1. x \in Int /\ y \in Int /\ z \in Nat /\ x = y + u + z
    BY <1>1, <1>7, <1>10
  <2>2. p <= y
    BY <1>1, <1>7
  <2>3. p = x + r
    BY <1>10
  <2> HIDE DEF p, x, y, z
  <2> QED  BY <1>7, <1>9, <1>10, <2>1, <2>2, <2>3
<1>12. i > 0 => J > 0
  <2> SUFFICES ASSUME i > 0, J = 0 PROVE FALSE
    BY <1>10
  <2>1. i * M = M + (i - 1) * M /\ (i - 1) * M >= 0
    BY <1>1, <1>7
  <2>2. u * J = 0
    BY <1>7
  <2> QED  BY <1>1, <1>7, <1>9, <1>10, <2>1, <2>2
<1>13. J = M => i = u
  <2> SUFFICES ASSUME J = M, i < u PROVE FALSE
    BY <1>7
  <2>1. u * M = i * M + (u - i) * M /\ (u - i) * M = M + (u - i - 1) * M
        /\ (u - i - 1) * M >= 0
    BY <1>1, <1>7
  <2> QED  BY <1>1, <1>7, <1>9, <1>10, <2>1
<1>14. a = b => J = M
  <2> SUFFICES ASSUME a = b PROVE J = M
    OBVIOUS
  <2>1. i = u
    BY DEF i, u
  <2>2. p = M * u
    BY <1>1, <1>7, <2>1
  <2>3. (M * u) \div u = M
    BY <1>1, <1>7, DivFacts
  <2> QED  BY <2>2, <2>3 DEF J
<1>15. A = U => a = b
  BY DEF A, U
<1> QED  BY <1>1, <1>7, <1>8, <1>10, <1>11, <1>12, <1>13, <1>14, <1>15 DEF A, M

(* The pairs of cases an overlap is computed for, and their overlaps.      *)
PairsOf(sets) == {q \in (DOMAIN sets) \X (DOMAIN sets) :
                     q[1] < q[2] /\ sets[q[1]] \cup sets[q[2]] # {}}
PpmOf(sets) == {Jaccard(sets[q[1]], sets[q[2]]) : q \in PairsOf(sets)}

LEMMA OverlapFacts ==
    ASSUME NEW n \in Nat, NEW sets \in [1..n -> SUBSET CubeBits],
           NEW o, o = Overlap(sets)
    PROVE  /\ o.pair_count > 0 <=> n > 1 /\ o.combined # {}
           /\ o.intersection # {} /\ o.pair_count > 0 => o.pair_min_ppm > 0
           /\ o.pair_min_ppm <= o.pair_max_ppm
           /\ o.pair_max_ppm = Million <=>
                 \E i, j \in 1..n : i < j /\ sets[i] = sets[j] /\ sets[i] # {}
<1> DEFINE pairs == PairsOf(sets)
           ppm == PpmOf(sets)
           M == Million
<1>1. /\ o.intersection = {b \in CubeBits : \A i \in DOMAIN sets : b \in sets[i]}
      /\ o.combined = UNION {sets[i] : i \in DOMAIN sets}
      /\ o.pair_count = Cardinality(pairs)
      /\ o.pair_min_ppm = IF pairs = {} THEN 0 ELSE Least(ppm)
      /\ o.pair_max_ppm = IF pairs = {} THEN 0 ELSE Greatest(ppm)
  BY DEF Overlap, PairsOf, PpmOf
<1>2. M \in Nat /\ M > 0
  BY SMT DEF Million
<1>3. \A q : q \in pairs <=> /\ q \in (1..n) \X (1..n) /\ q[1] < q[2]
                             /\ sets[q[1]] \cup sets[q[2]] # {}
  BY DEF PairsOf
<1>4. ASSUME NEW q \in pairs
      PROVE  LET J == Jaccard(sets[q[1]], sets[q[2]]) IN
             /\ J \in ppm /\ J \in 0..M
             /\ o.intersection # {} => J > 0
             /\ J = M <=> sets[q[1]] = sets[q[2]]
  <2> DEFINE a == sets[q[1]]  b == sets[q[2]]  J == Jaccard(a, b)
  <2>1. q[1] \in 1..n /\ q[2] \in 1..n /\ a \cup b # {}
    BY <1>3
  <2>2. a \in SUBSET CubeBits /\ b \in SUBSET CubeBits
    BY <2>1
  <2>3. J \in ppm
    BY DEF PpmOf
  <2>4. o.intersection # {} => a \cap b # {}
    BY <1>1, <2>1
  <2> HIDE DEF a, b, M
  <2>5. /\ J \in 0..Million /\ (a \cap b # {} => J > 0) /\ (J = Million <=> a = b)
    BY <2>1, <2>2, JaccardFacts
  <2> HIDE DEF J
  <2>6. /\ J \in ppm /\ J \in 0..M /\ (o.intersection # {} => J > 0)
        /\ (J = M <=> a = b)
    BY <2>3, <2>4, <2>5, Zenon DEF M
  <2> QED  BY <2>6, Zenon DEF J, a, b
<1>5. ASSUME NEW x \in ppm
      PROVE  \E q \in pairs : x = Jaccard(sets[q[1]], sets[q[2]])
  BY DEF PpmOf
<1> HIDE DEF pairs, ppm, M
<1>6. o.pair_count > 0 <=> pairs # {}
  <2>1. IsFiniteSet((1..n) \X (1..n))
    <3>1. 1 \in Int /\ n \in Int
      OBVIOUS
    <3>2. IsFiniteSet(1..n)
      BY <3>1, FS_Interval
    <3> QED  BY <3>2, FS_Product, Zenon
  <2>2. pairs \subseteq (1..n) \X (1..n)
    BY <1>3
  <2>3. IsFiniteSet(pairs)
    BY <2>1, <2>2, FS_Subset
  <2>4. Cardinality(pairs) \in Nat /\ (Cardinality(pairs) = 0 <=> pairs = {})
    BY <2>3, FS_CardinalityType, FS_EmptySet
  <2> QED  BY <1>1, <2>4
<1>7. pairs # {} <=> n > 1 /\ o.combined # {}
  <2>1. ASSUME NEW q \in pairs PROVE n > 1 /\ o.combined # {}
    <3>1. q[1] \in 1..n /\ q[2] \in 1..n /\ q[1] < q[2] /\ sets[q[1]] \cup sets[q[2]] # {}
      BY <1>3
    <3>2. n > 1
      BY <3>1
    <3>3. PICK b : b \in sets[q[1]] \/ b \in sets[q[2]]
      BY <3>1
    <3>4. b \in o.combined
      BY <1>1, <3>1, <3>3
    <3> QED  BY <3>2, <3>4
  <2>2. ASSUME n > 1, o.combined # {} PROVE pairs # {}
    <3>1. PICK i \in 1..n : sets[i] # {}
      BY <1>1, <2>2
    <3>2. CASE i = 1
      <4>1. 1 \in 1..n /\ 2 \in 1..n /\ 1 < 2 /\ sets[1] \cup sets[2] # {}
        BY <2>2, <3>1, <3>2
      <4>2. <<1, 2>> \in pairs
        BY <4>1, <1>3
      <4> QED  BY <4>2
    <3>3. CASE i # 1
      <4>1. 1 \in 1..n /\ i \in 1..n /\ 1 < i /\ sets[1] \cup sets[i] # {}
        BY <2>2, <3>1, <3>3
      <4>2. <<1, i>> \in pairs
        BY <4>1, <1>3
      <4> QED  BY <4>2
    <3> QED  BY <3>2, <3>3
  <2> QED  BY <2>1, <2>2
<1>8. CASE pairs = {}
  <2>1. o.pair_count = 0 /\ o.pair_min_ppm = 0 /\ o.pair_max_ppm = 0
    BY <1>1, <1>8, FS_EmptySet
  <2>2. ~ \E i, j \in 1..n : i < j /\ sets[i] = sets[j] /\ sets[i] # {}
    <3> SUFFICES ASSUME NEW i \in 1..n, NEW j \in 1..n, i < j, sets[i] = sets[j],
                        sets[i] # {}
                 PROVE  FALSE
      OBVIOUS
    <3>1. <<i, j>> \in pairs
      BY <1>3
    <3> QED  BY <1>8, <3>1
  <2>3. o.pair_max_ppm # Million
    BY <1>2, <2>1 DEF M
  <2> QED  BY <2>1, <2>2, <2>3, <1>8, <1>6, <1>7
<1>9. CASE pairs # {}
  <2> DEFINE least == Least(ppm)  greatest == Greatest(ppm)
  <2>1. ppm # {} /\ ppm \in SUBSET (0..M)
    <3>1. PICK q \in pairs : TRUE
      BY <1>9
    <3>2. ppm # {}
      BY <1>4, <3>1
    <3>3. \A x \in ppm : x \in 0..M
      BY <1>4, <1>5
    <3> QED  BY <3>2, <3>3
  <2>2. ppm \in SUBSET Nat
    BY <1>2, <2>1
  <2>3. least \in ppm /\ \A x \in ppm : least <= x
    BY <2>1, <2>2, LeastFacts
  <2>4. greatest \in ppm /\ \A x \in ppm : x <= greatest
    BY <1>2, <2>1, GreatestFacts
  <2>5. o.pair_min_ppm = least /\ o.pair_max_ppm = greatest
    BY <1>1, <1>9, Zenon
  <2> HIDE DEF least, greatest
  <2>6. o.intersection # {} => least > 0
    BY <1>4, <1>5, <2>3
  <2>7. least <= greatest
    BY <2>3, <2>4
  <2>8. ASSUME greatest = M
        PROVE  \E i, j \in 1..n : i < j /\ sets[i] = sets[j] /\ sets[i] # {}
    <3>1. PICK q \in pairs : greatest = Jaccard(sets[q[1]], sets[q[2]])
      BY <1>5, <2>4
    <3>2. sets[q[1]] = sets[q[2]]
      BY <1>4, <2>8, <3>1
    <3>3. q[1] \in 1..n /\ q[2] \in 1..n /\ q[1] < q[2] /\ sets[q[1]] \cup sets[q[2]] # {}
      BY <1>3
    <3> QED  BY <3>2, <3>3
  <2>9. ASSUME NEW i \in 1..n, NEW j \in 1..n, i < j, sets[i] = sets[j], sets[i] # {}
        PROVE  greatest = M
    <3> DEFINE q == <<i, j>>
    <3>1. q \in pairs /\ sets[q[1]] = sets[q[2]]
      BY <1>3, <2>9
    <3> HIDE DEF q
    <3>2. M \in ppm
      BY <1>4, <3>1, Zenon
    <3> QED  BY <1>2, <2>1, <2>4, <3>2
  <2> QED  BY <2>5, <2>6, <2>7, <2>8, <2>9, <1>9, <1>6, <1>7 DEF M
<1> QED  BY <1>8, <1>9

-----------------------------------------------------------------------------
(* Bit b of byte i.                                                        *)
LEMMA BitPlace ==
    ASSUME NEW B \in Nat \ {0}, NEW i \in Nat, NEW b \in 0..(B - 1), NEW p, p = i * B + b
    PROVE  /\ p \in Nat /\ p \div B = i /\ p % B = b
           /\ \A n \in Nat : i < n => p <= n * B - 1
<1> DEFINE q == p \div B  r == p % B  x == i * B
<1>1. x \in Nat /\ p = x + b
  OBVIOUS
<1>2. p \in Nat
  <2> HIDE DEF x
  <2> QED  BY <1>1
<1>3. q \in Nat /\ r \in 0..(B - 1) /\ p = B * q + r
  BY <1>2
<1> HIDE DEF q, r
<1>4. B * (i - q) = r - b
  BY <1>1, <1>3
<1>5. i - q = 0
  <2>1. CASE i - q >= 1
    <3>1. B * (i - q) = B + B * (i - q - 1) /\ B * (i - q - 1) >= 0
      BY <1>3, <2>1
    <3> QED  BY <1>3, <1>4, <3>1
  <2>2. CASE i - q <= -1
    <3>1. B * (i - q) = -B - B * (q - i - 1) /\ B * (q - i - 1) >= 0
      BY <1>3, <2>2
    <3> QED  BY <1>3, <1>4, <3>1
  <2> QED  BY <1>3, <2>1, <2>2
<1>6. q = i
  BY <1>3, <1>5
<1>7. B * q = x
  BY <1>6
<1>8. r = b
  <2> DEFINE y == B * q
  <2>1. y = x /\ p = y + r
    BY <1>3, <1>7
  <2> HIDE DEF x, y
  <2> QED  BY <1>1, <1>3, <2>1
<1>9. ASSUME NEW n \in Nat, i < n
      PROVE  p <= n * B - 1
  <2> DEFINE y == n * B  z == (n - i - 1) * B
  <2>1. y = x + B + z /\ z >= 0 /\ y \in Nat /\ z \in Int
    BY <1>9
  <2> HIDE DEF x, y, z
  <2>2. p <= y - 1
    BY <1>1, <2>1
  <2> QED  BY <2>2 DEF y
<1> QED  BY <1>2, <1>6, <1>8, <1>9 DEF q, r

(* The traces of a fault, and what the first n output bytes tell of one.   *)
LEMMA TraceFacts ==
    ASSUME NEW in_cube \in BOOLEAN, NEW t, t \in Traces[in_cube]
    PROVE  /\ t.stages \in [0..LastStage -> Later(in_cube)]
           /\ t.stages[0] = Entry(in_cube)
           /\ t.output \in [0..(ExtendedBytes - 1) -> SUBSET (0..(ByteBits - 1))]
  BY DEF Traces, TracesOf

LEMMA ChangedBitsFacts ==
    ASSUME NEW t, NEW n \in Nat, n <= ExtendedBytes,
           t.output \in [0..(ExtendedBytes - 1) -> SUBSET (0..(ByteBits - 1))]
    PROVE  LET C == ChangedBits(t, n) IN
           /\ Cardinality(C) \in Nat
           /\ Cardinality(C) = 0 <=> \A i \in 0..(n - 1) : t.output[i] = {}
<1> DEFINE C == ChangedBits(t, n)
           B == ByteBits
           m == n * B - 1
<1>1. B \in Nat \ {0} /\ ExtendedBytes \in Nat
  BY StageAssumption
<1>2. C = {p \in 0..m : (p % B) \in t.output[p \div B]}
  BY DEF ChangedBits
<1>3. m \in Int
  BY <1>1
<1>4. C \in SUBSET (0..m)
  BY <1>2
<1>5. ASSUME NEW p \in C
      PROVE  \E i \in 0..(n - 1) : t.output[i] # {}
  <2> DEFINE q == p \div B  r == p % B
  <2>1. p \in Nat /\ p <= m /\ r \in t.output[q]
    <3> HIDE DEF C
    <3>1. p \in 0..m /\ (p % B) \in t.output[p \div B]
      BY <1>2
    <3> HIDE DEF m
    <3> QED  BY <1>3, <3>1
  <2>2. p < B * n
    <3>1. B * n = n * B /\ n * B \in Nat
      BY <1>1
    <3> DEFINE x == n * B
    <3> HIDE DEF x
    <3>2. x \in Nat /\ p <= x - 1 /\ B * n = x
      BY <2>1, <3>1 DEF x
    <3> QED  BY <2>1, <3>2
  <2>3. q \in Nat /\ q < n
    BY <1>1, <2>1, <2>2, DivFacts
  <2> HIDE DEF q, r
  <2> QED  BY <2>1, <2>3
<1>6. ASSUME NEW i \in 0..(n - 1), t.output[i] # {}
      PROVE  C # {}
  <2>1. PICK b \in t.output[i] : TRUE
    BY <1>6
  <2>2. i \in Nat /\ i < n /\ i \in 0..(ExtendedBytes - 1)
    BY <1>1
  <2>3. b \in 0..(B - 1)
    BY <2>1, <2>2
  <2> DEFINE p == i * B + b
  <2>4. p \in Nat /\ p \div B = i /\ p % B = b /\ p <= m
    <3>1. p = i * B + b
      OBVIOUS
    <3> HIDE DEF p
    <3> QED  BY <1>1, <2>2, <2>3, <3>1, BitPlace
  <2> HIDE DEF p, m
  <2>5. p \in C
    BY <1>2, <1>3, <2>1, <2>4
  <2> QED  BY <2>5
<1> HIDE DEF C, m
<1>7. IsFiniteSet(C)
  <2> DEFINE I == 0..m
  <2>1. IsFiniteSet(I) /\ C \in SUBSET I
    BY <1>3, <1>4, FS_Interval
  <2> HIDE DEF I
  <2> QED  BY <2>1, FS_Subset
<1>8. Cardinality(C) \in Nat /\ (Cardinality(C) = 0 <=> C = {})
  BY <1>7, FS_CardinalityType, FS_EmptySet
<1>9. C = {} <=> \A i \in 0..(n - 1) : t.output[i] = {}
  BY <1>5, <1>6
<1> QED  BY <1>8, <1>9 DEF C

(* FirstOf is the first element, or NoIndex.                               *)
LEMMA FirstFacts ==
    ASSUME NEW n \in Nat, n < NoIndex, NEW S \in SUBSET (0..n)
    PROVE  /\ FirstOf(S) \in Nat
           /\ FirstOf(S) = NoIndex <=> S = {}
           /\ S # {} => FirstOf(S) \in S
           /\ \A m \in S : FirstOf(S) <= m
<1>1. NoIndex \in Nat
  BY StageAssumption
<1>2. CASE S = {}
  BY <1>1, <1>2 DEF FirstOf
<1>3. CASE S # {}
  <2>1. S \in SUBSET Nat
    OBVIOUS
  <2>2. Least(S) \in S /\ \A m \in S : Least(S) <= m
    BY <1>3, <2>1, LeastFacts
  <2>3. FirstOf(S) = Least(S)
    BY <1>3 DEF FirstOf
  <2> DEFINE x == Least(S)
  <2> HIDE DEF x
  <2>4. FirstOf(S) = x /\ x \in S /\ \A m \in S : x <= m
    BY <2>2, <2>3 DEF x
  <2> QED  BY <1>1, <1>3, <2>4
<1> QED  BY <1>2, <1>3

LEMMA StageFacts ==
    /\ SqueezeStage \in Nat /\ SqueezeStage >= 2 /\ ExtendedBytes \in Nat
    /\ ExtendedBytes >= 1 /\ CanonicalBytes \in Nat /\ CanonicalBytes >= 1
    /\ CanonicalBytes <= ExtendedBytes /\ NoIndex \in Nat
    /\ LastStage \in Nat /\ LastStage = SqueezeStage + ExtendedBytes
    /\ LastStage < NoIndex /\ ExtendedBytes < NoIndex
<1> DEFINE x == ExtendedBytes * ByteBits
<1>1. /\ BindingBytes \in Nat /\ ExtendedBytes \in Nat /\ ByteBits \in Nat \ {0}
      /\ CanonicalBytes \in 1..ExtendedBytes /\ NoIndex \in Nat /\ NoIndex > 2 + BindingBytes + x
  BY StageAssumption
<1>2. x \in Nat /\ x >= ExtendedBytes
  <2>1. x = ExtendedBytes + ExtendedBytes * (ByteBits - 1) /\ ExtendedBytes * (ByteBits - 1) >= 0
    BY <1>1
  <2>2. x \in Nat
    BY <1>1
  <2> HIDE DEF x
  <2> QED  BY <1>1, <2>1, <2>2
<1> HIDE DEF x
<1> QED  BY <1>1, <1>2 DEF SqueezeStage, LastStage

(* A stage has one controller counter.                                     *)
LEMMA ControllerCounterFacts ==
    ASSUME NEW s \in Nat
    PROVE  /\ controller_counter(s) \in ControllerCounters
           /\ s = 0 => controller_counter(s) = "squeeze"
           /\ s > SqueezeStage => controller_counter(s) \in {"squeeze", "never"}
<1>1. SqueezeStage \in Nat /\ SqueezeStage >= 2 /\ NoIndex \in Nat /\ NoIndex > SqueezeStage
  BY StageFacts
<1>2. CASE s = 1
  <2>1. controller_counter(s) = "finalization_entry"
    BY <1>1, <1>2 DEF controller_counter
  <2> QED  BY <1>1, <1>2, <2>1 DEF ControllerCounters
<1>3. CASE s \in 2..(SqueezeStage - 1)
  <2>1. controller_counter(s) = "binding"
    BY <1>1, <1>3 DEF controller_counter
  <2> QED  BY <1>1, <1>3, <2>1 DEF ControllerCounters
<1>4. CASE s = SqueezeStage
  <2>1. controller_counter(s) = "squeeze_entry"
    BY <1>1, <1>4 DEF controller_counter
  <2> QED  BY <1>1, <1>4, <2>1 DEF ControllerCounters
<1>5. CASE s = NoIndex
  <2>1. controller_counter(s) = "never"
    BY <1>1, <1>5 DEF controller_counter
  <2> QED  BY <1>1, <1>5, <2>1 DEF ControllerCounters
<1>6. CASE s # 1 /\ s \notin 2..(SqueezeStage - 1) /\ s # SqueezeStage /\ s # NoIndex
  <2>1. controller_counter(s) = "squeeze"
    BY <1>6 DEF controller_counter
  <2> QED  BY <2>1 DEF ControllerCounters
<1> QED  BY <1>2, <1>3, <1>4, <1>5, <1>6

(* What a retained record says of its fault.                               *)
LEMMA RecordFacts ==
    ASSUME NEW in_cube \in BOOLEAN, NEW n \in Nat, n >= 1, n <= CanonicalBytes,
           NEW r, r \in Retained(in_cube, n)
    PROVE  /\ r.in_cube = in_cube
           /\ r.prefix_distance = 0 =>
                 /\ r.first_changed_byte = NoIndex <=> r.extended_distance = 0
                 /\ r.first_changed_byte # NoIndex => r.first_changed_byte >= n
           /\ r.prefix_distance # 0 =>
                 /\ r.first_changed_byte # NoIndex /\ ~ (r.first_changed_byte >= n)
                 /\ r.full_distance # 0 /\ r.extended_distance # 0
           /\ r.extended_distance = 0 => r.full_distance = 0
           /\ controller_counter(r.first_controller_stage) \in ControllerCounters
           /\ ~ r.in_cube => controller_counter(r.first_controller_stage) = "squeeze"
           /\ r.single_bit_until_first_output =>
                 controller_counter(r.first_controller_stage) \in {"squeeze", "never"}
<1> DEFINE E == ExtendedBytes
<1>1. PICK t : t \in Traces[in_cube] /\ r = Record(t, in_cube, n)
  BY DEF Retained
<1> DEFINE S == {i \in DOMAIN t.output : t.output[i] # {}}
           first == FirstOf(S)
           G == {s \in DOMAIN t.stages : t.stages[s].controller # 0}
           stage == FirstOf(G)
           byte == IF first = NoIndex THEN E - 1 ELSE first
           prefix == Cardinality(ChangedBits(t, n))
           full == Cardinality(ChangedBits(t, CanonicalBytes))
           extended == Cardinality(ChangedBits(t, E))
           single == \A s \in 0..(SqueezeStage + byte) : Total(t.stages[s]) = 1
<1>2. /\ t.stages \in [0..LastStage -> Later(in_cube)] /\ t.stages[0] = Entry(in_cube)
      /\ t.output \in [0..(E - 1) -> SUBSET (0..(ByteBits - 1))]
  BY <1>1, TraceFacts
<1>3. /\ r.in_cube = in_cube /\ r.prefix_distance = prefix /\ r.full_distance = full
      /\ r.extended_distance = extended /\ r.first_changed_byte = first
      /\ r.first_controller_stage = stage /\ r.single_bit_until_first_output = single
  BY <1>1, Zenon DEF Record, first_changed_byte, first_controller_stage,
                     remains_single_bit_until_output
<1>4. /\ E \in Nat /\ E >= 1 /\ CanonicalBytes \in Nat /\ CanonicalBytes <= E
      /\ NoIndex \in Nat /\ E - 1 \in Nat /\ E - 1 < NoIndex
      /\ LastStage \in Nat /\ LastStage < NoIndex /\ LastStage = SqueezeStage + E
      /\ SqueezeStage \in Nat /\ SqueezeStage >= 2
  BY StageFacts
<1>5. S \in SUBSET (0..(E - 1)) /\ \A i \in 0..(E - 1) : i \in S <=> t.output[i] # {}
  BY <1>2
<1>6. /\ prefix \in Nat /\ (prefix = 0 <=> \A i \in 0..(n - 1) : t.output[i] = {})
      /\ full \in Nat /\ (full = 0 <=> \A i \in 0..(CanonicalBytes - 1) : t.output[i] = {})
      /\ extended \in Nat /\ (extended = 0 <=> \A i \in 0..(E - 1) : t.output[i] = {})
  <2>1. n <= E /\ E <= E
    BY <1>4
  <2> QED  BY <1>2, <1>4, <2>1, ChangedBitsFacts
<1>7. G \in SUBSET (0..LastStage) /\ \A s \in 0..LastStage : s \in G <=> t.stages[s].controller # 0
  BY <1>2
<1> HIDE DEF S, G, prefix, full, extended, E
<1>8. /\ first \in Nat /\ (first = NoIndex <=> S = {}) /\ (S # {} => first \in S)
      /\ \A m \in S : first <= m
  <2> DEFINE m == E - 1
  <2> HIDE DEF m
  <2>1. m \in Nat /\ m < NoIndex /\ S \in SUBSET (0..m)
    BY <1>4, <1>5 DEF m
  <2> QED  BY <2>1, FirstFacts
<1>9. /\ stage \in Nat /\ (stage = NoIndex <=> G = {}) /\ (G # {} => stage \in G)
      /\ \A m \in G : stage <= m
  BY <1>4, <1>7, FirstFacts
<1> HIDE DEF first, stage
<1>10. first = NoIndex <=> extended = 0
  BY <1>5, <1>6, <1>8
<1>11. first # NoIndex => first \in 0..(E - 1) /\ t.output[first] # {}
  BY <1>5, <1>8
<1>12. prefix = 0 => (first # NoIndex => first >= n)
  BY <1>4, <1>6, <1>8, <1>11
<1>13. ASSUME prefix # 0
       PROVE  first # NoIndex /\ first < n /\ full # 0 /\ extended # 0
  <2>1. PICK i \in 0..(n - 1) : t.output[i] # {}
    BY <1>6, <1>13
  <2>2. i \in 0..(CanonicalBytes - 1) /\ i \in 0..(E - 1) /\ i \in Nat /\ i < n
    BY <1>4
  <2>3. full # 0 /\ extended # 0 /\ i \in S
    BY <1>5, <1>6, <2>1, <2>2
  <2>4. first <= i
    BY <1>8, <2>3
  <2> QED  BY <1>8, <1>10, <2>2, <2>3, <2>4
<1>14. extended = 0 => full = 0
  <2>1. \A i \in 0..(CanonicalBytes - 1) : i \in 0..(E - 1)
    BY <1>4
  <2> QED  BY <1>6, <2>1
<1>15. ~ in_cube => stage = 0
  <2> SUFFICES ASSUME ~ in_cube PROVE stage = 0
    OBVIOUS
  <2>1. t.stages[0].controller = 1
    BY <1>2 DEF Entry, Distance
  <2>2. 0 \in G
    BY <1>4, <1>7, <2>1
  <2> QED  BY <1>9, <2>2
<1>16. single /\ in_cube => stage > SqueezeStage
  <2> SUFFICES ASSUME single, in_cube PROVE stage > SqueezeStage
    OBVIOUS
  <2>1. byte \in Nat /\ byte <= E - 1
    BY <1>4, <1>8, <1>11
  <2> HIDE DEF byte
  <2>2. ASSUME NEW s \in 0..SqueezeStage
        PROVE  s \notin G
    <3>1. s \in 0..(SqueezeStage + byte) /\ s \in 0..LastStage
      BY <1>4, <2>1
    <3>2. Total(t.stages[s]) = 1 /\ t.stages[s] \in Later(TRUE)
      BY <1>2, <3>1
    <3>3. t.stages[s].controller = 0
      BY <3>2 DEF Later, Distance, Total
    <3> QED  BY <1>7, <3>1, <3>3
  <2>3. CASE G = {}
    BY <1>4, <1>9, <2>3, StageFacts
  <2>4. CASE G # {}
    BY <1>4, <1>9, <2>2, <2>4
  <2> QED  BY <2>3, <2>4
<1>17. /\ controller_counter(stage) \in ControllerCounters
       /\ stage = 0 => controller_counter(stage) = "squeeze"
       /\ stage > SqueezeStage => controller_counter(stage) \in {"squeeze", "never"}
  BY <1>9, ControllerCounterFacts
<1> HIDE DEF single
<1>18. single => controller_counter(stage) \in {"squeeze", "never"}
  BY <1>15, <1>16, <1>17
<1>19. prefix # 0 => ~ (first >= n)
  BY <1>8, <1>13
<1> QED  BY <1>3, <1>10, <1>12, <1>13, <1>14, <1>15, <1>17, <1>18, <1>19

-----------------------------------------------------------------------------
(* What an aggregate counts.                                               *)
LEMMA IncreasedFacts ==
    ASSUME NEW r, NEW n, NEW k, k = controller_counter(r.first_controller_stage),
           k \in ControllerCounters, NEW I, I = Increased(r, n)
    PROVE  /\ "count" \in I
           /\ "full_unchanged" \in I <=> r.full_distance = 0
           /\ "extended_unchanged" \in I <=> r.extended_distance = 0
           /\ "no_change_in_extended" \in I <=> r.first_changed_byte = NoIndex
           /\ "first_change_after_prefix" \in I <=>
                 r.first_changed_byte # NoIndex /\ r.first_changed_byte >= n
           /\ "single_bit_until_first_output" \in I <=> r.single_bit_until_first_output
           /\ "non_cube" \in I <=> ~ r.in_cube
           /\ \A c \in ControllerCounters : c \in I <=> c = k
<1>1. k \in {"finalization_entry", "binding", "squeeze_entry", "squeeze", "never"}
  BY DEF ControllerCounters
<1>2. \A c : c \in I <=>
         \/ c = "count" \/ c = k
         \/ c = "full_unchanged" /\ r.full_distance = 0
         \/ c = "full_one_bit" /\ r.full_distance = 1
         \/ c = "extended_unchanged" /\ r.extended_distance = 0
         \/ c = "extended_one_bit" /\ r.extended_distance = 1
         \/ c = "no_change_in_extended" /\ r.first_changed_byte = NoIndex
         \/ c = "first_change_after_prefix"
              /\ r.first_changed_byte # NoIndex /\ r.first_changed_byte >= n
         \/ c = "single_bit_until_first_output" /\ r.single_bit_until_first_output
         \/ c = "non_cube" /\ ~ r.in_cube
  BY DEF Increased, When
<1>3. \A c \in ControllerCounters : c \in I <=> c = k
  BY <1>1, <1>2 DEF ControllerCounters
<1> QED  BY <1>1, <1>2, <1>3

Controllers(a) == a["finalization_entry"] + a["binding"] + a["squeeze_entry"]
                    + a["squeeze"] + a["never"]

(* What is common to the two aggregates, and what is their own.            *)
AggregateInv(a) == /\ a \in [Counters -> Nat]
                   /\ a["extended_unchanged"] <= a["full_unchanged"]
                   /\ Controllers(a) = a["count"]
                   /\ a["non_cube"] <= a["squeeze"]
                   /\ a["single_bit_until_first_output"] <= a["squeeze"] + a["never"]
SilentInv(a) == /\ AggregateInv(a)
                /\ a["count"] = a["first_change_after_prefix"] + a["no_change_in_extended"]
                /\ a["extended_unchanged"] = a["no_change_in_extended"]
OneBitInv(a) == /\ AggregateInv(a)
                /\ a["first_change_after_prefix"] = 0 /\ a["full_unchanged"] = 0
                /\ a["extended_unchanged"] = 0

LEMMA AggregateStarts == SilentInv(NoAggregate) /\ OneBitInv(NoAggregate)
<1>1. NoAggregate \in [Counters -> Nat] /\ \A c \in Counters : NoAggregate[c] = 0
  BY DEF NoAggregate
<1>2. /\ {"count", "full_unchanged", "extended_unchanged", "first_change_after_prefix",
          "no_change_in_extended", "single_bit_until_first_output", "non_cube"}
            \subseteq Counters
      /\ {"finalization_entry", "binding", "squeeze_entry", "squeeze", "never"}
            \subseteq Counters
  BY DEF Counters, ControllerCounters
<1> QED  BY <1>1, <1>2 DEF SilentInv, OneBitInv, AggregateInv, Controllers

LEMMA ObserveDiagnostic ==
    ASSUME NEW in_cube \in BOOLEAN, NEW n \in Nat, n >= 1, n <= CanonicalBytes,
           NEW r, r \in Retained(in_cube, n), NEW a, NEW b, b = observe_diagnostic(a, r, n)
    PROVE  /\ SilentInv(a) /\ r.prefix_distance = 0 => SilentInv(b)
           /\ OneBitInv(a) /\ r.prefix_distance # 0 => OneBitInv(b)
<1> DEFINE I == Increased(r, n)
           k == controller_counter(r.first_controller_stage)
<1>1. /\ r.prefix_distance = 0 =>
            /\ r.first_changed_byte = NoIndex <=> r.extended_distance = 0
            /\ r.first_changed_byte # NoIndex => r.first_changed_byte >= n
      /\ r.prefix_distance # 0 =>
            /\ r.first_changed_byte # NoIndex /\ ~ (r.first_changed_byte >= n)
            /\ r.full_distance # 0 /\ r.extended_distance # 0
      /\ r.extended_distance = 0 => r.full_distance = 0
      /\ k \in ControllerCounters
      /\ ~ r.in_cube => k = "squeeze"
      /\ r.single_bit_until_first_output => k \in {"squeeze", "never"}
  BY RecordFacts
<1>2. /\ "count" \in I
      /\ "full_unchanged" \in I <=> r.full_distance = 0
      /\ "extended_unchanged" \in I <=> r.extended_distance = 0
      /\ "no_change_in_extended" \in I <=> r.first_changed_byte = NoIndex
      /\ "first_change_after_prefix" \in I <=>
            r.first_changed_byte # NoIndex /\ r.first_changed_byte >= n
      /\ "single_bit_until_first_output" \in I <=> r.single_bit_until_first_output
      /\ "non_cube" \in I <=> ~ r.in_cube
      /\ \A c \in ControllerCounters : c \in I <=> c = k
  BY <1>1, IncreasedFacts
<1>3. b = [c \in Counters |-> a[c] + (IF c \in I THEN 1 ELSE 0)]
  BY DEF observe_diagnostic
<1> HIDE DEF I, k
<1>4. ASSUME a \in [Counters -> Nat]
      PROVE  /\ b \in [Counters -> Nat]
             /\ \A c \in Counters : /\ a[c] \in Nat
                                    /\ c \in I => b[c] = a[c] + 1
                                    /\ c \notin I => b[c] = a[c]
  BY <1>3, <1>4
<1>5. /\ {"count", "full_unchanged", "extended_unchanged", "first_change_after_prefix",
          "no_change_in_extended", "single_bit_until_first_output", "non_cube"}
            \subseteq Counters
      /\ ControllerCounters \subseteq Counters
      /\ ControllerCounters
            = {"finalization_entry", "binding", "squeeze_entry", "squeeze", "never"}
  BY DEF Counters, ControllerCounters
<1>6. ASSUME AggregateInv(a)
      PROVE  AggregateInv(b)
  <2>1. a \in [Counters -> Nat]
    BY <1>6 DEF AggregateInv
  <2>2. b["extended_unchanged"] <= b["full_unchanged"]
    BY <1>1, <1>2, <1>4, <1>5, <1>6, <2>1 DEF AggregateInv
  <2>3. Controllers(b) = Controllers(a) + 1
    <3>1. \A c \in ControllerCounters : /\ a[c] \in Nat
                                        /\ b[c] = IF c = k THEN a[c] + 1 ELSE a[c]
      BY <1>2, <1>4, <1>5, <2>1
    <3> QED  BY <1>1, <1>5, <3>1 DEF Controllers
  <2>4. b["count"] = a["count"] + 1
    BY <1>2, <1>4, <1>5, <2>1
  <2>5. b["non_cube"] <= b["squeeze"]
    BY <1>1, <1>2, <1>4, <1>5, <1>6, <2>1 DEF AggregateInv
  <2>6. b["single_bit_until_first_output"] <= b["squeeze"] + b["never"]
    BY <1>1, <1>2, <1>4, <1>5, <1>6, <2>1 DEF AggregateInv
  <2> QED  BY <1>4, <1>6, <2>1, <2>2, <2>3, <2>4, <2>5, <2>6 DEF AggregateInv
<1>7. ASSUME SilentInv(a), r.prefix_distance = 0
      PROVE  SilentInv(b)
  <2>1. AggregateInv(b) /\ a \in [Counters -> Nat]
    BY <1>6, <1>7 DEF SilentInv, AggregateInv
  <2> QED  BY <1>1, <1>2, <1>4, <1>5, <1>7, <2>1 DEF SilentInv
<1>8. ASSUME OneBitInv(a), r.prefix_distance # 0
      PROVE  OneBitInv(b)
  <2>1. AggregateInv(b) /\ a \in [Counters -> Nat]
    BY <1>6, <1>8 DEF OneBitInv, AggregateInv
  <2> QED  BY <1>1, <1>2, <1>4, <1>5, <1>8, <2>1 DEF OneBitInv
<1> QED  BY <1>7, <1>8

-----------------------------------------------------------------------------
(* The inductive invariant of the state tests.                             *)
RegionSum(u) == u[1] + u[2] + u[3] + u[4] + u[5]

LocalInv ==
    /\ unchanged_by_region \in [1..5 -> Nat]
    /\ mode = "--localize" /\ (step > Len(Tests(mode)) \/ Test \notin PacketTests) =>
          /\ candidates \in Seq(Nat \X Nat) /\ Len(candidates) = stats.one_bit
          /\ RegionSum(unchanged_by_region) = stats.unchanged

ReplicaInv ==
    mode = "--replicate" =>
        /\ candidates \in Seq(Nat \X Nat \X Nat) /\ Len(candidates) = stats.one_bit
        /\ IsFiniteSet(count.cases_with_one_bit)
        /\ Cardinality(count.cases_with_one_bit) <= stats.one_bit
        /\ count.cases_with_unchanged = {} <=> stats.unchanged = 0

FamilyInv ==
    step <= Len(Tests(mode)) /\ Test \in Families =>
        candidates \in Seq([unchanged : SUBSET CubeBits, one_bit : SUBSET CubeBits])

DiagnosisInv == SilentInv(silent) /\ OneBitInv(one_bit)

StateInv == CampaignInv /\ LocalInv /\ ReplicaInv /\ FamilyInv /\ DiagnosisInv

LEMMA StateBitFacts ==
    ASSUME item \in Nat
    PROVE  StateBit \in Nat /\ state_region(StateBit) \in 1..5
<1> DEFINE b == Cardinality(StateBits)
           R == {r \in 1..5 : StateBit < RegionEnd[r]}
<1>1. b \in Nat \ {0} /\ b = RegionEnd[5]
  BY StateBitsFacts
<1>2. StateBit = item % b
  BY DEF StateBit
<1> HIDE DEF b
<1>3. StateBit \in 0..(b - 1)
  BY <1>1, <1>2, DivFacts
<1>4. StateBit \in Nat /\ StateBit < RegionEnd[5]
  BY <1>1, <1>3
<1>5. R \in SUBSET Nat /\ 5 \in R /\ R \subseteq 1..5
  BY <1>4
<1> HIDE DEF R
<1>6. Least(R) \in R
  BY <1>5, LeastFacts
<1>7. state_region(StateBit) = Least(R)
  BY Zenon DEF state_region, R
<1> QED  BY <1>4, <1>5, <1>6, <1>7

LEMMA RegionCounted ==
    ASSUME NEW u \in [1..5 -> Nat], NEW r \in 1..5, NEW v, v = [u EXCEPT ![r] = @ + 1]
    PROVE  v \in [1..5 -> Nat] /\ RegionSum(v) = RegionSum(u) + 1
<1>1. /\ v \in [1..5 -> Nat] /\ \A i \in 1..5 : v[i] = IF i = r THEN u[i] + 1 ELSE u[i]
  OBVIOUS
<1>2. \A i \in 1..5 : u[i] \in Nat
  OBVIOUS
<1>3. r = 1 \/ r = 2 \/ r = 3 \/ r = 4 \/ r = 5
  OBVIOUS
<1>4. /\ v[1] = (IF 1 = r THEN u[1] + 1 ELSE u[1]) /\ u[1] \in Nat
      /\ v[2] = (IF 2 = r THEN u[2] + 1 ELSE u[2]) /\ u[2] \in Nat
      /\ v[3] = (IF 3 = r THEN u[3] + 1 ELSE u[3]) /\ u[3] \in Nat
      /\ v[4] = (IF 4 = r THEN u[4] + 1 ELSE u[4]) /\ u[4] \in Nat
      /\ v[5] = (IF 5 = r THEN u[5] + 1 ELSE u[5]) /\ u[5] \in Nat
  BY <1>1, <1>2
<1>5. RegionSum(v) = RegionSum(u) + 1
  BY <1>3, <1>4 DEF RegionSum
<1> QED  BY <1>1, <1>5

(* A change of one bit has a first bit.                                    *)
LEMMA FirstChanged ==
    ASSUME NEW n \in Nat, NEW changed \in Changes(n), Cardinality(changed) = 1
    PROVE  FirstOf(changed) \in Nat
<1>1. changed \in SUBSET Nat /\ changed # {}
  BY ChangeFacts, StageAssumption
<1>2. Least(changed) \in changed
  BY <1>1, LeastFacts
<1> QED  BY <1>1, <1>2 DEF FirstOf

LEMMA LocalizePreserves ==
    ASSUME CampaignInv, LocalInv, NEW n \in Nat, NEW changed \in Changes(n),
           stats' = observe(stats, Cardinality(changed)), localize_state_fault(changed),
           mode' = mode, step' = step
    PROVE  LocalInv'
<1> DEFINE d == Cardinality(changed)
           r == state_region(StateBit)
           u == unchanged_by_region
           f == FirstOf(changed)
<1>1. d \in Nat /\ (d = 1 => f \in Nat)
  BY ChangeFacts, FirstChanged
<1>2. StateBit \in Nat /\ r \in 1..5
  BY StateBitFacts DEF CampaignInv, LoopInv
<1>3. /\ candidates' = IF d = 1 /\ mode = "--localize"
                       THEN Append(candidates, <<StateBit, f>>) ELSE candidates
      /\ u' = IF d = 0 /\ mode = "--localize" THEN [u EXCEPT ![r] = @ + 1] ELSE u
  BY DEF localize_state_fault
<1>4. /\ stats'.one_bit = stats.one_bit + (IF d = 1 THEN 1 ELSE 0)
      /\ stats'.unchanged = stats.unchanged + (IF d = 0 THEN 1 ELSE 0)
      /\ stats.one_bit \in Nat /\ stats.unchanged \in Nat
  BY DEF observe, CampaignInv, CountInv, StatsType
<1>5. u \in [1..5 -> Nat]
  BY DEF LocalInv
<1>6. Test' = Test
  BY DEF Test
<1> DEFINE v == [u EXCEPT ![r] = @ + 1]
<1>7. v \in [1..5 -> Nat] /\ RegionSum(v) = RegionSum(u) + 1
  <2> HIDE DEF r, u
  <2> QED  BY <1>2, <1>5, RegionCounted
<1>8. u' \in [1..5 -> Nat]
  BY <1>3, <1>5, <1>7
<1>9. ASSUME mode = "--localize", step > Len(Tests(mode)) \/ Test \notin PacketTests
      PROVE  /\ candidates' \in Seq(Nat \X Nat) /\ Len(candidates') = stats'.one_bit
             /\ RegionSum(u') = stats'.unchanged
  <2>1. /\ candidates \in Seq(Nat \X Nat) /\ Len(candidates) = stats.one_bit
        /\ RegionSum(u) = stats.unchanged
    BY <1>9 DEF LocalInv
  <2>2. candidates' \in Seq(Nat \X Nat) /\ Len(candidates') = stats'.one_bit
    <3> HIDE DEF d, f
    <3>1. CASE d = 1
      <4> DEFINE e == <<StateBit, f>>
      <4>1. e \in Nat \X Nat
        BY <1>1, <1>2, <3>1
      <4>2. candidates' = Append(candidates, e)
        BY <1>3, <1>9, <3>1
      <4> HIDE DEF e
      <4> QED  BY <1>4, <2>1, <3>1, <4>1, <4>2
    <3>2. CASE d # 1
      BY <1>3, <1>4, <2>1, <3>2
    <3> QED  BY <3>1, <3>2
  <2>3. RegionSum(u') = stats'.unchanged
    <3> HIDE DEF d, u
    <3>1. CASE d = 0
      <4>1. u' = v
        BY <1>3, <1>9, <3>1
      <4>2. stats'.unchanged = stats.unchanged + 1
        BY <1>4, <3>1
      <4> HIDE DEF v
      <4>3. RegionSum(u') = RegionSum(v)
        BY <4>1 DEF RegionSum
      <4> QED  BY <1>7, <2>1, <4>2, <4>3
    <3>2. CASE d # 0
      <4>1. u' = u /\ stats'.unchanged = stats.unchanged
        BY <1>3, <1>4, <3>2
      <4> QED  BY <2>1, <4>1 DEF RegionSum
    <3> QED  BY <3>1, <3>2
  <2> QED  BY <2>2, <2>3
<1> QED  BY <1>6, <1>8, <1>9 DEF LocalInv, RegionSum

(* Which tests a mode runs.                                                *)
LEMMA ModeFacts ==
    ASSUME LoopInv, step <= Len(Tests(mode))
    PROVE  /\ mode = "--localize" => Test \in PacketTests \cup {"stream_state", "mac_state"}
           /\ mode = "--replicate" => Test = "replication"
<1>1. mode \in Modes /\ step \in Nat \ {0} /\ Len(Tests(mode)) \in Nat
  BY TestsLength DEF LoopInv
<1>2. step \in 1..Len(Tests(mode))
  BY <1>1
<1> QED  BY <1>1, <1>2, TestsFacts DEF Test

LEMMA ReplicationPreserves ==
    ASSUME CampaignInv, ReplicaInv, test_c1_mac_state_replication
    PROVE  ReplicaInv'
<1> DEFINE number == item \div Cardinality(StateBits)
           n == TagBytes(profile)
<1>1. PICK changed \in Changes(n) :
          /\ stats' = observe(stats, Cardinality(changed))
          /\ candidates' = IF Cardinality(changed) = 1
                           THEN Append(candidates, <<number, StateBit, FirstOf(changed)>>)
                           ELSE candidates
          /\ count' = [count EXCEPT
                !.cases_with_unchanged = @ \cup When(Cardinality(changed) = 0, number),
                !.cases_with_one_bit   = @ \cup When(Cardinality(changed) = 1, number)]
  BY DEF test_c1_mac_state_replication
<1> DEFINE d == Cardinality(changed)
           f == FirstOf(changed)
           U == When(d = 0, number)
           V == When(d = 1, number)
           W == count.cases_with_one_bit
           X == count.cases_with_unchanged
<1>2. mode' = mode
  BY DEF test_c1_mac_state_replication, Running
<1>3. n \in Nat
  BY TagBytesFacts, RankFacts DEF CampaignInv, LoopInv
<1>4. d \in Nat /\ (d = 1 => f \in Nat)
  BY <1>3, ChangeFacts, FirstChanged
<1>5. StateBit \in Nat
  BY StateBitFacts DEF CampaignInv, LoopInv
<1>6. number \in Nat
  BY CaseNumber DEF CampaignInv
<1>7. /\ stats'.one_bit = stats.one_bit + (IF d = 1 THEN 1 ELSE 0)
      /\ stats'.unchanged = stats.unchanged + (IF d = 0 THEN 1 ELSE 0)
      /\ stats.one_bit \in Nat /\ stats.unchanged \in Nat
  BY <1>1 DEF observe, CampaignInv, CountInv, StatsType
<1> HIDE DEF number
<1>8. U \in SUBSET Nat /\ V \in SUBSET Nat
  BY <1>6 DEF When
<1>9. count'.cases_with_unchanged = X \cup U /\ count'.cases_with_one_bit = W \cup V
  <2> HIDE DEF U, V, X, W
  <2>1. count \in CountType
    BY DEF CampaignInv, CountInv
  <2> DEFINE c == [count EXCEPT !.cases_with_unchanged = @ \cup U,
                                !.cases_with_one_bit = @ \cup V]
  <2>2. count' = c
    BY <1>1, Zenon DEF U, V
  <2>3. /\ c.cases_with_unchanged = count.cases_with_unchanged \cup U
        /\ c.cases_with_one_bit = count.cases_with_one_bit \cup V
    <3> DEFINE x == count.cases_with_unchanged \cup U
               y == count.cases_with_one_bit \cup V
    <3>1. c = [count EXCEPT !.cases_with_unchanged = x, !.cases_with_one_bit = y]
      BY <2>1 DEF CountType
    <3> HIDE DEF c, x, y
    <3>2. c.cases_with_unchanged = x /\ c.cases_with_one_bit = y
      BY <2>1, <3>1 DEF CountType
    <3> QED  BY <3>2 DEF x, y
  <2> HIDE DEF c
  <2> QED  BY <2>2, <2>3, Zenon DEF X, W
<1> SUFFICES ASSUME mode = "--replicate"
             PROVE  /\ candidates' \in Seq(Nat \X Nat \X Nat)
                    /\ Len(candidates') = stats'.one_bit
                    /\ IsFiniteSet(W \cup V) /\ Cardinality(W \cup V) <= stats'.one_bit
                    /\ X \cup U = {} <=> stats'.unchanged = 0
  BY <1>2, <1>9 DEF ReplicaInv
<1>10. /\ candidates \in Seq(Nat \X Nat \X Nat) /\ Len(candidates) = stats.one_bit
       /\ IsFiniteSet(W) /\ Cardinality(W) <= stats.one_bit
       /\ X = {} <=> stats.unchanged = 0
  BY DEF ReplicaInv
<1>11. candidates' \in Seq(Nat \X Nat \X Nat) /\ Len(candidates') = stats'.one_bit
  <2>1. CASE d = 1
    <3> DEFINE e == <<number, StateBit, f>>
    <3>1. e \in Nat \X Nat \X Nat
      BY <1>4, <1>5, <1>6, <2>1
    <3>2. candidates' = Append(candidates, e)
      BY <1>1, <2>1
    <3> HIDE DEF e
    <3> QED  BY <1>7, <1>10, <2>1, <3>1, <3>2
  <2>2. CASE d # 1
    BY <1>1, <1>7, <1>10, <2>2
  <2> QED  BY <2>1, <2>2
<1>12. IsFiniteSet(W \cup V) /\ Cardinality(W \cup V) <= stats'.one_bit
  <2> HIDE DEF W
  <2>1. CASE d = 1
    <3>1. V = {number}
      BY <2>1 DEF When
    <3>2. /\ IsFiniteSet(W \cup {number}) /\ Cardinality(W) \in Nat
          /\ Cardinality(W \cup {number})
               = IF number \in W THEN Cardinality(W) ELSE Cardinality(W) + 1
      BY <1>10, FS_AddElement, FS_CardinalityType
    <3> DEFINE Y == W \cup {number}
    <3>3. W \cup V = Y /\ stats'.one_bit = stats.one_bit + 1
      BY <1>7, <2>1, <3>1
    <3>4. IsFiniteSet(Y) /\ Cardinality(Y) <= Cardinality(W) + 1
      BY <3>2
    <3> HIDE DEF V, Y
    <3>5. Cardinality(Y) \in Nat
      BY <3>4, FS_CardinalityType
    <3>6. Cardinality(Y) <= stats'.one_bit
      BY <1>7, <1>10, <3>2, <3>3, <3>4, <3>5
    <3> DEFINE Z == W \cup V
    <3>7. Z = Y
      BY <3>3
    <3> HIDE DEF Z
    <3>8. IsFiniteSet(Z) /\ Cardinality(Z) <= stats'.one_bit
      BY <3>4, <3>6, <3>7, Zenon
    <3> QED  BY <3>8 DEF Z
  <2>2. CASE d # 1
    <3> DEFINE Z == W \cup V
    <3>1. Z = W
      BY <2>2 DEF When
    <3>2. stats'.one_bit = stats.one_bit
      BY <1>7, <2>2
    <3> HIDE DEF Z
    <3>3. IsFiniteSet(Z) /\ Cardinality(Z) <= stats'.one_bit
      BY <1>10, <3>1, <3>2, Zenon
    <3> QED  BY <3>3 DEF Z
  <2> QED  BY <2>1, <2>2
<1>13. X \cup U = {} <=> stats'.unchanged = 0
  <2> HIDE DEF X, d
  <2>1. CASE d = 0
    BY <1>7, <2>1 DEF When
  <2>2. CASE d # 0
    BY <1>7, <1>10, <2>2 DEF When
  <2> QED  BY <2>1, <2>2
<1> QED  BY <1>11, <1>12, <1>13

(* The first state, and the steps of the state tests.                      *)
LEMMA StateInit == Init => StateInv
<1> SUFFICES ASSUME Init PROVE StateInv
  OBVIOUS
<1>1. CampaignInv
  BY CampaignInit
<1>2. LocalInv
  BY DEF Init, LocalInv, NoRegion, RegionSum, NoStats
<1>3. ReplicaInv
  BY FS_EmptySet DEF Init, ReplicaInv, NoCount, NoStats
<1>4. FamilyInv
  BY DEF Init, FamilyInv
<1>5. DiagnosisInv
  BY AggregateStarts DEF Init, DiagnosisInv
<1> QED  BY <1>1, <1>2, <1>3, <1>4, <1>5 DEF StateInv

(* Running a test of a set leaves the other invariants to it.              *)
LEMMA RunningFacts ==
    ASSUME CampaignInv, NEW tests, Running(tests)
    PROVE  /\ Test \in tests /\ Test' = Test /\ mode' = mode /\ step' = step
           /\ mode = "--localize" => Test \in PacketTests \cup {"stream_state", "mac_state"}
           /\ mode = "--replicate" => Test = "replication"
<1>1. /\ step <= Len(Tests(mode)) /\ Test \in tests /\ mode' = mode /\ step' = step
  BY DEF Running
<1>2. Test' = Test
  BY <1>1 DEF Test
<1>3. LoopInv
  BY DEF CampaignInv
<1> QED  BY <1>1, <1>2, <1>3, ModeFacts

LEMMA PacketStep ==
    ASSUME StateInv, InjectPacketFault
    PROVE  StateInv'
<1>1. CampaignInv' /\ CampaignInv
  BY InjectPreserves DEF StateInv
<1>2. Running(PacketTests) /\ UNCHANGED <<silent, one_bit, candidates, unchanged_by_region>>
  BY DEF InjectPacketFault
<1>3. /\ Test \in PacketTests /\ Test' = Test /\ mode' = mode /\ step' = step
      /\ mode = "--replicate" => Test = "replication"
  BY <1>1, <1>2, RunningFacts
<1>4. Test # "replication" /\ Test \notin Families
  BY <1>3 DEF PacketTests, Families
<1>5. ~ (step > Len(Tests(mode)))
  <2>1. mode \in Modes /\ step \in Nat /\ step <= Len(Tests(mode))
    BY <1>1, <1>2 DEF CampaignInv, LoopInv, Running
  <2> QED  BY <2>1, TestsLength
<1>6. LocalInv' /\ ReplicaInv' /\ FamilyInv' /\ DiagnosisInv'
  BY <1>2, <1>3, <1>4, <1>5 DEF StateInv, LocalInv, ReplicaInv, FamilyInv, DiagnosisInv
<1> QED  BY <1>1, <1>6 DEF StateInv

LEMMA LocalStep ==
    ASSUME StateInv, test_c1_stream_state_faults \/ test_c1_mac_state_faults
    PROVE  StateInv'
<1>1. CampaignInv' /\ CampaignInv
  BY StateTestPreserves DEF StateInv
<1>2. /\ Running({"stream_state"}) \/ Running({"mac_state"})
      /\ UNCHANGED <<count, silent, one_bit>>
  BY DEF test_c1_stream_state_faults, test_c1_mac_state_faults
<1>3. /\ Test \in {"stream_state", "mac_state"} /\ Test' = Test /\ mode' = mode
      /\ step' = step
      /\ mode = "--replicate" => Test = "replication"
  BY <1>1, <1>2, RunningFacts
<1>4. Test # "replication" /\ Test \notin Families
  BY <1>3 DEF Families
<1>5. LocalInv'
  <2>1. CanonicalBytes \in Nat /\ TagBytes(profile) \in Nat
    BY <1>1, StageFacts, TagBytesFacts, RankFacts DEF CampaignInv, LoopInv
  <2>2. PICK n \in Nat : \E changed \in Changes(n) :
           stats' = observe(stats, Cardinality(changed)) /\ localize_state_fault(changed)
    BY <2>1 DEF test_c1_stream_state_faults, test_c1_mac_state_faults
  <2>3. PICK changed \in Changes(n) :
           stats' = observe(stats, Cardinality(changed)) /\ localize_state_fault(changed)
    BY <2>2
  <2>4. LocalInv
    BY DEF StateInv
  <2> QED  BY <1>1, <1>3, <2>3, <2>4, LocalizePreserves
<1>6. ReplicaInv' /\ FamilyInv' /\ DiagnosisInv'
  BY <1>2, <1>3, <1>4 DEF StateInv, ReplicaInv, FamilyInv, DiagnosisInv
<1> QED  BY <1>1, <1>5, <1>6 DEF StateInv

LEMMA ReplicationStep ==
    ASSUME StateInv, test_c1_mac_state_replication
    PROVE  StateInv'
<1>1. CampaignInv' /\ CampaignInv
  BY StateTestPreserves DEF StateInv
<1>2. Running({"replication"}) /\ UNCHANGED <<silent, one_bit, unchanged_by_region>>
  BY DEF test_c1_mac_state_replication
<1>3. /\ Test = "replication" /\ Test' = Test /\ mode' = mode
      /\ mode = "--localize" => Test \in PacketTests \cup {"stream_state", "mac_state"}
  BY <1>1, <1>2, RunningFacts
<1>4. mode # "--localize" /\ Test \notin Families
  BY <1>3 DEF PacketTests, Families
<1>5. ReplicaInv'
  BY ReplicationPreserves DEF StateInv
<1>6. LocalInv' /\ FamilyInv' /\ DiagnosisInv'
  BY <1>2, <1>3, <1>4 DEF StateInv, LocalInv, FamilyInv, DiagnosisInv
<1> QED  BY <1>1, <1>5, <1>6 DEF StateInv

LEMMA DiagnosisStep ==
    ASSUME StateInv, test_finalization_diagnosis
    PROVE  StateInv'
<1> DEFINE n == TagBytes(profile)
           in_cube == (state_region(StateBit) = 1)
<1>1. CampaignInv' /\ CampaignInv
  BY StateTestPreserves DEF StateInv
<1>2. /\ Running({"diagnosis"})
      /\ UNCHANGED <<count, stats, candidates, unchanged_by_region>>
  BY DEF test_finalization_diagnosis
<1>3. /\ Test = "diagnosis" /\ Test' = Test /\ mode' = mode
      /\ mode = "--localize" => Test \in PacketTests \cup {"stream_state", "mac_state"}
      /\ mode = "--replicate" => Test = "replication"
  BY <1>1, <1>2, RunningFacts
<1>4. mode # "--localize" /\ mode # "--replicate" /\ Test \notin Families
  BY <1>3 DEF PacketTests, Families
<1>5. LocalInv' /\ ReplicaInv' /\ FamilyInv'
  BY <1>2, <1>3, <1>4 DEF StateInv, LocalInv, ReplicaInv, FamilyInv
<1>6. DiagnosisInv'
  <2>1. profile \in 1..Profiles
    BY <1>1 DEF CampaignInv, LoopInv
  <2>2. n \in Nat /\ n >= 1 /\ n <= CanonicalBytes
    <3>1. n \in TagSizes
      BY <2>1, TagBytesFacts
    <3> HIDE DEF n
    <3> QED  BY <3>1, TagSizeAssumption, BlockSizeAssumption, PacketAssumption
  <2>3. in_cube \in BOOLEAN /\ Findings[profile][in_cube] = Retained(in_cube, n)
    BY <2>1 DEF Findings
  <2>4. SilentInv(silent) /\ OneBitInv(one_bit)
    BY DEF StateInv, DiagnosisInv
  <2> HIDE DEF in_cube, n
  <2>5. \/ silent' = silent /\ one_bit' = one_bit
        \/ \E r \in Retained(in_cube, n) :
              \/ /\ r.prefix_distance = 0 /\ one_bit' = one_bit
                 /\ silent' = observe_diagnostic(silent, r, n)
              \/ /\ r.prefix_distance # 0 /\ silent' = silent
                 /\ one_bit' = observe_diagnostic(one_bit, r, n)
    BY <2>3 DEF test_finalization_diagnosis, in_cube, n
  <2>6. CASE silent' = silent /\ one_bit' = one_bit
    BY <2>4, <2>6 DEF DiagnosisInv
  <2>7. ASSUME NEW r \in Retained(in_cube, n), r.prefix_distance = 0, one_bit' = one_bit,
               silent' = observe_diagnostic(silent, r, n)
        PROVE  DiagnosisInv'
    <3>1. SilentInv(silent')
      BY <2>2, <2>3, <2>4, <2>7, ObserveDiagnostic
    <3> QED  BY <2>4, <2>7, <3>1 DEF DiagnosisInv
  <2>8. ASSUME NEW r \in Retained(in_cube, n), r.prefix_distance # 0, silent' = silent,
               one_bit' = observe_diagnostic(one_bit, r, n)
        PROVE  DiagnosisInv'
    <3>1. OneBitInv(one_bit')
      BY <2>2, <2>3, <2>4, <2>8, ObserveDiagnostic
    <3> QED  BY <2>4, <2>8, <3>1 DEF DiagnosisInv
  <2> QED  BY <2>5, <2>6, <2>7, <2>8
<1> QED  BY <1>1, <1>5, <1>6 DEF StateInv

LEMMA FamilyStep ==
    ASSUME StateInv, test_fault_dependency_families
    PROVE  StateInv'
<1> DEFINE T == [unchanged : SUBSET CubeBits, one_bit : SUBSET CubeBits]
<1>1. CampaignInv' /\ CampaignInv
  BY StateTestPreserves DEF StateInv
<1>2. /\ Running(Families) /\ UNCHANGED <<count, stats, silent, one_bit, unchanged_by_region>>
      /\ \E faults \in classify_cube_faults : candidates' = Append(candidates, faults)
  BY DEF test_fault_dependency_families
<1>3. /\ Test \in Families /\ Test' = Test /\ mode' = mode
      /\ mode = "--localize" => Test \in PacketTests \cup {"stream_state", "mac_state"}
      /\ mode = "--replicate" => Test = "replication"
  BY <1>1, <1>2, RunningFacts
<1>4. mode # "--localize" /\ mode # "--replicate"
  BY <1>3 DEF PacketTests, Families
<1>5. LocalInv' /\ ReplicaInv' /\ DiagnosisInv'
  BY <1>2, <1>3, <1>4 DEF StateInv, LocalInv, ReplicaInv, DiagnosisInv
<1>6. FamilyInv'
  <2>1. PICK faults \in classify_cube_faults : candidates' = Append(candidates, faults)
    BY <1>2
  <2>2. faults \in T
    BY <2>1 DEF classify_cube_faults
  <2>3. step <= Len(Tests(mode))
    BY <1>2 DEF Running
  <2>4. candidates \in Seq(T)
    BY <1>3, <2>3 DEF StateInv, FamilyInv
  <2> HIDE DEF T
  <2>5. candidates' \in Seq(T)
    BY <2>1, <2>2, <2>4
  <2> QED  BY <2>5 DEF FamilyInv, T
<1> QED  BY <1>1, <1>5, <1>6 DEF StateInv

LEMMA ProfileEndsStep ==
    ASSUME StateInv, ProfileEnds
    PROVE  StateInv'
<1>1. CampaignInv' /\ CampaignInv
  BY ProfileEndsPreserves DEF StateInv
<1>2. /\ step <= Len(Tests(mode)) /\ mode' = mode /\ stats' = NoStats
      /\ silent' = NoAggregate /\ one_bit' = NoAggregate
      /\ candidates' = <<>> /\ unchanged_by_region' = NoRegion
      /\ count' = IF profile = Profiles \/ Test \notin PacketTests THEN NoCount ELSE count
  BY DEF ProfileEnds
<1>3. LocalInv'
  BY <1>2 DEF LocalInv, NoRegion, RegionSum, NoStats
<1>4. ReplicaInv'
  <2>1. mode = "--replicate" => Test = "replication"
    BY <1>1, <1>2, ModeFacts DEF CampaignInv
  <2>2. mode = "--replicate" => count' = NoCount
    BY <1>2, <2>1 DEF PacketTests
  <2>3. /\ NoCount.cases_with_one_bit = {} /\ NoCount.cases_with_unchanged = {}
        /\ NoStats.one_bit = 0 /\ NoStats.unchanged = 0
    BY DEF NoCount, NoStats
  <2>4. IsFiniteSet({}) /\ Cardinality({}) = 0
    BY FS_EmptySet
  <2>5. <<>> \in Seq(Nat \X Nat \X Nat) /\ Len(<<>>) = 0
    OBVIOUS
  <2>6. CASE mode = "--replicate"
    <3>1. count' = NoCount /\ stats' = NoStats /\ candidates' = <<>>
      BY <1>2, <2>2, <2>6
    <3>2. /\ candidates' \in Seq(Nat \X Nat \X Nat) /\ Len(candidates') = stats'.one_bit
          /\ IsFiniteSet(count'.cases_with_one_bit)
          /\ Cardinality(count'.cases_with_one_bit) <= stats'.one_bit
          /\ count'.cases_with_unchanged = {} <=> stats'.unchanged = 0
      <4>1. /\ count'.cases_with_one_bit = {} /\ count'.cases_with_unchanged = {}
            /\ stats'.one_bit = 0 /\ stats'.unchanged = 0
        BY <2>3, <3>1, Zenon
      <4>2. candidates' \in Seq(Nat \X Nat \X Nat) /\ Len(candidates') = stats'.one_bit
        BY <2>5, <3>1, <4>1
      <4>3. IsFiniteSet(count'.cases_with_one_bit) /\ Cardinality(count'.cases_with_one_bit) = 0
        BY <2>4, <4>1, Zenon
      <4> QED  BY <4>1, <4>2, <4>3
    <3> QED  BY <3>2, Zenon DEF ReplicaInv
  <2> QED  BY <1>2, <2>6 DEF ReplicaInv
<1>5. FamilyInv'
  BY <1>2 DEF FamilyInv
<1>6. DiagnosisInv'
  BY <1>2, AggregateStarts DEF DiagnosisInv
<1> QED  BY <1>1, <1>3, <1>4, <1>5, <1>6 DEF StateInv

(* The invariant of the campaigns over state faults: what is counted of a  *)
(* localization, a replication and a diagnosis, and what a family lists.   *)
THEOREM StateInvariance == Spec => []StateInv
<1>1. Init => StateInv
  BY StateInit
<1>2. StateInv /\ [Next]_vars => StateInv'
  <2> SUFFICES ASSUME StateInv, [Next]_vars PROVE StateInv'
    OBVIOUS
  <2>1. CASE InjectPacketFault
    BY <2>1, PacketStep
  <2>2. CASE test_c1_stream_state_faults \/ test_c1_mac_state_faults
    BY <2>2, LocalStep
  <2>3. CASE test_c1_mac_state_replication
    BY <2>3, ReplicationStep
  <2>4. CASE test_finalization_diagnosis
    BY <2>4, DiagnosisStep
  <2>5. CASE test_fault_dependency_families
    BY <2>5, FamilyStep
  <2>6. CASE ProfileEnds
    BY <2>6, ProfileEndsStep
  <2>7. CASE Finish
    BY <2>7 DEF Finish, StateInv, CampaignInv, LoopInv, CountInv, PacketInv, CampaignSound,
                DamageExact, LocalInv, ReplicaInv, FamilyInv, DiagnosisInv, Test
  <2>8. CASE UNCHANGED vars
    BY <2>8 DEF vars, StateInv, CampaignInv, LoopInv, CountInv, PacketInv, CampaignSound,
                DamageExact, LocalInv, ReplicaInv, FamilyInv, DiagnosisInv, Test
  <2> QED  BY <2>1, <2>2, <2>3, <2>4, <2>5, <2>6, <2>7, <2>8 DEF Next, Ended
<1> QED  BY <1>1, <1>2, PTL DEF Spec

(* The counters of every diagnosis, localization and replication agree,    *)
(* whatever the faults do to the output.                                   *)
THEOREM CountersAlwaysAgree == Spec => []CountersAgree
<1>1. StateInv => CountersAgree
  <2> SUFFICES ASSUME StateInv PROVE CountersAgree
    OBVIOUS
  <2>1. SilentInv(silent) /\ OneBitInv(one_bit) /\ LocalInv /\ ReplicaInv
    BY DEF StateInv, DiagnosisInv
  <2>2. one_bit["first_change_after_prefix"] + one_bit["full_unchanged"]
             + one_bit["extended_unchanged"] = 0
    BY <2>1 DEF OneBitInv
  <2>3. \A a \in {silent, one_bit} :
              /\ a["extended_unchanged"] <= a["full_unchanged"]
              /\ a["finalization_entry"] + a["binding"] + a["squeeze_entry"]
                            + a["squeeze"] + a["never"] = a["count"]
              /\ a["non_cube"] <= a["squeeze"]
              /\ a["single_bit_until_first_output"] <= a["squeeze"] + a["never"]
    BY <2>1 DEF SilentInv, OneBitInv, AggregateInv, Controllers
  <2>4. /\ silent["count"] = silent["first_change_after_prefix"]
                               + silent["no_change_in_extended"]
        /\ silent["extended_unchanged"] = silent["no_change_in_extended"]
    BY <2>1 DEF SilentInv
  <2> QED  BY <2>1, <2>2, <2>3, <2>4, Zenon DEF CountersAgree, LocalInv, ReplicaInv, RegionSum
<1> QED  BY <1>1, StateInvariance, PTL

(* The overlap printed for a family is exact, for every family.            *)
THEOREM OverlapIsExact == Spec => []OverlapExact
<1>1. StateInv => OverlapExact
  <2> SUFFICES ASSUME StateInv, step <= Len(Tests(mode)), Test \in Families,
                      NEW field \in {"unchanged", "one_bit"}
               PROVE  LET sets == [i \in 1..Len(candidates) |-> candidates[i][field]]
                          o    == Overlap(sets)
                      IN  /\ o.pair_count > 0 <=> Len(sets) > 1 /\ o.combined # {}
                          /\ o.intersection # {} /\ o.pair_count > 0 => o.pair_min_ppm > 0
                          /\ o.pair_min_ppm <= o.pair_max_ppm
                          /\ o.pair_max_ppm = Million <=>
                                \E i, j \in 1..Len(sets) :
                                    i < j /\ sets[i] = sets[j] /\ sets[i] # {}
    BY Zenon DEF OverlapExact
  <2> DEFINE n == Len(candidates)
             sets == [i \in 1..n |-> candidates[i][field]]
             o == Overlap(sets)
             M == Million
  <2>1. candidates \in Seq([unchanged : SUBSET CubeBits, one_bit : SUBSET CubeBits])
    BY DEF StateInv, FamilyInv
  <2>2. n \in Nat /\ sets \in [1..n -> SUBSET CubeBits]
    <3> DEFINE T == [unchanged : SUBSET CubeBits, one_bit : SUBSET CubeBits]
    <3>2. \A x \in T : x[field] \in SUBSET CubeBits
      OBVIOUS
    <3> HIDE DEF T
    <3>1. n \in Nat /\ \A i \in 1..n : candidates[i] \in T
      BY <2>1, LenProperties DEF T
    <3>3. \A i \in 1..n : candidates[i][field] \in SUBSET CubeBits
      BY <3>1, <3>2
    <3> HIDE DEF n
    <3> QED  BY <3>1, <3>3
  <2>3. Len(sets) = n
    BY <2>2
  <2> HIDE DEF n, sets, M
  <2>4. /\ o.pair_count > 0 <=> n > 1 /\ o.combined # {}
        /\ o.intersection # {} /\ o.pair_count > 0 => o.pair_min_ppm > 0
        /\ o.pair_min_ppm <= o.pair_max_ppm
        /\ o.pair_max_ppm = M <=>
              \E i, j \in 1..n : i < j /\ sets[i] = sets[j] /\ sets[i] # {}
    BY <2>2, OverlapFacts DEF M
  <2> HIDE DEF o
  <2> QED  BY <2>3, <2>4 DEF n, sets, o, M
<1> QED  BY <1>1, StateInvariance, PTL

=============================================================================
