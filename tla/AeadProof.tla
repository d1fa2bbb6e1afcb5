------------------------------ MODULE AeadProof ------------------------------
(***************************************************************************)
(* seal and open for every block size, key pair, nonce, associated data    *)
(* and plaintext, on every packet of Packets: open returns what was sealed *)
(* or nothing, and no keystream byte is used twice.  C1 is ideal.          *)
(***************************************************************************)
EXTENDS Aead, AeadFunctionsProof

-----------------------------------------------------------------------------
(* The bytes on the wire: those of headers and callers, masked by a        *)
(* keystream byte, and damaged.                                            *)
ClearBytes == HeaderBytes \cup InputBytes
EncryptionKeys == {pair.encryption_key : pair \in KeyPairs}
StreamBytes ==
    {Atom(x[1], x[2], x[3]) : x \in EncryptionKeys \X Seq(ClearBytes) \X Nat}
SentBytes == ClearBytes \cup {Xor(b, m) : b \in InputBytes, m \in StreamBytes}
WireBytes == SentBytes \cup {Xor(b, Const("damage")) : b \in SentBytes}

(* What callers pass: byte strings over bytes that may be on the wire.     *)
LEMMA InputFacts ==
    /\ HeaderBytes \subseteq ClearBytes /\ InputBytes \subseteq ClearBytes
    /\ ClearBytes \subseteq SentBytes /\ SentBytes \subseteq WireBytes
    /\ HeaderBytes \subseteq WireBytes
    /\ \A n \in Nonces : n \in Seq(InputBytes) /\ n \in Seq(ClearBytes)
                            /\ n \in Seq(WireBytes) /\ Len(n) = NonceBytes
    /\ \A a \in AssociatedData : a \in Seq(SentBytes) /\ Len(a) \in Nat
    /\ \A p \in Plaintexts : p \in Seq(InputBytes) /\ Len(p) \in Nat
<1>1. /\ HeaderBytes \subseteq ClearBytes /\ InputBytes \subseteq ClearBytes
      /\ ClearBytes \subseteq SentBytes /\ SentBytes \subseteq WireBytes
  BY DEF ClearBytes, SentBytes, WireBytes
<1>2. /\ HeaderBytes \subseteq WireBytes /\ InputBytes \subseteq WireBytes
      /\ InputBytes \subseteq SentBytes
  BY <1>1
<1>3. \A s \in Nonces \cup AssociatedData \cup Plaintexts : s \in Seq(InputBytes)
  BY InputsAssumption
<1>4. \A s \in Seq(InputBytes) : /\ s \in Seq(ClearBytes) /\ s \in Seq(SentBytes)
                                 /\ s \in Seq(WireBytes) /\ Len(s) \in Nat
  BY <1>1, <1>2, SeqMonotonic, LenProperties
<1> QED  BY <1>1, <1>2, <1>3, <1>4, NoncesAssumption

(* A ciphertext is a byte string of the length of its plaintext.           *)
LEMMA CiphertextFacts ==
    ASSUME NEW pair \in KeyPairs, NEW n \in Nonces, NEW p \in Plaintexts,
           NEW t \in TagSizes
    PROVE  LET c == apply_keystream(pair.encryption_key, n, p, t)
           IN  c \in Seq(SentBytes) /\ Len(c) = Len(p)
<1> DEFINE k == pair.encryption_key
           c == apply_keystream(k, n, p, t)
<1>1. /\ p \in Seq(InputBytes) /\ Len(p) \in Nat /\ n \in Seq(ClearBytes)
      /\ HeaderBytes \subseteq ClearBytes /\ t \in Nat
  BY InputFacts, TagSizeAssumption, BlockSizeAssumption
<1>2. c = [j \in 1..Len(p) |-> Xor(p[j], StreamByte(k, n, j, t))]
  BY <1>1, KeystreamFacts
<1>3. ASSUME NEW j \in 1..Len(p)
      PROVE  Xor(p[j], StreamByte(k, n, j, t)) \in SentBytes
  <2>1. p[j] \in InputBytes
    BY <1>1, ElementOfSeq
  <2> DEFINE b == (j - 1) \div BlockSize
  <2>2. b \in Nat /\ 1 + ((j - 1) % BlockSize) \in Nat
    BY <1>1, BlockFacts, BlockSizeAssumption
  <2>3. StreamHeader(t) \in Seq(ClearBytes) /\ u64_be(b) \in Seq(ClearBytes)
    BY <1>1, <2>2, PartsFacts
  <2>4. frame_stream_block(n, b, t) \in Seq(ClearBytes)
    BY <1>1, <2>3, ConcatProperties DEF frame_stream_block
  <2>5. k \in EncryptionKeys
    BY DEF EncryptionKeys
  <2> DEFINE x == <<k, frame_stream_block(n, b, t), 1 + ((j - 1) % BlockSize)>>
  <2>6. x \in EncryptionKeys \X Seq(ClearBytes) \X Nat
    BY <2>2, <2>4, <2>5
  <2>7. StreamByte(k, n, j, t) = Atom(x[1], x[2], x[3])
    BY DEF StreamByte
  <2>8. StreamByte(k, n, j, t) \in StreamBytes
    BY <2>6, <2>7, Zenon DEF StreamBytes
  <2> QED  BY <2>1, <2>8 DEF SentBytes
<1> HIDE DEF c
<1>4. c \in [1..Len(p) -> SentBytes]
  BY <1>2, <1>3
<1> QED  BY <1>1, <1>4 DEF c

(* What may arrive: associated data and ciphertext of the sent length in   *)
(* all, and a damaged tag or a beginning of it.                            *)
LEMMA PacketShape ==
    ASSUME NEW s, NEW T, s.associated_data \in Seq(SentBytes),
           s.ciphertext \in Seq(SentBytes), s.tag \in Seq(T),
           NEW packet, packet \in Packets(s)
    PROVE  /\ packet = [nonce |-> packet.nonce,
                        associated_data |-> packet.associated_data,
                        ciphertext |-> packet.ciphertext, tag |-> packet.tag]
           /\ packet.nonce \in Nonces
           /\ packet.associated_data \in Seq(WireBytes)
           /\ packet.ciphertext \in Seq(WireBytes)
           /\ Len(packet.associated_data) + Len(packet.ciphertext)
                  = Len(s.associated_data) + Len(s.ciphertext)
           /\ \/ packet.tag \in Damaged(s.tag)
              \/ \E u \in 0..Len(s.tag) : packet.tag = Prefix(s.tag, u)
<1> DEFINE sent == s.associated_data \o s.ciphertext
           tags == Damaged(s.tag) \cup {Prefix(s.tag, t) : t \in 0..Len(s.tag)}
<1>1. PICK n \in Nonces, a \in Arrivals(s), k \in Places(s) : packet = Cut(n, a, k)
  BY DEF Packets
<1>2. /\ sent \in Seq(SentBytes)
      /\ Len(sent) = Len(s.associated_data) + Len(s.ciphertext)
  BY ConcatProperties
<1>3. Len(sent) \in Nat /\ Len(s.tag) \in Nat /\ k \in 0..Len(sent)
  BY <1>2, LenProperties DEF Places
<1>4. s.tag = Prefix(s.tag, Len(s.tag))
  BY SubSeqFull DEF Prefix
<1>5. a[1] \in {sent} \cup Damaged(sent) /\ a[2] \in tags
  <2>0. a \in ({sent} \X tags) \cup (Damaged(sent) \X {s.tag})
    BY DEF Arrivals
  <2>1. CASE a \in {sent} \X tags
    BY <2>1
  <2>2. CASE a \in Damaged(sent) \X {s.tag}
    <3>1. a[1] \in Damaged(sent) /\ a[2] = s.tag
      BY <2>2
    <3>2. Len(s.tag) \in 0..Len(s.tag)
      BY <1>3
    <3>3. s.tag \in tags
      BY <1>4, <3>2
    <3> QED  BY <3>1, <3>3
  <2> QED  BY <2>0, <2>1, <2>2
<1> HIDE DEF sent, tags
<1>6. a[1] \in Seq(WireBytes) /\ Len(a[1]) = Len(sent)
  <2>1. sent \in Seq(WireBytes)
    BY <1>2, InputFacts, SeqMonotonic
  <2>2. CASE a[1] = sent
    BY <2>1, <2>2
  <2>3. CASE a[1] \in Damaged(sent)
    <3>1. PICK i \in 1..Len(sent) :
              a[1] = [sent EXCEPT ![i] = Xor(sent[i], Const("damage"))]
      BY <2>3 DEF Damaged
    <3>2. Xor(sent[i], Const("damage")) \in WireBytes
      BY <1>2, ElementOfSeq DEF WireBytes
    <3> QED  BY <2>1, <3>1, <3>2, ExceptSeq
  <2> QED  BY <1>5, <2>2, <2>3
<1>7. \A i \in 1..Len(sent) : a[1][i] \in WireBytes
  BY <1>6, ElementOfSeq
<1>8. /\ SubSeq(a[1], 1, k) \in Seq(WireBytes)
      /\ Len(SubSeq(a[1], 1, k)) = k
  <2>1. \A i \in 1..k : a[1][i] \in WireBytes
    BY <1>3, <1>7
  <2>2. /\ SubSeq(a[1], 1, k) \in Seq(WireBytes)
        /\ Len(SubSeq(a[1], 1, k)) = IF 1 <= k THEN k - 1 + 1 ELSE 0
    BY <1>3, <2>1, SubSeqProperties
  <2>3. (IF 1 <= k THEN k - 1 + 1 ELSE 0) = k
    BY <1>3
  <2> QED  BY <2>2, <2>3
<1>9. /\ SubSeq(a[1], k + 1, Len(sent)) \in Seq(WireBytes)
      /\ Len(SubSeq(a[1], k + 1, Len(sent))) = Len(sent) - k
  <2>1. \A i \in (k + 1)..Len(sent) : a[1][i] \in WireBytes
    BY <1>3, <1>7
  <2>2. k + 1 \in Int /\ Len(sent) \in Int
    BY <1>3
  <2>3. /\ SubSeq(a[1], k + 1, Len(sent)) \in Seq(WireBytes)
        /\ Len(SubSeq(a[1], k + 1, Len(sent)))
               = IF k + 1 <= Len(sent) THEN Len(sent) - (k + 1) + 1 ELSE 0
    BY <2>1, <2>2, SubSeqProperties
  <2>4. (IF k + 1 <= Len(sent) THEN Len(sent) - (k + 1) + 1 ELSE 0) = Len(sent) - k
    BY <1>3
  <2> QED  BY <2>3, <2>4
<1>10. Len(SubSeq(a[1], 1, k)) + Len(SubSeq(a[1], k + 1, Len(sent))) = Len(sent)
  <2>1. k + (Len(sent) - k) = Len(sent)
    BY <1>3
  <2> QED  BY <1>8, <1>9, <2>1, Zenon
<1>11. /\ packet.nonce = n /\ packet.associated_data = SubSeq(a[1], 1, k)
       /\ packet.ciphertext = SubSeq(a[1], k + 1, Len(sent)) /\ packet.tag = a[2]
  BY <1>1, <1>6, Zenon DEF Cut, Prefix
<1>12. \/ packet.tag \in Damaged(s.tag)
       \/ \E u \in 0..Len(s.tag) : packet.tag = Prefix(s.tag, u)
  BY <1>5, <1>11 DEF tags
<1>13. packet = [nonce |-> packet.nonce, associated_data |-> packet.associated_data,
                 ciphertext |-> packet.ciphertext, tag |-> packet.tag]
  BY <1>1, Zenon DEF Cut
<1> QED  BY <1>2, <1>8, <1>9, <1>10, <1>11, <1>12, <1>13

-----------------------------------------------------------------------------
(* A context is a byte string of known length.                             *)
LEMMA ContextFacts ==
    ASSUME NEW n \in Nonces, NEW a \in Seq(WireBytes), NEW t \in Nat
    PROVE  LET c == frame_authentication_context(n, a, t)
           IN  c \in Seq(WireBytes) /\ Len(c) = 13 + NonceBytes + Len(a)
<1>1. n \in Seq(WireBytes) /\ Len(n) = NonceBytes /\ HeaderBytes \subseteq WireBytes
  BY InputFacts
<1> QED  BY <1>1, ContextShape

(* The M1 frame over which the tag of s is computed.                       *)
TagFrame(s, t) ==
    frame_message(frame_authentication_context(s.nonce, s.associated_data, t),
                  s.ciphertext, t)

(* What seal has recorded.                                                 *)
LEMMA SealedFacts ==
    ASSUME keys \in KeyPairs, NEW s, s.nonce \in Nonces,
           s.associated_data \in AssociatedData, s.plaintext \in Plaintexts,
           NEW t \in TagSizes, SealedBy(s, t)
    PROVE  /\ s.ciphertext = apply_keystream(keys.encryption_key, s.nonce,
                                             s.plaintext, t)
           /\ s.ciphertext \in Seq(SentBytes)
           /\ Len(s.ciphertext) = Len(s.plaintext)
           /\ s.tag \in Seq({Atom(keys.authentication_key, TagFrame(s, t), i) : i \in Nat})
           /\ Len(s.tag) = t
           /\ \A i \in 1..t : s.tag[i] = Atom(keys.authentication_key, TagFrame(s, t), i)
<1> DEFINE e == keys.encryption_key  k == keys.authentication_key
           c == apply_keystream(e, s.nonce, s.plaintext, t)
           x == frame_authentication_context(s.nonce, s.associated_data, t)
<1>1. s.ciphertext = c /\ s.tag = compute_tag(k, x, c, t)
  <2> DEFINE m == seal(keys, s.nonce, s.associated_data, s.plaintext, t)
  <2>1. m.ciphertext = c /\ m.tag = compute_tag(k, x, c, t)
    BY Zenon DEF seal
  <2> HIDE DEF m, c, x
  <2>2. s = [nonce |-> s.nonce, associated_data |-> s.associated_data,
             plaintext |-> s.plaintext, ciphertext |-> m.ciphertext, tag |-> m.tag]
    BY Zenon DEF SealedBy, m
  <2>3. s.ciphertext = m.ciphertext /\ s.tag = m.tag
    BY <2>2
  <2> QED  BY <2>1, <2>3
<1>2. c \in Seq(SentBytes) /\ Len(c) = Len(s.plaintext)
  BY CiphertextFacts
<1>3. s.tag = Prefix(C1(k, TagFrame(s, t)), t)
  BY <1>1, Zenon DEF compute_tag, TagFrame
<1> HIDE DEF e, k, c, x
<1>4. /\ s.tag \in Seq({Atom(k, TagFrame(s, t), i) : i \in Nat})
      /\ Len(s.tag) = t
      /\ \A i \in 1..t : s.tag[i] = Atom(k, TagFrame(s, t), i)
  BY <1>3, TagFacts, Zenon
<1> QED  BY <1>1, <1>2, <1>4 DEF e, k, c

(* verify_tag accepts nothing but the sealed message itself: no damaged    *)
(* byte, no shortened tag, no other nonce and no other boundary between    *)
(* associated data and ciphertext.                                         *)
LEMMA VerifiedIsSealed ==
    ASSUME keys \in KeyPairs, NEW s, s.nonce \in Nonces,
           s.associated_data \in AssociatedData, s.plaintext \in Plaintexts,
           NEW t \in TagSizes, SealedBy(s, t),
           NEW packet, packet \in Packets(s), Len(packet.tag) \in TagSizes,
           Verified(packet)
    PROVE  packet = PacketOf(s) /\ Len(packet.tag) = t
<1> DEFINE k == keys.authentication_key
           f == TagFrame(s, t)
           u == Len(packet.tag)
           c == frame_authentication_context(packet.nonce, packet.associated_data, u)
           d == frame_authentication_context(s.nonce, s.associated_data, t)
           g == frame_message(c, packet.ciphertext, u)
<1>1. /\ s.ciphertext \in Seq(SentBytes) /\ Len(s.ciphertext) = Len(s.plaintext)
      /\ s.tag \in Seq({Atom(k, f, i) : i \in Nat}) /\ Len(s.tag) = t
      /\ \A i \in 1..t : s.tag[i] = Atom(k, f, i)
  BY SealedFacts
<1>2. s.associated_data \in Seq(SentBytes) /\ Len(s.associated_data) \in Nat
      /\ Len(s.plaintext) \in Nat
  BY InputFacts
<1>3. /\ packet = [nonce |-> packet.nonce,
                   associated_data |-> packet.associated_data,
                   ciphertext |-> packet.ciphertext, tag |-> packet.tag]
      /\ packet.nonce \in Nonces
      /\ packet.associated_data \in Seq(WireBytes)
      /\ packet.ciphertext \in Seq(WireBytes)
      /\ Len(packet.associated_data) + Len(packet.ciphertext)
             = Len(s.associated_data) + Len(s.ciphertext)
      /\ \/ packet.tag \in Damaged(s.tag)
         \/ \E v \in 0..Len(s.tag) : packet.tag = Prefix(s.tag, v)
  BY <1>1, <1>2, PacketShape
<1>4. /\ t \in Nat /\ u \in Nat /\ t \in 1..BlockSize /\ u \in 1..BlockSize
      /\ BlockSize \in Nat
  BY TagSizeAssumption, BlockSizeAssumption
<1>5. \A i \in 1..u : packet.tag[i] = Atom(k, g, i)
  <2>1. verify_tag(k, c, packet.ciphertext, packet.tag)
    BY Zenon DEF Verified
  <2>2. \A i \in 1..u : Xor(C1(k, g)[i], packet.tag[i]) = {}
    BY <2>1, Zenon DEF verify_tag
  <2>3. \A i \in 1..u : C1(k, g)[i] = packet.tag[i]
    BY <2>2, XorEmpty, Zenon
  <2>4. \A i \in 1..u : C1(k, g)[i] = Atom(k, g, i)
    <3> HIDE DEF k, g, u
    <3> QED  BY <1>4 DEF C1, Atom
  <2> QED  BY <2>3, <2>4, Zenon
<1> HIDE DEF k, f, u, c, d, g
<1>6. packet.tag \notin Damaged(s.tag)
  <2>1. SUFFICES ASSUME packet.tag \in Damaged(s.tag) PROVE FALSE
    OBVIOUS
  <2>2. PICK i \in 1..Len(s.tag) :
            packet.tag = [s.tag EXCEPT ![i] = Xor(s.tag[i], Const("damage"))]
    BY <2>1 DEF Damaged
  <2>3. i \in 1..t /\ s.tag[i] = Atom(k, f, i)
    BY <1>1
  <2>4. DOMAIN s.tag = 1..t /\ DOMAIN packet.tag = 1..t
    <3>1. DOMAIN s.tag = 1..t
      BY <1>1, LenProperties
    <3> QED  BY <2>2, <3>1
  <2>5. Len(packet.tag) = t
    BY <1>4, <2>4
  <2>6. packet.tag[i] = Xor(Atom(k, f, i), Const("damage"))
    BY <2>2, <2>3, <2>4
  <2>7. packet.tag[i] = Atom(k, g, i)
    BY <1>5, <2>3, <2>5 DEF u
  <2> QED  BY <2>6, <2>7, DamagedAtom
<1>7. PICK v \in 0..t : packet.tag = Prefix(s.tag, v)
  BY <1>1, <1>3, <1>6
<1>8. u = v /\ \A i \in 1..v : packet.tag[i] = s.tag[i]
  <2> DEFINE S == {Atom(k, f, i) : i \in Nat}
  <2>1. \A i \in 1..v : s.tag[i] \in S
    BY <1>1, <1>4
  <2> HIDE DEF S
  <2>2. /\ Len(SubSeq(s.tag, 1, v)) = IF 1 <= v THEN v - 1 + 1 ELSE 0
        /\ \A i \in 1..(v - 1 + 1) : SubSeq(s.tag, 1, v)[i] = s.tag[1 + i - 1]
    BY <1>4, <2>1, SubSeqProperties
  <2>3. (IF 1 <= v THEN v - 1 + 1 ELSE 0) = v
    BY <1>4
  <2>4. \A i \in 1..v : SubSeq(s.tag, 1, v)[i] = s.tag[i]
    BY <1>4, <2>2
  <2> QED  BY <1>7, <2>2, <2>3, <2>4 DEF Prefix, u
<1>9. g = f
  <2>1. 1 \in 1..u /\ 1 \in 1..v /\ 1 \in 1..t
    BY <1>4, <1>8
  <2>2. Atom(k, g, 1) = Atom(k, f, 1)
    BY <1>1, <1>5, <1>8, <2>1
  <2> QED  BY <2>2, AtomInjective
<1>10. /\ s.associated_data \in Seq(WireBytes) /\ s.ciphertext \in Seq(WireBytes)
       /\ HeaderBytes \subseteq WireBytes
  BY <1>1, <1>2, InputFacts, SeqMonotonic
<1>11. /\ c \in Seq(WireBytes) /\ Len(c) = 13 + NonceBytes + Len(packet.associated_data)
       /\ d \in Seq(WireBytes) /\ Len(d) = 13 + NonceBytes + Len(s.associated_data)
  BY <1>3, <1>4, <1>10, ContextFacts DEF c, d
<1>12. /\ Len(c) \in U64 /\ Len(d) \in U64
       /\ Len(packet.associated_data) \in U64 /\ Len(s.associated_data) \in U64
       /\ Len(packet.ciphertext) \in U64 /\ Len(s.ciphertext) \in U64
  <2> DEFINE m == 32 + NonceBytes + Len(s.associated_data) + Len(s.plaintext)
             x == Len(packet.associated_data)  y == Len(packet.ciphertext)
             a == Len(s.associated_data)       p == Len(s.plaintext)
  <2>1. m \in U64 /\ m = 32 + NonceBytes + a + p
    BY LengthAssumption
  <2>2. x \in Nat /\ y \in Nat /\ a \in Nat /\ p \in Nat /\ NonceBytes \in Nat
    BY <1>2, <1>3, LenProperties, NonceBytesAssumption
  <2>3. /\ Len(s.ciphertext) = p /\ x + y = a + p
        /\ Len(c) = 13 + NonceBytes + x /\ Len(d) = 13 + NonceBytes + a
    BY <1>1, <1>3, <1>11
  <2> HIDE DEF m, x, y, a, p
  <2>4. /\ 13 + NonceBytes + x \in Nat /\ 13 + NonceBytes + x <= m
        /\ 13 + NonceBytes + a \in Nat /\ 13 + NonceBytes + a <= m
        /\ x <= m /\ y <= m /\ a <= m /\ p <= m
    BY <2>1, <2>2, <2>3
  <2>5. /\ 13 + NonceBytes + x \in U64 /\ 13 + NonceBytes + a \in U64
        /\ x \in U64 /\ y \in U64 /\ a \in U64 /\ p \in U64
    BY <2>1, <2>2, <2>4, U64Smaller
  <2> QED  BY <2>3, <2>5, Zenon DEF x, y, a, p
<1>13. c = d /\ packet.ciphertext = s.ciphertext /\ u = t
  <2>1. frame_message(c, packet.ciphertext, u) = frame_message(d, s.ciphertext, t)
    BY <1>9 DEF f, g, d, TagFrame
  <2> DEFINE x == packet.ciphertext  y == s.ciphertext
  <2>2. /\ c \in Seq(WireBytes) /\ d \in Seq(WireBytes)
        /\ x \in Seq(WireBytes) /\ y \in Seq(WireBytes)
        /\ Len(c) \in U64 /\ Len(d) \in U64 /\ Len(x) \in U64 /\ Len(y) \in U64
        /\ HeaderBytes \subseteq WireBytes /\ t \in Nat /\ u \in Nat
        /\ frame_message(c, x, u) = frame_message(d, y, t)
    BY <1>3, <1>4, <1>10, <1>11, <1>12, <2>1
  <2> HIDE DEF x, y
  <2>3. c = d /\ x = y /\ u = t
    BY <2>2, MacFrameInjective
  <2> QED  BY <2>3 DEF x, y
<1>14. packet.nonce = s.nonce /\ packet.associated_data = s.associated_data
  <2>1. frame_authentication_context(packet.nonce, packet.associated_data, u)
          = frame_authentication_context(s.nonce, s.associated_data, t)
    BY <1>13 DEF c, d
  <2>2. /\ packet.nonce \in Seq(WireBytes) /\ Len(packet.nonce) = NonceBytes
        /\ s.nonce \in Seq(WireBytes) /\ Len(s.nonce) = NonceBytes
    BY <1>3, InputFacts
  <2> DEFINE m == packet.nonce            n == s.nonce
             x == packet.associated_data  y == s.associated_data
  <2>3. /\ m \in Seq(WireBytes) /\ Len(m) = NonceBytes
        /\ n \in Seq(WireBytes) /\ Len(n) = NonceBytes
        /\ x \in Seq(WireBytes) /\ y \in Seq(WireBytes)
        /\ Len(x) \in U64 /\ Len(y) \in U64
        /\ HeaderBytes \subseteq WireBytes /\ t \in Nat /\ u \in Nat
        /\ frame_authentication_context(m, x, u) = frame_authentication_context(n, y, t)
    BY <1>3, <1>4, <1>10, <1>12, <2>1, <2>2
  <2> HIDE DEF m, n, x, y
  <2>4. m = n /\ x = y
    BY <2>3, NonceBytesAssumption, ContextInjective
  <2> QED  BY <2>4 DEF m, n, x, y
<1>15. packet.tag = s.tag
  BY <1>1, <1>7, <1>8, <1>13, SubSeqFull DEF Prefix
<1> QED  BY <1>3, <1>13, <1>14, <1>15 DEF PacketOf, u

-----------------------------------------------------------------------------
(* The invariant holds initially.                                          *)
LEMMA AeadInitially == Init => AeadInv
<1> SUFFICES ASSUME Init PROVE AeadInv
  OBVIOUS
<1>1. /\ keys \in KeyPairs /\ sealed = {} /\ call = Idle /\ streamed = {}
      /\ result = NullOpt /\ result.opened = FALSE /\ call.pc = "idle"
  BY DEF Init, NullOpt, Idle
<1> QED  BY <1>1 DEF AeadInv, TypeOK, SealInv, VerifiedInv, Authentic,
                     OpenDerivesNothingNew

(* seal records a message of its own inputs under a new nonce.             *)
LEMMA SealPreserves ==
    ASSUME AeadInv, NEW n \in Nonces, NEW a \in AssociatedData, NEW p \in Plaintexts,
           NEW t \in TagSizes, Seal(n, a, p, t)
    PROVE  AeadInv'
<1> DEFINE m == seal(keys, n, a, p, t)
           r == [nonce |-> n, associated_data |-> a, plaintext |-> p,
                 ciphertext |-> m.ciphertext, tag |-> m.tag]
<1>1. /\ sealed' = sealed \cup {r} /\ \A s \in sealed : s.nonce # n
      /\ keys' = keys /\ call' = call /\ streamed' = streamed /\ result' = result
      /\ call = Idle
  BY Zenon DEF Seal
<1>2. /\ r.nonce = n /\ r.associated_data = a /\ r.plaintext = p
      /\ SealedBy(r, t)
  <2>1. r.nonce = n /\ r.associated_data = a /\ r.plaintext = p
    OBVIOUS
  <2> QED  BY <2>1, Zenon DEF SealedBy
<1> HIDE DEF m, r
<1>3. Len(r.ciphertext) = Len(r.plaintext) /\ Len(r.tag) \in TagSizes
  <2>1. keys \in KeyPairs
    BY DEF AeadInv, TypeOK
  <2>2. Len(r.ciphertext) = Len(r.plaintext) /\ Len(r.tag) = t
    BY <1>2, <2>1, SealedFacts
  <2> QED  BY <2>2
<1>4. TypeOK'
  <2>1. \A s \in sealed' : /\ s.nonce \in Nonces
                           /\ s.associated_data \in AssociatedData
                           /\ s.plaintext \in Plaintexts
                           /\ Len(s.ciphertext) = Len(s.plaintext)
                           /\ Len(s.tag) \in TagSizes
    BY <1>1, <1>2, <1>3 DEF AeadInv, TypeOK
  <2> QED  BY <1>1, <2>1 DEF AeadInv, TypeOK
<1>5. SealInv'
  <2>1. ASSUME NEW s \in sealed' PROVE \E u \in TagSizes : SealedBy(s, u)'
    <3>1. \E u \in TagSizes : SealedBy(s, u)
      BY <1>1, <1>2 DEF AeadInv, SealInv
    <3>2. \A u : SealedBy(s, u)' <=> SealedBy(s, u)
      BY <1>1 DEF SealedBy
    <3> QED  BY <3>1, <3>2
  <2>2. ASSUME NEW s \in sealed', NEW u \in sealed', s.nonce = u.nonce PROVE s = u
    BY <1>1, <1>2, <2>2 DEF AeadInv, SealInv
  <2> QED  BY <2>1, <2>2 DEF SealInv
<1>6. VerifiedInv' /\ Authentic'
  BY <1>1 DEF AeadInv, VerifiedInv, Authentic, Idle
<1>7. OpenDerivesNothingNew'
  BY <1>1 DEF AeadInv, OpenDerivesNothingNew
<1> QED  BY <1>4, <1>5, <1>6, <1>7 DEF AeadInv

(* A step that leaves the sealed messages and the keys alone keeps SealInv. *)
LEMMA SealInvUnchanged ==
    ASSUME SealInv, UNCHANGED <<keys, sealed>>
    PROVE  SealInv'
<1>1. \A s, t : SealedBy(s, t)' <=> SealedBy(s, t)
  BY DEF SealedBy
<1> QED  BY <1>1 DEF SealInv

(* A call of open with any packet.                                         *)
LEMMA OpenCallPreserves ==
    ASSUME AeadInv, NEW s \in sealed, NEW packet \in Packets(s), OpenCall(packet)
    PROVE  AeadInv'
<1>1. /\ call' = [pc |-> "called", packet |-> packet] /\ streamed' = {}
      /\ keys' = keys /\ sealed' = sealed /\ result' = result
  BY DEF OpenCall
<1>2. call'.pc = "called" /\ call'.packet = packet
  BY <1>1
<1>3. TypeOK'
  BY <1>1, <1>2 DEF AeadInv, TypeOK
<1>4. SealInv'
  BY <1>1, SealInvUnchanged DEF AeadInv
<1>5. VerifiedInv' /\ Authentic' /\ OpenDerivesNothingNew'
  BY <1>1, <1>2 DEF AeadInv, VerifiedInv, Authentic, OpenDerivesNothingNew
<1> QED  BY <1>3, <1>4, <1>5 DEF AeadInv

(* An early return of open.                                                *)
LEMMA RejectPreserves ==
    ASSUME AeadInv, Reject
    PROVE  AeadInv'
<1>1. /\ call' = Idle /\ result' = NullOpt
      /\ keys' = keys /\ sealed' = sealed /\ streamed' = streamed
  BY DEF Reject
<1>2. call'.pc = "idle" /\ result'.opened = FALSE
  BY <1>1 DEF Idle, NullOpt
<1>3. SealInv'
  BY <1>1, SealInvUnchanged DEF AeadInv
<1>4. TypeOK'
  BY <1>1, <1>2 DEF AeadInv, TypeOK
<1>5. VerifiedInv' /\ Authentic' /\ OpenDerivesNothingNew'
  BY <1>1, <1>2 DEF AeadInv, VerifiedInv, Authentic, OpenDerivesNothingNew
<1> QED  BY <1>3, <1>4, <1>5 DEF AeadInv

(* A packet that passes the verification is one of the sealed messages.    *)
LEMMA OpenVerifyPreserves ==
    ASSUME AeadInv, OpenVerify
    PROVE  AeadInv'
<1>1. /\ call.pc = "called" /\ Len(call.packet.tag) \in TagSizes
      /\ Verified(call.packet) /\ call' = [call EXCEPT !.pc = "verified"]
      /\ keys' = keys /\ sealed' = sealed /\ streamed' = streamed /\ result' = result
  BY DEF OpenVerify
<1>2. call # Idle
  BY <1>1 DEF Idle
<1>3. PICK s \in sealed : call \in [pc : {"called", "verified"}, packet : Packets(s)]
  BY <1>2 DEF AeadInv, TypeOK
<1>4. PICK t \in TagSizes : SealedBy(s, t)
  BY DEF AeadInv, SealInv
<1>5. call.packet = PacketOf(s)
  <2>1. /\ keys \in KeyPairs /\ s.nonce \in Nonces
        /\ s.associated_data \in AssociatedData /\ s.plaintext \in Plaintexts
    BY DEF AeadInv, TypeOK
  <2> QED  BY <1>1, <1>3, <1>4, <2>1, VerifiedIsSealed
<1>6. call'.pc = "verified" /\ call'.packet = call.packet
      /\ call' \in [pc : {"called", "verified"}, packet : Packets(s)]
  BY <1>1, <1>3
<1>7. TypeOK'
  BY <1>1, <1>6 DEF AeadInv, TypeOK
<1>8. SealInv'
  BY <1>1, SealInvUnchanged DEF AeadInv
<1>9. VerifiedInv'
  BY <1>1, <1>5, <1>6 DEF VerifiedInv
<1>10. Authentic' /\ OpenDerivesNothingNew'
  BY <1>1 DEF AeadInv, Authentic, OpenDerivesNothingNew
<1> QED  BY <1>7, <1>8, <1>9, <1>10 DEF AeadInv

(* Decrypting a sealed message yields its plaintext, from frames that seal *)
(* has evaluated.                                                          *)
LEMMA OpenDecryptPreserves ==
    ASSUME AeadInv, OpenDecrypt
    PROVE  AeadInv'
<1> DEFINE p == call.packet
           x == apply_keystream(keys.encryption_key, p.nonce, p.ciphertext, Len(p.tag))
<1>1. /\ call.pc = "verified" /\ call' = Idle
      /\ streamed' = StreamFrames(p.nonce, Len(p.ciphertext), Len(p.tag))
      /\ result' = [opened |-> TRUE, packet |-> p, plaintext |-> x]
      /\ keys' = keys /\ sealed' = sealed
  BY Zenon DEF OpenDecrypt
<1>2. PICK s \in sealed : p = PacketOf(s)
  BY <1>1 DEF AeadInv, VerifiedInv
<1>3. /\ p.nonce = s.nonce /\ p.ciphertext = s.ciphertext /\ p.tag = s.tag
  BY <1>2 DEF PacketOf
<1>4. PICK t \in TagSizes : SealedBy(s, t)
  BY DEF AeadInv, SealInv
<1>5. /\ keys \in KeyPairs /\ s.nonce \in Nonces
      /\ s.associated_data \in AssociatedData /\ s.plaintext \in Plaintexts
  BY DEF AeadInv, TypeOK
<1>6. /\ s.ciphertext = apply_keystream(keys.encryption_key, s.nonce, s.plaintext, t)
      /\ s.ciphertext \in Seq(SentBytes) /\ Len(s.ciphertext) = Len(s.plaintext)
      /\ Len(s.tag) = t
  BY <1>4, <1>5, SealedFacts
<1>7. x = s.plaintext
  <2> DEFINE k == keys.encryption_key
  <2>1. s.plaintext \in Seq(InputBytes)
    BY <1>5, InputFacts
  <2>2. /\ apply_keystream(k, s.nonce, s.plaintext, t) \in Seq(SentBytes)
        /\ Len(apply_keystream(k, s.nonce, s.plaintext, t)) = Len(s.plaintext)
    BY <1>6
  <2>3. apply_keystream(k, s.nonce, apply_keystream(k, s.nonce, s.plaintext, t), t)
          = s.plaintext
    BY <2>1, <2>2, KeystreamTwice, Zenon
  <2> QED  BY <1>3, <1>6, <2>3, Zenon
<1> HIDE DEF p, x
<1>8. result'.opened /\ result'.packet = p /\ result'.plaintext = x
      /\ result'.opened \in BOOLEAN /\ call'.pc = "idle"
  BY <1>1 DEF Idle
<1>9. TypeOK'
  BY <1>1, <1>8 DEF AeadInv, TypeOK
<1>10. SealInv'
  BY <1>1, SealInvUnchanged DEF AeadInv
<1>11. VerifiedInv'
  BY <1>8 DEF VerifiedInv
<1>12. Authentic'
  BY <1>1, <1>2, <1>7, <1>8 DEF Authentic
<1>13. OpenDerivesNothingNew'
  <2>1. streamed' = StreamFrames(s.nonce, Len(s.plaintext), Len(s.tag))
    BY <1>1, <1>3, <1>6, Zenon
  <2> QED  BY <1>1, <2>1 DEF OpenDerivesNothingNew
<1> QED  BY <1>9, <1>10, <1>11, <1>12, <1>13 DEF AeadInv

(* Every step of seal and open preserves the invariant.                    *)
THEOREM AeadInvariance == Spec => []AeadInv
<1>1. AeadInv /\ [Next]_vars => AeadInv'
  <2> SUFFICES ASSUME AeadInv, [Next]_vars PROVE AeadInv'
    OBVIOUS
  <2>1. CASE \E n \in Nonces, a \in AssociatedData, p \in Plaintexts, t \in TagSizes :
                 Seal(n, a, p, t)
    BY <2>1, SealPreserves
  <2>2. CASE \E s \in sealed : \E packet \in Packets(s) : OpenCall(packet)
    BY <2>2, OpenCallPreserves
  <2>3. CASE OpenUnsupportedTag \/ OpenVerifyFails
    BY <2>3, RejectPreserves DEF OpenUnsupportedTag, OpenVerifyFails
  <2>4. CASE OpenVerify
    BY <2>4, OpenVerifyPreserves
  <2>5. CASE OpenDecrypt
    BY <2>5, OpenDecryptPreserves
  <2>6. CASE UNCHANGED vars
    <3>1. UNCHANGED <<keys, sealed, call, streamed, result>>
      BY <2>6 DEF vars
    <3>2. SealInv'
      BY <3>1, SealInvUnchanged DEF AeadInv
    <3> QED  BY <3>1, <3>2 DEF AeadInv, TypeOK, VerifiedInv, Authentic,
                               OpenDerivesNothingNew
  <2> QED  BY <2>1, <2>2, <2>3, <2>4, <2>5, <2>6 DEF Next
<1> QED  BY AeadInitially, <1>1, PTL DEF Spec

(* open authenticates: it returns a plaintext only for a packet that is    *)
(* one of the sealed messages, and then the plaintext of that message.     *)
THEOREM Authenticity == Spec => []Authentic
<1>1. AeadInv => Authentic
  BY DEF AeadInv
<1> QED  BY <1>1, AeadInvariance, PTL

(* Whatever open is given, it derives no keystream that seal has not.      *)
THEOREM VerifyBeforeDecrypt == Spec => []OpenDerivesNothingNew
<1>1. AeadInv => OpenDerivesNothingNew
  BY DEF AeadInv
<1> QED  BY <1>1, AeadInvariance, PTL

(* Under single-use nonces no keystream byte masks two plaintext bytes.    *)
THEOREM KeystreamIsUsedOnce == Spec => []KeystreamOnce
<1>1. AeadInv => KeystreamOnce
  <2> SUFFICES ASSUME AeadInv, NEW s \in sealed, NEW u \in sealed,
                      NEW i \in 1..Len(s.plaintext), NEW j \in 1..Len(u.plaintext)
               PROVE  /\ Xor(s.plaintext[i], s.ciphertext[i]) # {}
                      /\ <<s, i>> # <<u, j>> => Xor(s.plaintext[i], s.ciphertext[i])
                                                  # Xor(u.plaintext[j], u.ciphertext[j])
    BY Zenon DEF KeystreamOnce
  <2> DEFINE k == keys.encryption_key
  <2>1. ASSUME NEW m \in sealed, NEW q \in 1..Len(m.plaintext)
        PROVE  \E t \in TagSizes : Xor(m.plaintext[q], m.ciphertext[q])
                                     = StreamByte(k, m.nonce, q, t)
    <3>1. PICK t \in TagSizes : SealedBy(m, t)
      BY DEF AeadInv, SealInv
    <3>2. /\ keys \in KeyPairs /\ m.nonce \in Nonces
          /\ m.associated_data \in AssociatedData /\ m.plaintext \in Plaintexts
      BY DEF AeadInv, TypeOK
    <3>3. m.ciphertext = apply_keystream(k, m.nonce, m.plaintext, t)
      BY <3>1, <3>2, SealedFacts
    <3>4. m.plaintext \in Seq(InputBytes)
      BY <3>2, InputFacts
    <3>5. m.ciphertext[q] = Xor(m.plaintext[q], StreamByte(k, m.nonce, q, t))
      <4>1. m.ciphertext = [l \in 1..Len(m.plaintext) |->
                               Xor(m.plaintext[l], StreamByte(k, m.nonce, l, t))]
        BY <3>3, <3>4, KeystreamFacts
      <4> QED  BY <4>1, Zenon
    <3> QED  BY <3>5, XorTwice
  <2>2. PICK t \in TagSizes : Xor(s.plaintext[i], s.ciphertext[i])
                                = StreamByte(k, s.nonce, i, t)
    BY <2>1
  <2>3. PICK v \in TagSizes : Xor(u.plaintext[j], u.ciphertext[j])
                                = StreamByte(k, u.nonce, j, v)
    BY <2>1
  <2>4. StreamByte(k, s.nonce, i, t) # {}
    BY Zenon DEF StreamByte, Atom
  <2>5. ASSUME StreamByte(k, s.nonce, i, t) = StreamByte(k, u.nonce, j, v)
        PROVE  s = u /\ i = j
    <3> DEFINE b == (i - 1) \div BlockSize  c == (j - 1) \div BlockSize
    <3>1. /\ s.nonce \in Nonces /\ s.associated_data \in AssociatedData
          /\ s.plaintext \in Plaintexts
          /\ u.nonce \in Nonces /\ u.associated_data \in AssociatedData
          /\ u.plaintext \in Plaintexts
      BY DEF AeadInv, TypeOK
    <3>2. /\ Len(s.plaintext) \in Nat /\ Len(u.plaintext) \in Nat
          /\ Len(s.associated_data) \in Nat /\ Len(u.associated_data) \in Nat
          /\ NonceBytes \in Nat
      BY <3>1, InputFacts, NonceBytesAssumption
    <3>3. /\ frame_stream_block(s.nonce, b, t) = frame_stream_block(u.nonce, c, v)
          /\ 1 + ((i - 1) % BlockSize) = 1 + ((j - 1) % BlockSize)
      <4> DEFINE f == frame_stream_block(s.nonce, b, t)
                 g == frame_stream_block(u.nonce, c, v)
                 x == 1 + ((i - 1) % BlockSize)  y == 1 + ((j - 1) % BlockSize)
      <4>1. Atom(k, f, x) = Atom(k, g, y)
        BY <2>5, Zenon DEF StreamByte
      <4> HIDE DEF f, g, x, y
      <4>2. f = g /\ x = y
        BY <4>1, AtomInjective
      <4> QED  BY <4>2 DEF f, g, x, y
    <3>4. /\ b \in Nat /\ b <= i - 1 /\ c \in Nat /\ c <= j - 1
      BY <3>2, BlockFacts
    <3> HIDE DEF b, c
    <3>5. b \in U64 /\ c \in U64
      <4> DEFINE p == Len(s.plaintext)  a == Len(s.associated_data)
                 q == Len(u.plaintext)  d == Len(u.associated_data)
      <4>1. 32 + NonceBytes + a + p \in U64 /\ 32 + NonceBytes + d + q \in U64
        BY <3>1, LengthAssumption
      <4>2. /\ p \in Nat /\ a \in Nat /\ q \in Nat /\ d \in Nat
            /\ i \in 1..p /\ j \in 1..q
        BY <3>2
      <4> HIDE DEF p, a, q, d
      <4>3. b <= 32 + NonceBytes + a + p /\ c <= 32 + NonceBytes + d + q
        BY <3>2, <3>4, <4>2
      <4> QED  BY <3>4, <4>1, <4>3, U64Smaller
    <3>6. s.nonce = u.nonce /\ b = c
      <4> DEFINE m == s.nonce  n == u.nonce
      <4>1. /\ HeaderBytes \subseteq WireBytes /\ m \in Seq(WireBytes)
            /\ n \in Seq(WireBytes) /\ Len(m) = NonceBytes /\ Len(n) = NonceBytes
            /\ t \in Nat /\ v \in Nat
            /\ frame_stream_block(m, b, t) = frame_stream_block(n, c, v)
        BY <3>1, <3>3, InputFacts, TagSizeAssumption, BlockSizeAssumption
      <4> HIDE DEF m, n
      <4>2. m = n /\ b = c
        BY <3>5, <4>1, NonceBytesAssumption, StreamFrameInjective
      <4> QED  BY <4>2 DEF m, n
    <3>7. s = u
      BY <3>6 DEF AeadInv, SealInv
    <3>8. i = j
      BY <3>2, <3>3, <3>6, BlockPlace DEF b, c
    <3> QED  BY <3>7, <3>8
  <2> QED  BY <2>2, <2>3, <2>4, <2>5
<1> QED  BY <1>1, AeadInvariance, PTL
=============================================================================
