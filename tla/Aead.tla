-------------------------------- MODULE Aead ---------------------------------
(***************************************************************************)
(* PVC-AEAD-0 A1 over PVC-MAC-0 M1 (and the PVC-RotSymEnc-1 adapter, which *)
(* passes its arguments through): seal, and open step by step, on packets  *)
(* that may arrive with their fields cut at other places, under another    *)
(* nonce, or with a shortened tag.                                         *)
(***************************************************************************)
EXTENDS AeadFunctions, FiniteSets

CONSTANTS KeyPairs,     \* KeyPair512 values: [encryption_key, authentication_key]
          Nonces,       \* Nonce192 values, each a sequence of NonceBytes bytes
          AssociatedData, Plaintexts   \* byte sequences callers pass

(* The bytes callers pass.                                                 *)
InputBytes ==
    UNION {{s[i] : i \in 1..Len(s)} : s \in Nonces \cup AssociatedData \cup Plaintexts}

ASSUME NoncesAssumption == \A nonce \in Nonces : Len(nonce) = NonceBytes
ASSUME InputsAssumption ==
           Nonces \cup AssociatedData \cup Plaintexts \subseteq Seq(InputBytes)

(* Every byte string fits its length field, as a std::size_t does: the 32  *)
(* bytes are those of the modelled headers and length fields.              *)
ASSUME LengthAssumption ==
           \A a \in AssociatedData, p \in Plaintexts :
               32 + NonceBytes + Len(a) + Len(p) \in U64
-----------------------------------------------------------------------------
Idle == [pc |-> "idle"]

VARIABLES keys,     \* the key pair both sides hold
          sealed,   \* every seal so far: arguments and SealedMessage
          call,     \* the open call in progress: its packet and its step
          streamed, \* history: frames this open call evaluated under K_enc
          result    \* what the last finished open returned

vars == <<keys, sealed, call, streamed, result>>

Init == /\ keys \in KeyPairs
        /\ sealed = {}
        /\ call = Idle
        /\ streamed = {}
        /\ result = NullOpt

(* The caller keeps each nonce for one message, as the API demands.        *)
Seal(nonce, associated_data, plaintext, tag_size) ==
    LET message == seal(keys, nonce, associated_data, plaintext, tag_size)
    IN  /\ call = Idle
        /\ \A s \in sealed : s.nonce # nonce
        /\ sealed' = sealed \cup
             {[nonce |-> nonce, associated_data |-> associated_data,
               plaintext |-> plaintext, ciphertext |-> message.ciphertext,
               tag |-> message.tag]}
        /\ UNCHANGED <<keys, call, streamed, result>>

(* What arrives is built from a sealed message: a byte may be damaged, or  *)
(* the tag shortened; associated data and ciphertext may be cut elsewhere, *)
(* and the nonce may be another message's.                                 *)
Damaged(s) == {[s EXCEPT ![i] = Xor(@, Const("damage"))] : i \in 1..Len(s)}

Arrivals(s) ==
    LET sent == s.associated_data \o s.ciphertext
    IN  ({sent} \X (Damaged(s.tag) \cup {Prefix(s.tag, t) : t \in 0..Len(s.tag)}))
            \cup (Damaged(sent) \X {s.tag})

Cut(nonce, arrival, k) ==
    LET bytes == arrival[1]
    IN  [nonce |-> nonce, associated_data |-> Prefix(bytes, k),
         ciphertext |-> SubSeq(bytes, k + 1, Len(bytes)), tag |-> arrival[2]]

Places(s) == 0..(Len(s.associated_data) + Len(s.ciphertext))

Packets(s) ==
    {Cut(n, a, k) : n \in Nonces, a \in Arrivals(s), k \in Places(s)}

OpenCall(packet) ==
    /\ call = Idle
    /\ call' = [pc |-> "called", packet |-> packet]
    /\ streamed' = {}
    /\ UNCHANGED <<keys, sealed, result>>

Reject == /\ call' = Idle
          /\ result' = NullOpt
          /\ UNCHANGED <<keys, sealed, streamed>>

OpenUnsupportedTag ==
    /\ call.pc = "called"
    /\ Len(call.packet.tag) \notin TagSizes
    /\ Reject

Verified(packet) ==
    verify_tag(keys.authentication_key,
               frame_authentication_context(packet.nonce, packet.associated_data,
                                            Len(packet.tag)),
               packet.ciphertext, packet.tag)

OpenVerifyFails ==
    /\ call.pc = "called"
    /\ Len(call.packet.tag) \in TagSizes
    /\ ~Verified(call.packet)
    /\ Reject

MutantOpenVerify ==
    /\ call.pc = "called"
    /\ Len(call.packet.tag) \in TagSizes
    /\ call' = [call EXCEPT !.pc = "verified"]
    /\ UNCHANGED <<keys, sealed, streamed, result>>

OpenVerify ==
    /\ call.pc = "called"
    /\ Len(call.packet.tag) \in TagSizes
    /\ Verified(call.packet)
    /\ call' = [call EXCEPT !.pc = "verified"]
    /\ UNCHANGED <<keys, sealed, streamed, result>>

OpenDecrypt ==
    LET p == call.packet IN
    /\ call.pc = "verified"
    /\ streamed' = StreamFrames(p.nonce, Len(p.ciphertext), Len(p.tag))
    /\ result' = [opened |-> TRUE, packet |-> p,
                  plaintext |-> apply_keystream(keys.encryption_key, p.nonce,
                                                p.ciphertext, Len(p.tag))]
    /\ call' = Idle
    /\ UNCHANGED <<keys, sealed>>

Next == \/ \E n \in Nonces, a \in AssociatedData, p \in Plaintexts, t \in TagSizes :
              Seal(n, a, p, t)
        \/ \E s \in sealed : \E packet \in Packets(s) : OpenCall(packet)
        \/ OpenUnsupportedTag \/ OpenVerifyFails \/ OpenVerify \/ OpenDecrypt

Spec == Init /\ [][Next]_vars /\ WF_vars(OpenUnsupportedTag)
             /\ WF_vars(OpenVerifyFails) /\ WF_vars(OpenVerify)
             /\ WF_vars(OpenDecrypt)

-----------------------------------------------------------------------------
PacketOf(s) == [nonce |-> s.nonce, associated_data |-> s.associated_data,
                ciphertext |-> s.ciphertext, tag |-> s.tag]

(* Every variable has its type; a packet under open is one that some       *)
(* sealed message can arrive as.                                           *)
TypeOK ==
    /\ keys \in KeyPairs
    /\ \A s \in sealed : /\ s.nonce \in Nonces
                         /\ s.associated_data \in AssociatedData
                         /\ s.plaintext \in Plaintexts
                         /\ Len(s.ciphertext) = Len(s.plaintext)
                         /\ Len(s.tag) \in TagSizes
    /\ call = Idle \/ \E s \in sealed : call \in [pc : {"called", "verified"},
                                                  packet : Packets(s)]
    /\ result.opened \in BOOLEAN

(* open returns a plaintext only for a packet whose nonce, associated data *)
(* boundary, ciphertext, tag and tag length are those of one seal, and it  *)
(* returns that seal's plaintext.                                          *)
Authentic ==
    result.opened => \E s \in sealed : /\ result.packet = PacketOf(s)
                                       /\ result.plaintext = s.plaintext

(* Authenticate before deriving plaintext: open evaluates K_enc on no      *)
(* stream frame that seal has not evaluated, whatever it is given.         *)
OpenDerivesNothingNew ==
    streamed \subseteq UNION {StreamFrames(s.nonce, Len(s.plaintext), Len(s.tag))
                                : s \in sealed}

(* Every ciphertext byte is masked by a keystream byte, and no keystream   *)
(* byte masks two bytes, within a message or across messages.              *)
KeystreamOnce ==
    \A s, t \in sealed : \A i \in 1..Len(s.plaintext), j \in 1..Len(t.plaintext) :
        LET mask(m, k) == Xor(m.plaintext[k], m.ciphertext[k])
        IN  /\ mask(s, i) # {}
            /\ <<s, i>> # <<t, j>> => mask(s, i) # mask(t, j)

(* What makes these inductive.  A recorded message is what seal returned   *)
(* for the inputs recorded with it, no two messages share a nonce, and a   *)
(* packet past the verification is one of the recorded messages.           *)
SealedBy(s, t) ==
    s = LET message == seal(keys, s.nonce, s.associated_data, s.plaintext, t)
        IN  [nonce |-> s.nonce, associated_data |-> s.associated_data,
             plaintext |-> s.plaintext, ciphertext |-> message.ciphertext,
             tag |-> message.tag]

SealInv ==
    /\ \A s \in sealed : \E t \in TagSizes : SealedBy(s, t)
    /\ \A s, u \in sealed : s.nonce = u.nonce => s = u

VerifiedInv ==
    call.pc = "verified" => \E s \in sealed : call.packet = PacketOf(s)

(* The inductive invariant: types, both parts above, and the two promises  *)
(* of open.                                                                *)
AeadInv == TypeOK /\ SealInv /\ VerifiedInv /\ Authentic /\ OpenDerivesNothingNew

Intact == call.pc = "called" /\ \E s \in sealed : call.packet = PacketOf(s)

(* A packet that arrives as it was sealed is always opened.                *)
IntactIsOpened == Intact ~> result.opened
=============================================================================
