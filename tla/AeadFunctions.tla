---------------------------- MODULE AeadFunctions ----------------------------
(***************************************************************************)
(* PVC-AEAD-0 A1 and PVC-MAC-0 M1 as functions: the keystream, the tag, and *)
(* seal and open as the PVC-RotSymEnc-1 adapter offers them.               *)
(*                                                                         *)
(* A byte is the set of atoms whose exclusive-or it is, so XOR is the      *)
(* symmetric difference.  C1 is an ideal function: each output byte of     *)
(* each key and frame is an atom of its own.  What is checked is therefore *)
(* the construction around C1, not the strength of C1.                     *)
(***************************************************************************)
EXTENDS Framing

CONSTANTS BlockSize,    \* kBlockSize, also the length of a C1 output
          TagSizes      \* supported tag lengths in bytes

ASSUME BlockSizeAssumption == BlockSize \in Nat \ {0}
ASSUME TagSizeAssumption == TagSizes \subseteq 1..BlockSize

Xor(a, b) == (a \ b) \cup (b \ a)

(* pvc1::research_keyed_return_output_a2, as an ideal function.            *)
C1(key, frame) == [i \in 1..BlockSize |-> {[key |-> key, frame |-> frame, i |-> i]}]

Prefix(s, n) == SubSeq(s, 1, n)

-----------------------------------------------------------------------------
Blocks(n) == IF n = 0 THEN 0 ELSE 1 + ((n - 1) \div BlockSize)

(* The frames apply_keystream hands to C1 for an input of n bytes.         *)
StreamFrames(nonce, n, tag_size) ==
    {frame_stream_block(nonce, b, tag_size) : b \in 0..(Blocks(n) - 1)}

MutantPadded(key, nonce, input, tag_size) ==
    [j \in 1..(BlockSize * Blocks(Len(input))) |->
        Xor(IF j <= Len(input) THEN input[j] ELSE {},
            C1(key, frame_stream_block(nonce, (j - 1) \div BlockSize,
                                       tag_size))[1 + ((j - 1) % BlockSize)])]

apply_keystream(key, nonce, input, tag_size) ==
    [j \in 1..Len(input) |->
        IF (j - 1) \div BlockSize < Blocks(Len(input))
        THEN Xor(input[j],
                     C1(key, frame_stream_block(nonce, (j - 1) \div BlockSize,
                                                tag_size))[1 + ((j - 1) % BlockSize)])
        ELSE {}]

MutantComputeTag(key, context, message, tag_size) ==
    Prefix(C1(key, frame_message(context, message, BlockSize)), tag_size)

compute_tag(key, context, message, tag_size) ==
    Prefix(C1(key, frame_message(context, message, tag_size)), tag_size)

MutantVerifyTag(key, context, message, supplied_tag) ==
    LET expected == C1(key, frame_message(context, message, Len(supplied_tag)))
    IN  /\ Len(supplied_tag) \in TagSizes
        /\ \A i \in 1..(Len(supplied_tag) - 1) : expected[i] = supplied_tag[i]

(* The comparison over the supplied length, after the length is accepted.  *)
verify_tag(key, context, message, supplied_tag) ==
    LET expected == C1(key, frame_message(context, message, Len(supplied_tag)))
    IN  /\ Len(supplied_tag) \in TagSizes
        /\ \A i \in 1..Len(supplied_tag) : Xor(expected[i], supplied_tag[i]) = {}

-----------------------------------------------------------------------------
NullOpt == [opened |-> FALSE]

(* pvcrotsymenc1::seal; tag_size is one of the enumerators.                *)
seal(keys, nonce, associated_data, plaintext, tag_size) ==
    LET ciphertext == apply_keystream(keys.encryption_key, nonce, plaintext, tag_size)
        context == frame_authentication_context(nonce, associated_data, tag_size)
    IN  [ciphertext |-> ciphertext,
         tag |-> compute_tag(keys.authentication_key, context, ciphertext, tag_size)]

(* pvcrotsymenc1::open, from call to return (module Aead has its steps).   *)
open(keys, nonce, associated_data, ciphertext, tag) ==
    IF Len(tag) \in TagSizes /\ verify_tag(
           keys.authentication_key,
           frame_authentication_context(nonce, associated_data, Len(tag)),
           ciphertext, tag)
    THEN [opened |-> TRUE,
          plaintext |-> apply_keystream(keys.encryption_key, nonce, ciphertext, Len(tag))]
    ELSE NullOpt
=============================================================================
