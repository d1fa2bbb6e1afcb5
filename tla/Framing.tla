------------------------------- MODULE Framing -------------------------------
(***************************************************************************)
(* The byte strings that A1 and M1 hand to C1: the stream frame of a block *)
(* counter, the authentication context of a nonce and its associated data, *)
(* and the M1 frame of a context and a message.                            *)
(*                                                                         *)
(* A byte is a set of atoms (module Aead: the atoms whose exclusive-or it  *)
(* is).  The constant parts of a header (magic, separator, version, role,  *)
(* profile, reserved) are one constant byte each; the tag-size byte and    *)
(* the big-endian length and counter fields are spelled out.               *)
(***************************************************************************)
EXTENDS Naturals, Sequences

CONSTANT NonceBytes   \* length of a Nonce192: 24 in the code

ASSUME NonceBytesAssumption == NonceBytes \in Nat

Const(c) == {[const |-> c]}
Octet(n) == {[octet |-> n]}

-----------------------------------------------------------------------------
(* append_u64_be: value >> shift & 0xFF for shift 56, 48, ..., 0.          *)

Shr8(v)  == v \div 256
Shr16(v) == Shr8(Shr8(v))
Shr32(v) == Shr16(Shr16(v))
Shr56(v) == Shr8(Shr16(Shr32(v)))

(* The values a std::uint64_t holds: all but one byte shifted out leaves   *)
(* one byte.                                                               *)
U64 == {v \in Nat : Shr56(v) < 256}

u64_be(v) == << Octet(Shr56(v) % 256),
                Octet(Shr16(Shr32(v)) % 256),
                Octet(Shr8(Shr32(v)) % 256),
                Octet(Shr32(v) % 256),
                Octet(Shr8(Shr16(v)) % 256),
                Octet(Shr16(v) % 256),
                Octet(Shr8(v) % 256),
                Octet(v % 256) >>

-----------------------------------------------------------------------------
(* 48 bytes in the code: 16 of header, the nonce, the block counter.       *)
StreamHeader(tag_size) ==
    <<Const("PVC-AEAD-0"), Const("S"), Const("C1"), Octet(tag_size)>>

MutantStreamFrame(nonce, counter, tag_size) ==
    StreamHeader(tag_size) \o nonce

frame_stream_block(nonce, counter, tag_size) ==
    StreamHeader(tag_size) \o nonce \o u64_be(counter)

(* 17 bytes of header, the nonce, the length of the associated data, and   *)
(* the associated data.                                                    *)
ContextHeader(tag_size) ==
    <<Const("PVC-AEAD-0"), Const("A"), Const("C1"), Const("M1"), Octet(tag_size)>>

frame_authentication_context(nonce, associated_data, tag_size) ==
    ContextHeader(tag_size) \o nonce \o u64_be(Len(associated_data))
        \o associated_data

(* 30 bytes of header with the two lengths, the context, the message.      *)
MacHeader(tag_size) == <<Const("PVC-MAC-0"), Const("C1"), Octet(tag_size)>>

MutantMacFrame(context, message, tag_size) ==
    MacHeader(tag_size) \o message

frame_message(context, message, tag_size) ==
    MacHeader(tag_size) \o u64_be(Len(context)) \o u64_be(Len(message))
        \o context \o message

-----------------------------------------------------------------------------
(* Every byte a header may hold.                                           *)
HeaderBytes ==
    {Const(c) : c \in {"PVC-AEAD-0", "PVC-MAC-0", "S", "A", "C1", "M1"}}
        \cup {Octet(n) : n \in Nat}
=============================================================================
