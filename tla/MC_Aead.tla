------------------------------- MODULE MC_Aead -------------------------------
(* Model-checking instance of Aead: two nonces, a key pair with distinct    *)
(* and one with equal halves, plaintexts of no byte, a partial block, and a *)
(* full block followed by a partial one.                                    *)
EXTENDS Aead

Byte(n) == {[byte |-> n]}
MCKeyPairs == {[encryption_key |-> "k1", authentication_key |-> "k2"],
               [encryption_key |-> "k1", authentication_key |-> "k1"]}
MCNonces == {<<Byte(1)>>, <<Byte(2)>>}
MCAssociatedData == {<<>>, <<Byte(1)>>}
MCPlaintexts == {<<>>, <<Byte(1)>>, <<Byte(1), Byte(1), Byte(2)>>}
=============================================================================
