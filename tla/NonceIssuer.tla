----------------------------- MODULE NonceIssuer -----------------------------
(***************************************************************************)
(* What PersistentNonceCounter::allocate promises to its callers, with no  *)
(* file, lock or process in sight: the nonces that calls return, in the    *)
(* order in which they return, belong to one scope and strictly increase.  *)
(* A call may skip values (a crash after the record was replaced), it may  *)
(* never go back.                                                          *)
(***************************************************************************)
EXTENDS Naturals, Sequences

CONSTANTS Scopes,    \* NonceScope128 identifiers callers pass
          MaxNonce   \* the largest nonce, 2^192 - 1 in the code

VARIABLE issued      \* the successful returns so far, oldest first

Ticket == [scope : Scopes, nonce : 0..MaxNonce]

Init == issued = <<>>

Issue(t) ==
    /\ \A i \in 1..Len(issued) : /\ issued[i].scope = t.scope
                                 /\ issued[i].nonce < t.nonce
    /\ issued' = Append(issued, t)

Next == \E t \in Ticket : Issue(t)

Spec == Init /\ [][Next]_issued
=============================================================================
