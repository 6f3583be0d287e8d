-------------------------------- MODULE Filters --------------------------------
(***************************************************************************)
(* Sequences with one of their values left out.                            *)
(***************************************************************************)
EXTENDS Naturals, Sequences

\* The members of s other than v, in their order.
Without(s, v) ==
    LET W[i \in Nat] ==
            IF i = 0 THEN <<>> ELSE IF s[i] = v THEN W[i - 1] ELSE Append(W[i - 1], s[i])
    IN  W[Len(s)]
===============================================================================
