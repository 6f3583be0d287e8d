------------------------------ MODULE LinkedLists ------------------------------
(***************************************************************************)
(* Singly linked lists in a heap: a function next from addresses to        *)
(* addresses, or to null.                                                  *)
(***************************************************************************)
EXTENDS Naturals, Sequences, FiniteSets

\* The k-th node of the list that starts at n, or null behind its end.
Path(next, null, n) ==
    LET P[k \in 0 .. Cardinality(DOMAIN next)] ==
            IF k = 0 THEN n ELSE IF P[k - 1] = null THEN null ELSE next[P[k - 1]]
    IN  P

\* The nodes of the list that starts at n.
NodesFrom(next, null, n) ==
    LET P == Path(next, null, n) IN {P[k] : k \in DOMAIN P} \ {null}

\* The values in these nodes, the first one first.
ValuesFrom(next, null, data, n) ==
    [k \in 1 .. Cardinality(NodesFrom(next, null, n)) |-> data[Path(next, null, n)[k - 1]]]
===============================================================================
