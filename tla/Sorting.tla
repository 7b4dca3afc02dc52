------------------------------- MODULE Sorting -------------------------------
(***************************************************************************)
(* sorted and the comprehensions of Python, as the stages use them.        *)
(*                                                                         *)
(* The element number k of an order is the one that has k - 1 others       *)
(* before it.  An order is a set of pairs.                                 *)
(***************************************************************************)
EXTENDS Naturals, Integers, Sequences, FiniteSets

InOrder(S, R) ==
    [k \in 1..Cardinality(S) |->
        CHOOSE x \in S : Cardinality({y \in S : <<y, x>> \in R}) = k - 1]

\* A set of numbers, the least first.
Ascending(S) == InOrder(S, {p \in S \X S : p[1] < p[2]})

\* The elements of s at the positions that at lists.
Through(s, at) == [k \in DOMAIN at |-> s[at[k]]]

\* The elements of s at the positions in P, in their order.
Picked(s, P) == Through(s, Ascending(P))

\* A stable sort: position i goes before j if its key is less, or no greater
\* and i is the earlier.
Earlier(key) ==
    {p \in (DOMAIN key) \X (DOMAIN key) :
        \/ key[p[1]] < key[p[2]]
        \/ key[p[1]] = key[p[2]] /\ p[1] < p[2]}
SortedBy(s, key) == Through(s, InOrder(DOMAIN s, Earlier(key)))
=============================================================================
