------------------------------- MODULE Queues -------------------------------
(***************************************************************************)
(* The queues of the standard library that the managers keep their threads *)
(* and tasks in.  A definition by positions, without recursion, so that    *)
(* QueueProofs can reason about it.                                        *)
(***************************************************************************)
EXTENDS Naturals, Sequences, FiniteSets

\* VecDeque::retain: the members of S, in the order of the sequence.
Retain(s, S) ==
    LET kept   == {i \in 1..Len(s) : s[i] \in S}
        nth(n) == CHOOSE i \in kept : Cardinality({j \in kept : j <= i}) = n
    IN  [n \in 1..Cardinality(kept) |-> s[nth(n)]]
=============================================================================
