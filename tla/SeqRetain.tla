----------------------------- MODULE SeqRetain ------------------------------
(***************************************************************************)
(* What remains of a sequence when Vec::retain keeps the elements of a     *)
(* set, in the order they had.  It is defined by position rather than with *)
(* SelectSeq, so that the proofs can say what it contains.                 *)
(***************************************************************************)
EXTENDS Naturals, Sequences, FiniteSets

Members(s) == {s[i] : i \in 1..Len(s)}

(* How many of the positions P come no later than i. *)
Rank(P, i) == Cardinality({j \in P : j <= i})

Kept(s, K) == {i \in 1..Len(s) : s[i] \in K}

Retain(s, K) ==
    [k \in 1..Cardinality(Kept(s, K)) |->
        s[CHOOSE i \in Kept(s, K) : Rank(Kept(s, K), i) = k]]
=============================================================================
