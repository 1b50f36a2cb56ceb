------------------------------ MODULE Sorting -------------------------------
(***************************************************************************)
(* ORDER BY, and sort_by: the elements of a finite set in the order of a   *)
(* comparison, which is the set of the pairs it puts one before another.   *)
(***************************************************************************)
EXTENDS Integers, FiniteSets

Foregoing(S, before, x) == {y \in S : <<y, x>> \in before}

InTurn(S, before) ==
    [k \in 1..Cardinality(S) |->
        CHOOSE x \in S : Cardinality(Foregoing(S, before, x)) = k - 1]

(* filter: the elements of a sequence that are in a set, as they come.     *)
Positions(s, S) == {i \in DOMAIN s : s[i] \in S}
Keeping(s, S) ==
    LET at == Positions(s, S)
        places == InTurn(at, {p \in at \X at : p[1] < p[2]})
    IN [k \in DOMAIN places |-> s[places[k]]]

=============================================================================
