---------------------------- MODULE MCPointLedger ----------------------------
(* Small instances of PointLedger: members are independent of each other, so   *)
(* one with a post and a comment; handlers are interchangeable.                *)
EXTENDS PointLedger, TLC

CONSTANTS u1, p1, c1

OwnerOf == [i \in Items |-> u1]
SmallPolicies == {[experience |-> 2, available |-> 1], [experience |-> 1, available |-> 0]}

Symmetry == Permutations(Handlers)

=============================================================================
