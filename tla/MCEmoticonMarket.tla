--------------------------- MODULE MCEmoticonMarket ---------------------------
(* Small instances of EmoticonMarket: packs share nothing but the balances, so   *)
(* one pack; its author, and one or two members that buy it.                     *)
EXTENDS EmoticonMarket, TLC

CONSTANTS u1, u2, p1

AuthorOf == [p \in Packs |-> u1]
EqualStart == [u \in Users |-> 2]

Symmetry == Permutations(Requests)

=============================================================================
