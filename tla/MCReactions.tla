----------------------------- MODULE MCReactions ------------------------------
(* Model values and bounds for Reactions.                                  *)
EXTENDS Reactions, TLC

\* clicks are interchangeable
ReactionsSymmetry == Permutations(Calls)

===============================================================================
