-------------------------------- MODULE Points --------------------------------
(***************************************************************************)
(* A row of user_points and the two updates that points.repository.ts runs *)
(* on it.  The level is a function of the accumulated points, which every  *)
(* update recomputes.  A member without a row is one with no points: both  *)
(* updates treat them alike.                                               *)
(***************************************************************************)
EXTENDS Integers

PointsRow == [accumulated: Nat, available: Nat]
NoPoints == [accumulated |-> 0, available |-> 0]

AtLeastZero(n) == IF n < 0 THEN 0 ELSE n

\* applyPointsDelta: one UPDATE, neither column falls below 0
Applied(row, accumulated, available) ==
  [accumulated |-> AtLeastZero(row.accumulated + accumulated),
   available |-> AtLeastZero(row.available + available)]

\* deductAvailablePoints: the condition the UPDATE is run under
Affords(row, amount) == row.available >= amount

Deducted(row, amount) == [row EXCEPT !.available = @ - amount]

=============================================================================
