---------------------------- MODULE MCRetention -----------------------------
(* Two overlapping runs, two events, days of two ticks.                   *)
EXTENDS Retention, TLC

Symmetry == Permutations(Jobs) \union Permutations(Events)

(* The clock runs long enough for a day to expire in two slices and for its *)
(* rollup to expire as well.                                                *)
ASSUME MaxNow > RollupKept + DayLength
=============================================================================
