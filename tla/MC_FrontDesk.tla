---------------------------- MODULE MC_FrontDesk ----------------------------
(* Small front desks for TLC: one or two units, two reservations, and date  *)
(* ranges that touch.                                                       *)
EXTENDS FrontDesk, TLC

(* Two ranges, one that starts when the other ends.                        *)
Touching == {[in |-> 1, out |-> 2], [in |-> 2, out |-> 3]}

Symmetry == Permutations(Reservations) \cup Permutations(Units) \cup Permutations(Workers)
=============================================================================
