----------------------------- MODULE MC_Shopfront -----------------------------
(* Two cashiers and rows of one unit either way; and two properties with   *)
(* three units in five layouts: hotels with one and two rooms, all rooms in*)
(* one hotel, a lodge beside a house with its rentals, rooms and rentals in*)
(* one property, and rentals only.                                         *)
EXTENDS Shopfront, TLC

EitherWay == {-1, 1}

Layout(hotels, rentals, of) == [hotels |-> hotels, rentals |-> rentals, of |-> of]

Mixed ==
  {Layout({1, 2}, {}, <<1, 2, 2>>), Layout({1, 2}, {}, <<2, 2, 2>>),
   Layout({1}, {2, 3}, <<1, 2, 2>>), Layout({1}, {1, 3}, <<1, 1, 1>>),
   Layout({}, {1, 2, 3}, <<1, 2, 2>>)}

Symmetry == Permutations(Cashiers)
=============================================================================
