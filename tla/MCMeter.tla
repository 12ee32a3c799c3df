------------------------------- MODULE MCMeter -------------------------------
(***************************************************************************)
(* An instance of Meter: two workers that step, or that advance out of     *)
(* order with a last advance by the owner, against totals that are absent, *)
(* too low and right.                                                      *)
(***************************************************************************)
EXTENDS Meter

CONSTANTS w1, w2

By(a, b, o) == [c \in Steppers \cup {Owner} |-> CASE c = w1 -> a [] c = w2 -> b [] OTHER -> o]

SomePhases ==
  {[calls |-> c, total |-> t, delayed |-> d] :
     c \in {By(<<0, 0, 0>>, <<0, 0>>, << >>), By(<<2>>, <<1, 3>>, <<4>>), By(<<3>>, <<2>>, << >>)},
     t \in {0, 2, 3, 5}, d \in BOOLEAN}
  \cup {[calls |-> By(<< >>, << >>, << >>), total |-> 2, delayed |-> FALSE]}
=============================================================================
