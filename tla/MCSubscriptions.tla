---------------------------- MODULE MCSubscriptions ---------------------------
(* Model checking of Subscriptions: names of which one begins the other, one *)
(* of them as long as the filter array.                                      *)
EXTENDS Subscriptions, TLC

CONSTANTS h1, h2, id1

MCName == {<<1>>, <<1, 2>>, <<2>>}

(* A table that fills up, with handlers added and removed while an event is  *)
(* handled; and subscriptions that cannot be sent.                           *)
MCBudgets == {
  [adds |-> 4, removes |-> 1, events |-> 1, sessions |-> 2, resets |-> 1, failures |-> 0],
  [adds |-> 3, removes |-> 1, events |-> 0, sessions |-> 3, resets |-> 1, failures |-> 1]}

Symmetry == Permutations(Who)
=============================================================================
