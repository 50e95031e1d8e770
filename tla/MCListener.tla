----------------------------- MODULE MCListener ----------------------------
(* Two orders that share a level, part from it or change sides. *)
EXTENDS Listener, TLC

MCInfo == {[side |-> "BUY", qty |-> 2, price |-> 1],
           [side |-> "BUY", qty |-> 1, price |-> 1],
           [side |-> "SELL", qty |-> 1, price |-> 2]}

MCOrderIdSymmetry == Permutations(OrderIds)
=============================================================================
