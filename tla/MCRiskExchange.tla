--------------------------- MODULE MCRiskExchange --------------------------
(* Two orders of up to two units at an exchange that keeps its promises. *)
EXTENDS RiskExchange, TLC

MCMinPnl == -1

MCOrderIdSymmetry == Permutations(OrderIds)
=============================================================================
