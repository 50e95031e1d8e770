--------------------------- MODULE MCRiskManager ---------------------------
(* A gate over two order ids with limits a few units wide. *)
EXTENDS RiskManager, TLC

MCMinPnl == -1

MCOrderIdSymmetry == Permutations(OrderIds)
=============================================================================
