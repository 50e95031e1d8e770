---------------------------- MODULE MCRiskOverOE ---------------------------
(* An instance of RiskOverOE for TLC *)
EXTENDS RiskOverOE

MCMinPnl == -8
=============================================================================
