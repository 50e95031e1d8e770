-------------------------- MODULE MCSymbolManager -------------------------
(* An instance of SymbolManager for TLC *)
EXTENDS SymbolManager

MCBudgets == {[updates |-> 0, trades |-> 3], [updates |-> 1, trades |-> 1], [updates |-> 3, trades |-> 0]}
=============================================================================
