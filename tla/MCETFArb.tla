------------------------------ MODULE MCETFArb -----------------------------
(* An instance of ETFArb: a basket of two dorms, and a start with one UNDY  *)
(* that the last run left unsold                                           *)
EXTENDS ETFArb

MCDormIds == <<"D1", "D2">>
MCStartPosition == [s \in {"D1", "D2", "UNDY", "BLUE"} |-> IF s = "UNDY" THEN 1 ELSE 0]
=============================================================================
