---------------------------- MODULE RiskExchange ---------------------------
(***************************************************************************)
(* RiskManager in front of an exchange that honours IOrderSender and the   *)
(* callbacks the way risk_manager.h asks ("The caller must notify          *)
(* RiskManager of exchange responses (fills, rejects, closes) so that      *)
(* internal state stays accurate"): true means done, false means the       *)
(* exchange changed nothing, each fill is reported once with closed set    *)
(* when nothing remains, and answers and callbacks come in the order in    *)
(* which the exchange acted.  Callbacks still come at any time, inside a   *)
(* blocked request too, and any request may be refused.                    *)
(***************************************************************************)
EXTENDS RiskManager, Functions

\* Limits so far below the word that the sums the gate compares with them do not wrap
ASSUME RoomAssumption ==
    /\ MaxQtyPerSide + MaxQtyPerOrder < Word
    /\ MaxExposure + MaxQtyPerOrder < Word

\* The orders of a session, each at its largest, and its position fit in the word
ASSUME SessionAssumption ==
    Cardinality(OrderIds) * MaxQtyPerOrder + PositionBound < Word

VARIABLES
    live,        \* our orders at the exchange, with the qty that remains
    traded,      \* the net position of all executions
    stretched    \* history: a same-side modify of an order with fills succeeded

exchange == <<live, traded>>
allVars == <<vars, exchange, stretched>>

ExchangeInit ==
    /\ Init
    /\ live = [id \in OrderIds |-> NoOrder]
    /\ traded = 0
    /\ stretched = FALSE

\* Forgets an order of ours
Drop(id) ==
    /\ live[id] # NoOrder
    /\ live' = [live EXCEPT ![id] = NoOrder]
    /\ UNCHANGED <<traded, stretched>>

Accept ==
    \/ /\ SendReturns(TRUE)
       /\ call.order.qty > 0
       /\ live' = [live EXCEPT ![call.id] = call.order]
       /\ UNCHANGED <<traded, stretched>>
    \/ /\ ModifyReturns(TRUE)
       /\ live[call.id] # NoOrder
       /\ call.order.qty > 0
       /\ live' = [live EXCEPT ![call.id] = call.order]
       /\ stretched' = \/ stretched
                       \/ /\ call.order.side = live[call.id].side
                          /\ live[call.id].qty < open[call.id].qty
       /\ UNCHANGED traded
    \/ DeleteReturns(TRUE) /\ Drop(call.id)
    \/ \E id \in OrderIds : (CancelReturns(id, TRUE) \/ SweepReturns(id, TRUE)) /\ Drop(id)

Refuse ==
    /\ \/ SendReturns(FALSE)
       \/ ModifyReturns(FALSE)
       \/ DeleteReturns(FALSE)
       \/ \E id \in OrderIds : CancelReturns(id, FALSE) \/ SweepReturns(id, FALSE)
    /\ UNCHANGED <<exchange, stretched>>

Execute(id, qty, price) ==
    LET left == live[id].qty - qty
    IN  /\ live[id] # NoOrder
        /\ qty > 0 /\ left >= 0
        /\ OnFill(id, qty, price, left = 0)
        /\ live' = [live EXCEPT ![id] = IF left = 0 THEN NoOrder ELSE [@ EXCEPT !.qty = left]]
        /\ traded' = traded + Signed(live[id].side, qty)
        /\ UNCHANGED stretched

\* The exchange ends an order unasked, and the right callback says so
Expel(id) == (OnReject(id) \/ OnClose(id)) /\ Drop(id)

ExchangeNext ==
    \/ Strategy /\ UNCHANGED <<exchange, stretched>>
    \/ Accept
    \/ Refuse
    \/ \E id \in OrderIds :
          \/ \E qty \in OrderQty, price \in Price : Execute(id, qty, price)
          \/ Expel(id)

\* A sender answers every request: MockOrderSender at once, OEClient by contract
Fairness == WF_allVars(Accept \/ Refuse)

ExchangeSpec == ExchangeInit /\ [][ExchangeNext]_allVars

FairExchangeSpec == ExchangeSpec /\ Fairness

-----------------------------------------------------------------------------
(* Properties *)

\* The gate and what the exchange holds keep their types: no execution makes the
\* quantity that remains of an order negative.
ExchangeTypeOK ==
    /\ TypeOK
    /\ live \in [OrderIds -> Order \cup {NoOrder}]
    /\ traded \in Int
    /\ stretched \in BOOLEAN

\* The gate's three views of its orders and its position never drift from the
\* exchange: pending is what remains, open names the same orders and sides, and
\* the position is what was executed, whatever callbacks interrupt which call.
ViewAgrees ==
    /\ exposure.pending = live
    /\ \A id \in OrderIds :
          /\ open[id] = NoOrder <=> live[id] = NoOrder
          /\ open[id].side = live[id].side
          /\ open[id].qty >= live[id].qty
    /\ position = traded

Working(side) ==
    SumFunctionOnSet([id \in OrderIds |-> live[id].qty],
                     {id \in OrderIds : live[id].side = side})

\* The running per-side totals equal the quantities working at the exchange: no
\* sequence of fills, modifies, flips and cancels leaks or wraps them.
OutstandingIsWorking == \A side \in Side : exposure.outstanding[side] = Working(side)

WithinLimits(side) ==
    /\ exposure.outstanding[side] <= MaxQtyPerSide
    /\ Exposure(side) <= MaxExposure

\* Until an order that has fills is modified on its own side, the per-side and
\* the exposure limits hold at all times, not just when a request is checked.
LimitsHoldUnlessStretched == stretched \/ \A side \in Side : WithinLimits(side)

\* "the system will not violate any risk limit" (test_risk.cpp) for max_qty_per_side
\* and max_exposure.  It fails: check_modify_order compares the new qty with the
\* qty last sent, which fills never reduce.
LimitsHold == \A side \in Side : WithinLimits(side)

\* Only an accepted request raises the worst case of a side, and only of its own
\* side: a fill moves the position and the outstanding qty together, so however
\* fills and closes interleave, no side's exposure grows by them.
OnlyAcceptRaisesExposure ==
    [][\A side \in Side :
          (Exposure(side))' > Exposure(side) =>
              InFlight /\ ~InFlight' /\ call.order.side = side]_allVars

\* Every method returns to the strategy, also when fills interrupt it and shut
\* the gate down in the middle, and when deletes are refused.
EveryCallReturns == ~Ready ~> Ready
=============================================================================
