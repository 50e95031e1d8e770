---------------------------- MODULE RiskManager ----------------------------
(***************************************************************************)
(* The pre-trade risk gate: RiskManager with the three trackers it owns,   *)
(* PositionTracker, ExposureTracker and PnlTracker.                        *)
(*                                                                         *)
(* The gate is single threaded, but its calls to the IOrderSender it wraps *)
(* block until the exchange answers, and the sender may deliver callbacks  *)
(* (fills, rejects, closes) of any order meanwhile.  Each order-entry      *)
(* method is therefore two actions: the part before sender_'s call, which  *)
(* sets call, and the part after it, which consumes call.  Callbacks may   *)
(* come between the two, and a callback that shuts the gate down runs its  *)
(* whole cancel loop (sweep) before the outer call continues.              *)
(*                                                                         *)
(* The environment is arbitrary here: a callback may name any order and    *)
(* any quantity, and the sender may answer anything.  RiskExchange adds    *)
(* an exchange that keeps its promises.                                    *)
(***************************************************************************)
EXTENDS Integers, FiniteSets

CONSTANTS
    OrderIds,            \* uint64_t order ids
    OrderQty,            \* quantities of requests and of fills
    Price,               \* prices of requests, fills and marks
    SeqNum,              \* market-data sequence numbers
    Word,                \* 2^32: quantities are uint32_t and wrap
    MaxQtyPerOrder, MaxQtyPerSide, MaxExposure, MaxPosition,    \* RiskLimits
    MaxOrdersPerSecond, MaxOrdersPerSeqNum, MaxUnackedOrders,
    MinPnl, MinValidPrice,
    PositionBound,       \* largest |position| explored, well inside int32_t
    CashBound            \* largest |cash| explored, exact in a double

ASSUME WordAssumption == Word \in Nat \ {0}

ASSUME FiniteIdsAssumption == IsFiniteSet(OrderIds)

ASSUME QtyAssumption == OrderQty \subseteq 0 .. Word - 1

ASSUME PriceAssumption == Price \subseteq Int /\ SeqNum \subseteq Nat

\* A gate whose limits already hold of an empty account
ASSUME LimitsAssumption ==
    /\ {MaxQtyPerOrder, MaxQtyPerSide, MaxExposure, MaxPosition} \subseteq 0 .. Word - 1
    /\ {MaxOrdersPerSecond, MaxOrdersPerSeqNum, MaxUnackedOrders} \subseteq Nat
    /\ MinPnl \in Int /\ MinPnl <= 0
    /\ MinValidPrice \in Int

ASSUME BoundAssumption == PositionBound \in Nat /\ CashBound \in Nat

Side == {"BUY", "SELL"}

Order == [side : Side, qty : 0 .. Word - 1]

\* The value of a map of orders at an id it does not hold
NoOrder == [side |-> "NONE", qty |-> 0]

Idle == [op |-> "idle"]

VARIABLES
    position,    \* PositionTracker and PnlTracker position_ (always equal)
    cash,        \* sell_revenue_ - buy_cost_
    mark,        \* mark_price_
    exposure,    \* ExposureTracker: pending orders and outstanding qty per side
    open,        \* open_orders_: side and qty as last sent, never reduced by fills
    perSecond, perSeq, lastSeq, unacked,    \* rate-limit state
    isShutdown,
    call,        \* the send, modify or delete that waits for the sender
    cancelling,  \* ids cancel_all_open_orders has still to delete
    sweep        \* ids the shutdown's own cancel loop has still to delete

account == <<position, cash, mark>>
rates == <<perSecond, perSeq, lastSeq, unacked>>
frames == <<call, cancelling, sweep>>
vars == <<account, exposure, open, rates, isShutdown, frames>>

-----------------------------------------------------------------------------
(* Trackers *)

Abs(n) == IF n < 0 THEN -n ELSE n

Wrap(n) == n % Word

\* n counted in the direction of side: what buys add and sells subtract
Signed(side, n) == IF side = "BUY" THEN n ELSE -n

Pnl == cash + position * mark

AtLimit == Abs(position) >= MaxPosition

WouldExceedLimit(side, qty) == Abs(position + Signed(side, qty)) > MaxPosition

WouldIncreaseAbsPosition(side) == Signed(side, position) > 0

\* How far the position could go in the direction of side if that side filled
Exposure(side) ==
    LET held == Signed(side, position)
    IN  Wrap((IF held > 0 THEN held ELSE 0) + exposure.outstanding[side])

WouldExceedExposure(side, qty) == Wrap(Exposure(side) + qty) > MaxExposure

OnOrderSent(e, id, order) ==
    [pending     |-> [e.pending EXCEPT ![id] = order],
     outstanding |-> [e.outstanding EXCEPT ![order.side] = Wrap(@ + order.qty)]]

OnOrderRemoved(e, id) ==
    IF e.pending[id] = NoOrder
    THEN e
    ELSE [pending     |-> [e.pending EXCEPT ![id] = NoOrder],
          outstanding |-> [e.outstanding EXCEPT
                             ![e.pending[id].side] = Wrap(@ - e.pending[id].qty)]]

\* Mutant: a fill lowers the side's total and forgets the order's own qty
OnOrderFilledTotalOnly(e, id, qty) ==
    IF e.pending[id] = NoOrder
    THEN e
    ELSE [e EXCEPT !.outstanding[e.pending[id].side] = Wrap(@ - qty)]

\* Mutant: a fill lowers the order's own qty and forgets the side's total
OnOrderFilledOrderOnly(e, id, qty) ==
    IF e.pending[id] = NoOrder
    THEN e
    ELSE [e EXCEPT !.pending[id] = IF @.qty = qty THEN NoOrder ELSE [@ EXCEPT !.qty = Wrap(@ - qty)]]

OnOrderFilled(e, id, qty) ==
    LET order == e.pending[id]
        left  == Wrap(order.qty - qty)
    IN  IF order = NoOrder
        THEN e
        ELSE [pending     |-> [e.pending EXCEPT ![id] =
                                 IF left = 0 THEN NoOrder ELSE [order EXCEPT !.qty = left]],
              outstanding |-> [e.outstanding EXCEPT ![order.side] = Wrap(@ - qty)]]

OpenIds == {id \in OrderIds : open[id] # NoOrder}

-----------------------------------------------------------------------------
(* Risk checks *)

\* Mutant: the exposure limit is forgotten
AddsWithinLimitsNoExposure(side, qty) ==
    /\ Wrap(exposure.outstanding[side] + qty) <= MaxQtyPerSide
    /\ ~(AtLimit /\ WouldIncreaseAbsPosition(side))
    /\ ~WouldExceedLimit(side, qty)

\* The four limits on qty more on one side
AddsWithinLimits(side, qty) ==
    /\ Wrap(exposure.outstanding[side] + qty) <= MaxQtyPerSide
    /\ ~WouldExceedExposure(side, qty)
    /\ ~(AtLimit /\ WouldIncreaseAbsPosition(side))
    /\ ~WouldExceedLimit(side, qty)

\* Mutant: new orders are not stopped by a shutdown
CheckNewOrderWhenShut(id, side, qty, price) ==
    /\ price >= MinValidPrice
    /\ qty <= MaxQtyPerOrder
    /\ AddsWithinLimits(side, qty)
    /\ open[id] = NoOrder

CheckNewOrder(id, side, qty, price) ==
    /\ ~isShutdown
    /\ price >= MinValidPrice
    /\ qty <= MaxQtyPerOrder
    /\ AddsWithinLimits(side, qty)
    /\ open[id] = NoOrder

\* An increase is measured against the qty last sent, a flip adds all of qty
CheckModifyOrder(id, side, qty, price) ==
    /\ ~isShutdown
    /\ open[id] # NoOrder
    /\ price >= MinValidPrice
    /\ qty <= MaxQtyPerOrder
    /\ IF side = open[id].side
       THEN qty > open[id].qty => AddsWithinLimits(side, qty - open[id].qty)
       ELSE AddsWithinLimits(side, qty)

\* The per-second count after refresh_rate_window; elapsed: a second has passed
RefreshRateWindow(elapsed) == IF elapsed THEN 0 ELSE perSecond

\* Mutant: off by one in the per-second limit
CheckRateLimitsOffByOne(sent) ==
    /\ sent <= MaxOrdersPerSecond
    /\ perSeq < MaxOrdersPerSeqNum
    /\ unacked < MaxUnackedOrders

CheckRateLimits(sent) ==
    /\ sent < MaxOrdersPerSecond
    /\ perSeq < MaxOrdersPerSeqNum
    /\ unacked < MaxUnackedOrders

\* Mutants: a short position past the limit, or the PNL floor, is forgotten
BreachedLongOnly == Pnl < MinPnl \/ position > MaxPosition
BreachedPosition == Abs(position) > MaxPosition

Breached == Pnl < MinPnl \/ Abs(position) > MaxPosition

\* Mutant: judged before the handler's own effect
CheckAndShutdownEarly ==
    IF ~isShutdown /\ Breached
    THEN isShutdown' = TRUE /\ sweep' = OpenIds'
    ELSE UNCHANGED <<isShutdown, sweep>>

\* The end of every handler that calls check_and_shutdown_if_needed: judged on
\* the state the handler leaves, and its cancel loop covers the orders then open
CheckAndShutdown ==
    IF ~isShutdown /\ Breached'
    THEN isShutdown' = TRUE /\ sweep' = OpenIds'
    ELSE UNCHANGED <<isShutdown, sweep>>

-----------------------------------------------------------------------------
(* Order entry *)

Init ==
    /\ position = 0 /\ cash = 0 /\ mark = 0
    /\ exposure = [pending |-> [id \in OrderIds |-> NoOrder], outstanding |-> [s \in Side |-> 0]]
    /\ open = [id \in OrderIds |-> NoOrder]
    /\ perSecond = 0 /\ perSeq = 0 /\ lastSeq = 0 /\ unacked = 0
    /\ isShutdown = FALSE
    /\ call = Idle /\ cancelling = {} /\ sweep = {}

\* No method is on the stack: the strategy may call one
Ready == call = Idle /\ cancelling = {} /\ sweep = {}

\* Either the request passes and goes to the sender, or only the window moved
Request(op, id, order, elapsed, passes) ==
    LET sent == RefreshRateWindow(elapsed)
    IN  /\ Ready
        /\ IF passes /\ CheckRateLimits(sent)
           THEN /\ unacked' = unacked + 1
                /\ perSecond' = sent + 1
                /\ perSeq' = perSeq + 1
                /\ call' = [op |-> op, id |-> id, order |-> order]
           ELSE /\ perSecond' = sent
                /\ UNCHANGED <<unacked, perSeq, call>>
        /\ UNCHANGED <<account, exposure, open, lastSeq, isShutdown, cancelling, sweep>>

SendNewOrder(id, side, qty, price, elapsed) ==
    Request("new", id, [side |-> side, qty |-> qty], elapsed,
            CheckNewOrder(id, side, qty, price))

ModifyOrder(id, side, qty, price, elapsed) ==
    Request("modify", id, [side |-> side, qty |-> qty], elapsed,
            CheckModifyOrder(id, side, qty, price))

\* The sender has answered a send or modify: ok registers the order as asked,
\* whatever callbacks did to it meanwhile
Registers(ok, before) ==
    /\ sweep = {}
    /\ call' = Idle
    /\ unacked' = unacked - 1
    /\ IF ok
       THEN /\ open' = [open EXCEPT ![call.id] = call.order]
            /\ exposure' = OnOrderSent(before, call.id, call.order)
       ELSE UNCHANGED <<open, exposure>>
    /\ UNCHANGED <<account, perSecond, perSeq, lastSeq, cancelling>>
    /\ CheckAndShutdown

SendReturns(ok) ==
    call.op = "new" /\ Registers(ok, exposure)

\* Mutant: the old registration of the order is not removed first
ModifyReturnsLeaky(ok) ==
    call.op = "modify" /\ Registers(ok, exposure)

ModifyReturns(ok) ==
    call.op = "modify" /\ Registers(ok, OnOrderRemoved(exposure, call.id))

\* Drops id from both maps, where it is in them
Forget(id) ==
    /\ exposure' = OnOrderRemoved(exposure, id)
    /\ open' = [open EXCEPT ![id] = NoOrder]

\* The sender has answered a delete of id
Deletes(id, ok) ==
    /\ IF ok THEN Forget(id) ELSE UNCHANGED <<exposure, open>>
    /\ UNCHANGED <<account, rates, isShutdown>>

\* No check at all: deletes pass after shutdown and for unknown ids
DeleteOrder(id) ==
    /\ Ready
    /\ call' = [op |-> "delete", id |-> id]
    /\ UNCHANGED <<account, exposure, open, rates, isShutdown, cancelling, sweep>>

DeleteReturns(ok) ==
    /\ call.op = "delete" /\ sweep = {}
    /\ Deletes(call.id, ok)
    /\ call' = Idle
    /\ UNCHANGED <<cancelling, sweep>>

\* Takes a copy of the open ids; the loop below deletes them in map order
CancelAllOpenOrders ==
    /\ Ready
    /\ cancelling' = OpenIds
    /\ UNCHANGED <<account, exposure, open, rates, isShutdown, call, sweep>>

CancelReturns(id, ok) ==
    /\ id \in cancelling /\ sweep = {}
    /\ Deletes(id, ok)
    /\ cancelling' = cancelling \ {id}
    /\ UNCHANGED <<call, sweep>>

\* Mutant: the shutdown retries a delete until it is accepted
SweepReturnsRetrying(id, ok) ==
    /\ id \in sweep
    /\ Deletes(id, ok)
    /\ sweep' = IF ok THEN sweep \ {id} ELSE sweep
    /\ UNCHANGED <<call, cancelling>>

\* The same loop, run by check_and_shutdown_if_needed
SweepReturns(id, ok) ==
    /\ id \in sweep
    /\ Deletes(id, ok)
    /\ sweep' = sweep \ {id}
    /\ UNCHANGED <<call, cancelling>>

-----------------------------------------------------------------------------
(* Callbacks and market-data hooks *)

\* A fill of an order the gate does not know is logged and otherwise ignored
OnFill(id, qty, price, closed) ==
    /\ open[id] # NoOrder
    /\ LET bought == Signed(open[id].side, qty)
       IN  /\ position' = position + bought
           /\ cash' = cash - bought * price
    /\ Abs(position') <= PositionBound
    /\ Abs(cash') <= CashBound
    /\ exposure' = OnOrderFilled(exposure, id, qty)
    /\ open' = IF closed THEN [open EXCEPT ![id] = NoOrder] ELSE open
    /\ UNCHANGED <<mark, rates, call, cancelling>>
    /\ CheckAndShutdown

OnReject(id) == Forget(id) /\ UNCHANGED <<account, rates, isShutdown, frames>>

OnClose(id) == Forget(id) /\ UNCHANGED <<account, rates, isShutdown, frames>>

\* Moves the mark and judges nothing: the next check does
UpdateMarkPrice(price) ==
    /\ Ready
    /\ mark' = price
    /\ UNCHANGED <<position, cash, exposure, open, rates, isShutdown, frames>>

OnSeqNumUpdate(seq) ==
    /\ Ready
    /\ seq # lastSeq
    /\ lastSeq' = seq
    /\ perSeq' = 0
    /\ UNCHANGED <<account, exposure, open, perSecond, unacked, isShutdown, frames>>

\* check_and_shutdown_if_needed called by the strategy
CheckAndShutdownIfNeeded ==
    /\ Ready
    /\ UNCHANGED <<account, exposure, open, rates, call, cancelling>>
    /\ CheckAndShutdown

-----------------------------------------------------------------------------
Strategy ==
    \/ \E id \in OrderIds, side \in Side, qty \in OrderQty, price \in Price, elapsed \in BOOLEAN :
          \/ SendNewOrder(id, side, qty, price, elapsed)
          \/ ModifyOrder(id, side, qty, price, elapsed)
    \/ \E id \in OrderIds : DeleteOrder(id)
    \/ CancelAllOpenOrders
    \/ \E price \in Price : UpdateMarkPrice(price)
    \/ \E seq \in SeqNum : OnSeqNumUpdate(seq)
    \/ CheckAndShutdownIfNeeded

SenderAnswers ==
    \E ok \in BOOLEAN :
        \/ SendReturns(ok)
        \/ ModifyReturns(ok)
        \/ DeleteReturns(ok)
        \/ \E id \in OrderIds : CancelReturns(id, ok) \/ SweepReturns(id, ok)

Callback ==
    \E id \in OrderIds :
        \/ \E qty \in OrderQty, price \in Price, closed \in BOOLEAN : OnFill(id, qty, price, closed)
        \/ OnReject(id)
        \/ OnClose(id)

Next == Strategy \/ SenderAnswers \/ Callback

Spec == Init /\ [][Next]_vars

-----------------------------------------------------------------------------
(* Properties *)

\* Every variable keeps its type; in particular the rate counters never pass their
\* limits, whichever window they count in, and a send frees the slot it took.
TypeOK ==
    /\ position \in -PositionBound .. PositionBound
    /\ cash \in -CashBound .. CashBound
    /\ mark \in Price \cup {0}
    /\ exposure \in [pending : [OrderIds -> Order \cup {NoOrder}],
                     outstanding : [Side -> 0 .. Word - 1]]
    /\ open \in [OrderIds -> Order \cup {NoOrder}]
    /\ perSecond \in 0 .. MaxOrdersPerSecond
    /\ perSeq \in 0 .. MaxOrdersPerSeqNum
    /\ lastSeq \in SeqNum \cup {0}
    /\ unacked \in 0 .. 1
    /\ isShutdown \in BOOLEAN
    /\ call \in {Idle} \cup [op : {"delete"}, id : OrderIds]
                       \cup [op : {"new", "modify"}, id : OrderIds, order : Order]
    /\ cancelling \in SUBSET OrderIds
    /\ sweep \in SUBSET OrderIds

InFlight == call.op \in {"new", "modify"}

\* A gate whose position is past the limit has already shut down, however many
\* fills of however many orders took it there and whatever call they interrupt.
OverLimitIsShutdown == Abs(position) > MaxPosition => isShutdown

\* Once shut down the gate forwards no request, and the only order that can still
\* become open is the one the sender held when the gate shut down.
ShutdownAdmitsNothing ==
    [][isShutdown =>
        /\ isShutdown'
        /\ InFlight' => call' = call
        /\ \A id \in OpenIds' \ OpenIds : InFlight /\ call.id = id]_vars

\* The account of a gate that is not shut down goes under the PNL floor only by a
\* new mark price: no fill and no answered request leaves it there unnoticed.
OnlyMarkBreachesSilently ==
    [][Pnl' < MinPnl /\ ~isShutdown' => Pnl < MinPnl \/ mark' # mark]_vars

\* When the sender has answered a request, the account is above its PNL floor or
\* the gate has shut down: a floor crossed by a mark since the last check lets one
\* request through, never two.
AnsweredRequestIsJudged ==
    [][InFlight /\ ~InFlight' => Pnl' >= MinPnl \/ isShutdown']_vars

=============================================================================
