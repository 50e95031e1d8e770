----------------------------- MODULE RiskOverOE ----------------------------
(***************************************************************************)
(* RiskManager with OEClient as its sender ("Implements IOrderSender so a  *)
(* RiskManager can use it"), and its callbacks registered with the client. *)
(*                                                                         *)
(* Where RiskExchange assumes that true means done and that callbacks tell *)
(* the exchange's story in its order, this module takes the answers and    *)
(* the callbacks from the client's one stream.  A callback runs inside the *)
(* wait that reads its message; when it shuts the gate down, the cancel    *)
(* loop deletes from there, with waits of its own on the same stream, and  *)
(* the interrupted wait goes on afterwards.  outer is that wait.           *)
(*                                                                         *)
(* Bounds: a modify keeps its side, a second has passed before each        *)
(* request, and the mark does not move; RiskManager and RiskExchange cover *)
(* flips, rates and marks.                                                 *)
(***************************************************************************)
EXTENDS RiskManager, Sequences, Functions

CONSTANTS
    MaxOrders, MaxQty    \* of OEClient

VARIABLES
    resting, executed, stream, connected, lastId, liveOrders, waiting, returned, reported,
    outer,       \* the client call interrupted by a shutdown, after its last message
    side,        \* the side each order was sent with
    missed,      \* history: qty of each order filled and read while it was not open
    doubtful,    \* history: orders whose answers were misread
    spared,      \* history: the order in flight when the gate shut down
    reentered    \* history: a wait was interrupted before its answer

\* cancel_all_open_orders and the waits for no-wait sends are not used by the gate
Client == INSTANCE OEClient WITH cancelling <- {}, owed <- <<>>

ASSUME IdsAssumption ==
    /\ MaxOrders \in Nat \ {0} /\ OrderIds = 1 .. MaxOrders
    /\ MaxQty \in Nat \ {0} /\ OrderQty = 1 .. MaxQty

None == Client!None
answers == <<waiting, returned>>
clientVars == <<resting, executed, stream, connected, lastId, liveOrders, reported, answers>>
histories == <<side, missed, doubtful, spared, reentered>>
allVars == <<vars, clientVars, outer, histories>>

NoFrame == [waiting |-> None, returned |-> None]

OverInit ==
    /\ Init
    /\ Client!Init
    /\ outer = NoFrame
    /\ side = [id \in OrderIds |-> "NONE"]
    /\ missed = [id \in OrderIds |-> 0]
    /\ doubtful = {} /\ spared = {} /\ reentered = FALSE

-----------------------------------------------------------------------------
(* Requests: the gate's checks, and the client's send if they pass *)

\* The client's request, if the gate's step hands one over
HandsOver(request) == IF call' = Idle THEN UNCHANGED clientVars ELSE request

SendNew(id, s, qty, price) ==
    /\ id = lastId + 1
    /\ SendNewOrder(id, s, qty, price, TRUE)
    /\ HandsOver(Client!SendNewOrder(id, qty))
    /\ side' = IF call' = Idle THEN side ELSE [side EXCEPT ![id] = s]
    /\ UNCHANGED <<outer, missed, doubtful, spared, reentered>>

Modify(id, qty, price) ==
    /\ open[id] # NoOrder
    /\ ModifyOrder(id, open[id].side, qty, price, TRUE)
    /\ HandsOver(Client!ModifyOrder(id, qty))
    /\ UNCHANGED <<outer, histories>>

Delete(id) ==
    /\ DeleteOrder(id)
    /\ Client!DeleteOrder(id)
    /\ UNCHANGED <<outer, histories>>

CancelAll == CancelAllOpenOrders /\ UNCHANGED <<clientVars, outer, histories>>

\* Either cancel loop sends its next delete
LoopDelete(id) ==
    /\ IF sweep # {} THEN id \in sweep ELSE id \in cancelling
    /\ returned = None
    /\ Client!DeleteOrder(id)
    /\ UNCHANGED <<vars, outer, histories>>

-----------------------------------------------------------------------------
(* Messages and callbacks *)

\* Mutant: the fill callback is not registered
CallbackMissing(m) ==
    CASE m.type = "REJECT" -> OnReject(m.id)
      [] m.type = "CLOSE" -> OnClose(m.id)
      [] OTHER -> UNCHANGED vars

\* Mutant: a partial fill is reported as closing
CallbackClosesPartial(m) ==
    CASE m.type = "FILL" /\ open[m.id] # NoOrder ->
            \E price \in Price : OnFill(m.id, m.qty, price, TRUE)
      [] m.type = "REJECT" -> OnReject(m.id)
      [] m.type = "CLOSE" -> OnClose(m.id)
      [] OTHER -> UNCHANGED vars

\* Mutant: a fill of an order that is not registered moves the position, unjudged
CallbackCountsUnknown(m) ==
    CASE m.type = "FILL" /\ open[m.id] = NoOrder ->
            /\ position' = position + Signed(side[m.id], m.qty)
            /\ UNCHANGED <<cash, mark, exposure, open, rates, isShutdown, frames>>
      [] m.type = "REJECT" -> OnReject(m.id)
      [] m.type = "CLOSE" -> OnClose(m.id)
      [] OTHER -> UNCHANGED vars

\* What the client's callbacks do in the gate
CallbackOf(m) ==
    CASE m.type = "FILL" /\ open[m.id] # NoOrder ->
            \E price \in Price : OnFill(m.id, m.qty, price, m.closed)
      [] m.type = "REJECT" -> OnReject(m.id)
      [] m.type = "CLOSE" -> OnClose(m.id)
      [] OTHER -> UNCHANGED vars

\* How the gate is misled: by a fill before the order is registered, by a refused modify
\* of a live order, by a modify of a gone order that counts as success, and by a modify
\* that returns true on another message, its own answer still unread
Misleads(m) ==
    \/ m.type = "FILL" /\ open[m.id] = NoOrder
    \/ m.type = "REJECT" /\ resting[m.id] > 0

AnswerUnread(id) ==
    \E i \in 2 .. Len(stream) : stream[i].id = id /\ stream[i].type \in {"ACK", "REJECT"}

MisleadsModify(m) ==
    /\ waiting.op = "modify" /\ Client!EndsWell(m, waiting.id)
    /\ m.type = "REJECT" \/ AnswerUnread(waiting.id)

\* The wait after it has handled m
After(m) ==
    LET well == Client!EndsWell(m, waiting.id)
    IN  IF well \/ Client!EndsBadly(m, waiting.id)
        THEN [waiting |-> None, returned |-> [op |-> waiting.op, id |-> waiting.id, ok |-> well]]
        ELSE [waiting |-> waiting, returned |-> returned]

\* The step's shutdown has orders to cancel
Interrupts == sweep = {} /\ sweep' # {}

SparesInFlight == spared' = IF ~isShutdown /\ isShutdown' /\ InFlight THEN {call.id} ELSE spared

ReadResponse ==
    /\ Client!Responding /\ stream # <<>>
    /\ LET m == Head(stream)
       IN  /\ stream' = Tail(stream)
           /\ Client!Absorb(m)
           /\ CallbackOf(m)
           /\ IF Interrupts
              THEN outer' = After(m) /\ waiting' = None /\ returned' = None
              ELSE waiting' = After(m).waiting /\ returned' = After(m).returned /\ UNCHANGED outer
           /\ reentered' = (reentered \/ (Interrupts /\ outer'.waiting # None))
           /\ missed' = IF m.type = "FILL" /\ open[m.id] = NoOrder
                        THEN [missed EXCEPT ![m.id] = @ + m.qty] ELSE missed
           /\ doubtful' = doubtful \cup (IF Misleads(m) THEN {m.id} ELSE {})
                                   \cup (IF MisleadsModify(m) THEN {waiting.id} ELSE {})
    /\ SparesInFlight
    /\ UNCHANGED <<resting, executed, connected, lastId, side>>

ReadFails == Client!ReadFails /\ UNCHANGED <<vars, outer, histories>>

\* The gate goes on with what the client returned; after the last delete of a shutdown
\* the interrupted wait goes on
GateReturns ==
    /\ returned # None
    /\ \/ SendReturns(returned.ok)
       \/ ModifyReturns(returned.ok)
       \/ DeleteReturns(returned.ok)
       \/ CancelReturns(returned.id, returned.ok)
       \/ SweepReturns(returned.id, returned.ok)
    /\ LET resumes == sweep # {} /\ sweep' = {}
       IN  /\ waiting' = IF resumes THEN outer.waiting ELSE None
           /\ returned' = IF resumes THEN outer.returned ELSE None
           /\ outer' = IF resumes THEN NoFrame ELSE outer
    /\ SparesInFlight
    /\ UNCHANGED <<resting, executed, stream, connected, lastId, liveOrders, reported>>
    /\ UNCHANGED <<side, missed, doubtful, reentered>>

Environment ==
    /\ Client!Disconnect \/ \E id \in OrderIds, qty \in OrderQty : Client!ExchangeFills(id, qty)
    /\ UNCHANGED <<vars, outer, histories>>

-----------------------------------------------------------------------------
OverNext ==
    \/ \E id \in OrderIds :
          \/ \E qty \in OrderQty, price \in Price :
                (\E s \in Side : SendNew(id, s, qty, price)) \/ Modify(id, qty, price)
          \/ Delete(id)
          \/ LoopDelete(id)
    \/ CancelAll
    \/ ReadResponse \/ ReadFails \/ GateReturns
    \/ Environment

OverSpec == OverInit /\ [][OverNext]_allVars

\* recv returns what has arrived and a loop deletes its next order
FairOverSpec ==
    OverSpec /\ WF_allVars(ReadResponse \/ ReadFails \/ GateReturns \/ \E id \in OrderIds : LoopDelete(id))

-----------------------------------------------------------------------------
(* Properties *)

\* Every variable keeps its type; in particular the nested calls leave one answer at
\* most, and no fill is missed twice.
OverTypeOK ==
    /\ TypeOK
    /\ Client!TypeOK
    /\ outer.waiting = None \/ outer.returned = None
    /\ missed \in [OrderIds -> 0 .. MaxQty]
    /\ doubtful \subseteq OrderIds /\ spared \subseteq OrderIds

\* The gate over the client is still the gate: every step is one of RiskManager's or
\* leaves it alone, callbacks and nested cancel loops included.
ImplementsGate == Spec

Unread(id) == \E i \in DOMAIN stream : stream[i].id = id

\* Unless its answers were misread, or a shutdown cancelled it while its modify was in
\* flight, the gate's view of an order that it has read all about is the exchange's:
\* open while it rests, with what remains of it pending.
ViewsAgreeUnlessMisled ==
    connected => \A id \in OrderIds \ (doubtful \cup spared) :
        ~Unread(id) /\ (call # Idle => call.id # id) =>
            /\ open[id] # NoOrder <=> resting[id] > 0
            /\ exposure.pending[id].qty = resting[id]

SignedSum(count) == SumFunctionOnSet([id \in OrderIds |-> Signed(side[id], count[id])], OrderIds)

\* The gate's position misses the fills still unread, and for ever those it was told
\* of before it had registered their order: nothing else.
PositionMissesOnlyEarlyFills ==
    connected => SignedSum(executed) =
        position + SignedSum(missed) + SignedSum([id \in OrderIds |-> Client!UnreadFills(id)])

\* "SHUTDOWN complete. All open orders cancelled.": what still works at the exchange
\* then is the order whose send or modify was in flight, or one the gate was misled on.
ShutdownCancelsTheRest ==
    connected /\ isShutdown /\ Ready =>
        \A id \in OrderIds : resting[id] > 0 => id \in spared \cup doubtful

\* The client's own view survives the nesting: fills are handed over once, and live
\* orders are those at the exchange.
ClientStaysAccurate == Client!LiveOrdersCatchUp /\ Client!FillsReportedOnce

\* Every call returns, unless a shutdown's deletes interrupted it before its answer:
\* they may read that answer, and the wait then blocks for ever.
CallsReturnUnlessReentered == ~Ready ~> Ready \/ reentered
=============================================================================
