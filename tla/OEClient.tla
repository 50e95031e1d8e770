------------------------------ MODULE OEClient -----------------------------
(***************************************************************************)
(* The order-entry client: requests over one TCP connection, answers and   *)
(* fills back in one stream, and a single strategy thread that reads the   *)
(* stream only while it waits in wait_for_response or wait_for_fill.       *)
(*                                                                         *)
(* The exchange is external.  Its answers are those the session recorded   *)
(* in oe_log.txt shows: a new order that rests is acknowledged, one that   *)
(* fills at once is answered by its fills alone, one that fills in part is *)
(* answered by the fill and then by an ACK; a delete is answered by CLOSE, *)
(* or by a REJECT that names an unknown order id.  A request is handled    *)
(* when it is sent: the client learns of it only through the stream, so it *)
(* cannot tell this from a later moment.                                   *)
(***************************************************************************)
EXTENDS Naturals, Sequences, Functions

CONSTANTS
    MaxOrders,    \* bound on the orders the strategy sends
    MaxQty        \* bound on what one order executes and leaves working in all

ASSUME BoundsAssumption == {MaxOrders, MaxQty} \subseteq Nat \ {0}

ClientIds == 1 .. MaxOrders

VARIABLES
    resting,      \* external: qty of each order working at the exchange
    executed,     \* external: qty of each order executed so far
    stream,       \* external: messages sent to the client and not yet read
    connected,    \* external: FALSE once the connection is lost
    lastId,       \* the last order id the strategy drew (++next_order_id_)
    owed,         \* ids sent by send_new_order_no_wait, not yet waited for
    cancelling,   \* ids cancel_all_open_orders has still to delete
    liveOrders,   \* live_orders_
    waiting,      \* the blocked call: its kind and order id
    returned,     \* the last call that returned, and what it returned
    reported      \* qty of each order handed to on_fill_cb_

exchange == <<resting, executed, connected>>
caller == <<lastId, owed, cancelling>>
client == <<liveOrders, reported>>
vars == <<exchange, stream, caller, client, waiting, returned>>

None == [op |-> "none"]

-----------------------------------------------------------------------------
(* Messages of the exchange *)

Ack(id) == [type |-> "ACK", id |-> id]
Reject(id, reason) == [type |-> "REJECT", id |-> id, reason |-> reason]
Fill(id, qty, closed) == [type |-> "FILL", id |-> id, qty |-> qty, closed |-> closed]
Close(id) == [type |-> "CLOSE", id |-> id]

Emit(msgs) == stream' = stream \o msgs

\* A request on a lost connection reaches nobody
Sends(handled) == IF connected THEN handled ELSE UNCHANGED <<resting, executed, stream>>

\* qty executed at once and rest left working, as answers to a new order
AnswersToNew(id, qty, rest) ==
    CASE qty = 0 -> {<<Ack(id)>>}
      [] qty > 0 /\ rest > 0 -> {<<Fill(id, qty, FALSE), Ack(id)>>}
      [] qty = 1 /\ rest = 0 -> {<<Fill(id, 1, TRUE)>>}
      [] OTHER -> {<<Fill(id, qty, TRUE)>>, <<Fill(id, 1, FALSE), Fill(id, qty - 1, TRUE)>>}

ExchangeTakesNew(id, qty) ==
    \/ \E now \in 0 .. qty :
          /\ resting' = [resting EXCEPT ![id] = qty - now]
          /\ executed' = [executed EXCEPT ![id] = now]
          /\ \E answers \in AnswersToNew(id, now, qty - now) : Emit(answers)
    \/ Emit(<<Reject(id, "INVALID_ORDER")>>) /\ UNCHANGED <<resting, executed>>

ExchangeTakesDelete(id) ==
    /\ Emit(<<IF resting[id] > 0 THEN Close(id) ELSE Reject(id, "UNKNOWN_ORDER_ID")>>)
    /\ resting' = [resting EXCEPT ![id] = 0]
    /\ UNCHANGED executed

ExchangeTakesModify(id, qty) ==
    /\ \/ /\ resting[id] > 0
          /\ resting' = [resting EXCEPT ![id] = qty]
          /\ Emit(<<Ack(id)>>)
       \/ /\ resting[id] > 0
          /\ Emit(<<Reject(id, "INVALID_ORDER")>>)
          /\ UNCHANGED resting
       \/ /\ resting[id] = 0
          /\ Emit(<<Reject(id, "UNKNOWN_ORDER_ID")>>)
          /\ UNCHANGED resting
    /\ UNCHANGED executed

\* A resting order trades; after a disconnect it trades unseen, which no state shows
ExchangeFills(id, qty) ==
    /\ connected
    /\ qty \in 1 .. resting[id]
    /\ resting' = [resting EXCEPT ![id] = @ - qty]
    /\ executed' = [executed EXCEPT ![id] = @ + qty]
    /\ Emit(<<Fill(id, qty, resting[id] = qty)>>)
    /\ UNCHANGED <<connected, caller, client, waiting, returned>>

\* The connection is lost, with what was not yet read.  The client notices at its
\* next read, so the loss is placed there.
Disconnect ==
    /\ connected /\ waiting # None
    /\ connected' = FALSE
    /\ stream' = <<>>
    /\ UNCHANGED <<resting, executed, caller, client, waiting, returned>>

-----------------------------------------------------------------------------
(* Requests *)

Init ==
    /\ resting = [id \in ClientIds |-> 0]
    /\ executed = [id \in ClientIds |-> 0]
    /\ stream = <<>>
    /\ connected = TRUE
    /\ lastId = 0 /\ owed = <<>> /\ cancelling = {}
    /\ liveOrders = {}
    /\ waiting = None /\ returned = None
    /\ reported = [id \in ClientIds |-> 0]

\* The strategy thread is outside the client
Free == waiting = None /\ cancelling = {}

Waits(op, id) == waiting' = [op |-> op, id |-> id] /\ returned' = None

SendNewOrder(id, qty) ==
    /\ Free /\ owed = <<>>
    /\ id = lastId + 1
    /\ lastId' = id
    /\ Sends(ExchangeTakesNew(id, qty))
    /\ Waits("new", id)
    /\ UNCHANGED <<connected, owed, cancelling, client>>

SendNewOrderNoWait(id, qty) ==
    /\ Free
    /\ id = lastId + 1
    /\ lastId' = id
    /\ owed' = Append(owed, id)
    /\ Sends(ExchangeTakesNew(id, qty))
    /\ returned' = None
    /\ UNCHANGED <<connected, cancelling, client, waiting>>

\* The arbs wait for the orders they sent without waiting, in the order sent
WaitForResponse ==
    /\ Free /\ owed # <<>>
    /\ owed' = Tail(owed)
    /\ Waits("new", Head(owed))
    /\ UNCHANGED <<exchange, stream, lastId, cancelling, client>>

DeleteOrder(id) ==
    /\ Free /\ owed = <<>>
    /\ id <= lastId
    /\ Sends(ExchangeTakesDelete(id))
    /\ Waits("delete", id)
    /\ UNCHANGED <<connected, caller, client>>

ModifyOrder(id, qty) ==
    /\ Free /\ owed = <<>>
    /\ id <= lastId
    /\ executed[id] + qty <= MaxQty
    /\ Sends(ExchangeTakesModify(id, qty))
    /\ Waits("modify", id)
    /\ UNCHANGED <<connected, caller, client>>

CancelAllOpenOrders ==
    /\ Free /\ owed = <<>>
    /\ cancelling' = liveOrders
    /\ returned' = None
    /\ UNCHANGED <<exchange, stream, lastId, owed, client, waiting>>

CancelNext(id) ==
    /\ waiting = None
    /\ id \in cancelling
    /\ cancelling' = cancelling \ {id}
    /\ Sends(ExchangeTakesDelete(id))
    /\ Waits("delete", id)
    /\ UNCHANGED <<connected, lastId, owed, client>>

\* try_redemption_arb waits for the fill of the order whose send returned true
WaitForFill(id) ==
    /\ Free /\ owed = <<>>
    /\ returned = [op |-> "new", id |-> id, ok |-> TRUE]
    /\ Waits("fill", id)
    /\ UNCHANGED <<exchange, stream, caller, client>>

-----------------------------------------------------------------------------
(* Reading *)

Responding == waiting.op \in {"new", "delete", "modify"}

\* Mutant: a closing fill leaves its order in live_orders_
AbsorbKeepsFilled(m) ==
    /\ liveOrders' = CASE m.type = "ACK" -> liveOrders \cup {m.id}
                       [] m.type = "CLOSE" -> liveOrders \ {m.id}
                       [] OTHER -> liveOrders
    /\ reported' = IF m.type = "FILL" THEN [reported EXCEPT ![m.id] = @ + m.qty] ELSE reported

\* Mutant: a wait reports the fills of its own order only
AbsorbOwnFills(m) ==
    /\ liveOrders' = CASE m.type = "ACK" -> liveOrders \cup {m.id}
                       [] m.type = "CLOSE" \/ (m.type = "FILL" /\ m.closed) -> liveOrders \ {m.id}
                       [] OTHER -> liveOrders
    /\ reported' = IF m.type = "FILL" /\ m.id = waiting.id
                   THEN [reported EXCEPT ![m.id] = @ + m.qty] ELSE reported

\* Mutant: both loops' callbacks run for one fill
AbsorbTwice(m) ==
    /\ liveOrders' = IF m.type = "ACK" THEN liveOrders \cup {m.id} ELSE liveOrders \ {m.id}
    /\ reported' = IF m.type = "FILL" THEN [reported EXCEPT ![m.id] = @ + 2 * m.qty] ELSE reported

\* What either loop does with every message it reads
Absorb(m) ==
    /\ liveOrders' = CASE m.type = "ACK" -> liveOrders \cup {m.id}
                       [] m.type = "CLOSE" \/ (m.type = "FILL" /\ m.closed) -> liveOrders \ {m.id}
                       [] OTHER -> liveOrders
    /\ reported' = IF m.type = "FILL" THEN [reported EXCEPT ![m.id] = @ + m.qty] ELSE reported

\* Mutant: a fill no longer ends the wait for a response
EndsWellWithoutFill(m, id) ==
    \/ m.type = "ACK" /\ m.id = id
    \/ m.type = "REJECT" /\ m.id = id /\ m.reason = "UNKNOWN_ORDER_ID"
    \/ m.type = "CLOSE"

\* The messages on which wait_for_response(id) returns true: any order's closing
\* fill or close will do
EndsWell(m, id) ==
    \/ m.type = "ACK" /\ m.id = id
    \/ m.type = "REJECT" /\ m.id = id /\ m.reason = "UNKNOWN_ORDER_ID"
    \/ m.type = "FILL" /\ m.closed
    \/ m.type = "CLOSE"

EndsBadly(m, id) == m.type = "REJECT" /\ m.id = id /\ m.reason # "UNKNOWN_ORDER_ID"

\* Mutant: a partial fill counts as the fill
FillEndsWellOnPartial(m, id) == m.type = "FILL" /\ m.id = id

FillEndsWell(m, id) == m.type = "FILL" /\ m.closed /\ m.id = id

FillEndsBadly(m, id) == m.type \in {"REJECT", "CLOSE"} /\ m.id = id

Return(ok) ==
    /\ waiting' = None
    /\ returned' = [op |-> waiting.op, id |-> waiting.id, ok |-> ok]

ReadOne(endsWell, endsBadly) ==
    /\ Absorb(Head(stream))
    /\ stream' = Tail(stream)
    /\ IF endsWell \/ endsBadly THEN Return(endsWell) ELSE UNCHANGED <<waiting, returned>>
    /\ UNCHANGED <<exchange, caller>>

\* The 3 s deadline is read once, before the first message: it never fires
ReadResponse ==
    /\ Responding /\ stream # <<>>
    /\ ReadOne(EndsWell(Head(stream), waiting.id), EndsBadly(Head(stream), waiting.id))

\* The 5 s deadline is read between messages: late is whether it has passed then
ReadFill(late) ==
    /\ waiting.op = "fill" /\ stream # <<>>
    /\ LET m == Head(stream)
       IN  ReadOne(FillEndsWell(m, waiting.id),
                   FillEndsBadly(m, waiting.id) \/ (late /\ ~FillEndsWell(m, waiting.id)))

\* recv fails once the connection is gone
ReadFails ==
    /\ waiting # None
    /\ ~connected
    /\ Return(FALSE)
    /\ UNCHANGED <<exchange, stream, caller, client>>

-----------------------------------------------------------------------------
Strategy ==
    \/ \E id \in ClientIds, qty \in 1 .. MaxQty :
          SendNewOrder(id, qty) \/ SendNewOrderNoWait(id, qty) \/ ModifyOrder(id, qty)
    \/ \E id \in ClientIds : DeleteOrder(id) \/ CancelNext(id) \/ WaitForFill(id)
    \/ WaitForResponse
    \/ CancelAllOpenOrders

Read == ReadResponse \/ (\E late \in BOOLEAN : ReadFill(late)) \/ ReadFails

Next ==
    \/ Strategy
    \/ Read
    \/ \E id \in ClientIds, qty \in 1 .. MaxQty : ExchangeFills(id, qty)
    \/ Disconnect

Spec == Init /\ [][Next]_vars

\* A blocked reader reads what has arrived: recv returns it
FairSpec == Spec /\ WF_vars(Read)

-----------------------------------------------------------------------------
(* Properties *)

Ids(op) == [op : op, id : ClientIds]

\* Every variable keeps its type; in particular no order is reported to have filled
\* by more than it could.
TypeOK ==
    /\ resting \in [ClientIds -> 0 .. MaxQty]
    /\ executed \in [ClientIds -> 0 .. MaxQty]
    /\ reported \in [ClientIds -> 0 .. MaxQty]
    /\ connected \in BOOLEAN
    /\ lastId \in 0 .. MaxOrders
    /\ cancelling \subseteq ClientIds /\ liveOrders \subseteq ClientIds
    /\ owed \in Seq(ClientIds)
    /\ waiting \in {None} \cup Ids({"new", "delete", "modify", "fill"})
    /\ returned = None \/ returned.op \in {"new", "delete", "modify", "fill"}

\* "Orders that have been ACK'd but not yet fully filled or closed": whenever the
\* client has read everything, live_orders_ is exactly what works at the exchange,
\* whichever of the two loops did the reading.
LiveOrdersCatchUp ==
    connected /\ stream = <<>> => liveOrders = {id \in ClientIds : resting[id] > 0}

FillQty(m, id) == IF m.type = "FILL" /\ m.id = id THEN m.qty ELSE 0

FillsIn(msgs, id) == SumFunction([i \in DOMAIN msgs |-> FillQty(msgs[i], id)])

UnreadFills(id) == FillsIn(stream, id)

\* "Always fire callback": every execution reaches on_fill_cb_ exactly once, also
\* when it is read by a wait for another order.
FillsReportedOnce ==
    connected => \A id \in ClientIds : executed[id] = reported[id] + UnreadFills(id)

\* When wait_for_fill returns true, its order is done and all of it was reported.
FillMeansDone ==
    returned.op = "fill" /\ returned.ok =>
        resting[returned.id] = 0 /\ reported[returned.id] = executed[returned.id]

\* While a call waits for its answer, a message that ends the wait is still unread:
\* answers that earlier waits left behind, or read on the way, never starve it.
AnswerStillAhead ==
    Responding /\ connected =>
        \E i \in DOMAIN stream : EndsWell(stream[i], waiting.id) \/ EndsBadly(stream[i], waiting.id)

\* So every call that waits for a response returns, with no help from the deadline.
EveryResponseReturns == Responding ~> ~Responding

\* wait_for_fill returns, at the latest after 5 s ("wait_for_fill timeout"), when its
\* order has nothing left to fill.  It fails: a new order that fills at once is
\* answered by that fill, so the send consumes it, and the wait that follows blocks
\* in recv, where the deadline is not read.
FilledWaitReturns ==
    waiting.op = "fill" /\ resting[waiting.id] = 0 ~> waiting.op # "fill"
=============================================================================
