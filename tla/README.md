# TLA+ models of hftalgorithms

A trading bot for one ETF (UNDY) and its components: it reads a market-data feed,
keeps books and positions, sends orders over one TCP connection, runs the ETF
arbitrage and a small market maker, and has a risk gate for its order entry.
This directory holds TLA+ models of that code, TLC configurations that check
them on small instances, and proofs of the main results for all instances.

Every definition is read from the source; `PROJECT.json` maps each one to the
lines it stands for, lists the runs, the mutated definitions that show each
property can fail, the hazards of the code and the theorems.

## 1. The system

| Component | Source | State it keeps | Operations |
|---|---|---|---|
| Risk gate | `risk_manager.*`, `iorder_sender.h` | open orders, rate counters, shutdown flag; owns the trackers | send, modify, delete, cancel all, fill/reject/close callbacks, mark and sequence-number hooks, check and shutdown |
| Trackers | `position_tracker.*`, `exposure_tracker.*`, `pnl_tracker.*` | position; pending orders and outstanding quantity per side; cash and mark | on order sent, removed, filled; exposure and PnL queries |
| Order-entry client | `oe_client.*`, `oe_messages.h` | `live_orders_`, the socket, three callbacks | send, send without waiting, modify, delete, cancel all, wait for response, wait for fill |
| ETF arb and market maker | `etf_arb.*` | dorm and UNDY positions via SymbolManager, the two BLUE quote ids, `order_map_`, `arb_in_progress_`, PnL guard | creation and redemption arb, unwind, flatten, requote |
| SymbolManager | `symbol_manager.*` | per symbol: atomic top of book, position, average price, realized PnL | update book, on fill, load and save positions |
| Order book | `orderbook.*` | orders by id, levels per side | new, modify, delete, trade, top of book |
| Market-data listener | `listener.*`, `messages.h` | books, the live buffer, last sequence number, catch-up state | snapshot, live and catch-up messages |
| ETF service client | `etf_client.*` | none | create, redeem over HTTP |
| Process set-up | `main.cpp` | threads, signal handler | start-up order, save positions on SIGINT |

Interactions. The market-data thread calls `Listener`, which feeds `OrderBook` and
publishes the top of book through SymbolManager's atomics. The strategy thread
reads those atomics one by one and runs `ETFArb`, which sends orders through
`OEClient` and learns of fills from callbacks that run *inside* its own blocking
reads. `RiskManager` implements `IOrderSender` around another `IOrderSender`; the
bot's `main` does not install it, its tests drive it with a mock. A third thread
prints positions, and SIGINT saves them at any instant.

What is hard here: a send blocks and callbacks of any order arrive meanwhile; one
stream of answers is read by whichever wait runs; a fill callback may shut the gate
down in the middle of a send; both client deadlines are read only between blocking
`recv` calls; cached prices and positions are read while they change; the feed
switches from snapshot to live with overlap; legs of an arb fill, fail or rest one by
one, and what the bot knows of them waits in a socket that its polls do not read; the
ETF service may act and lose its reply; and a restart trades on the positions the last
run saved.

What makes each part correct:

* risk gate: limits hold on the account, not just at the check; a breach always
  shuts it down; a gate that shut down admits nothing; every call returns.
* trackers: pending quantities, open orders and position equal the exchange's;
  running totals neither leak nor wrap.
* order-entry client: `live_orders_` catches up with the exchange; each fill is
  reported once; each wait returns, and true means what its caller takes it for.
* ETF arb: after every outcome of its legs it ends flat or in a documented unwind;
  quotes and flatten orders hold BLUE within a bound known at the exchange.
* SymbolManager: a reader uses prices that existed; position and PnL match fills.
* order book and listener: the book equals the fold of the feed from a snapshot.

`PROJECT.json` "hazards" has the concrete list, each at its line.

## 2. The models

### RiskManager — the gate and its trackers

State as in the code, with three simplifications: `PositionTracker` and `PnlTracker`
keep equal positions, so there is one; `buy_cost_` and `sell_revenue_` enter only as
their difference, `cash`; `open_orders_`'s price is never read, so orders carry side
and quantity. Quantities are `uint32_t` and wrap at `Word`.

A method that calls `sender_` is two actions: the checks, counters and hand-over
(`SendNewOrder`, `ModifyOrder`, `DeleteOrder`, `CancelAllOpenOrders`), then what
follows the answer (`...Returns`). `call`, `cancelling` and `sweep` are the stack
frames: a blocked send, modify or delete; the ids of a running
`cancel_all_open_orders`; the ids of the cancel loop that a shutdown runs. Callbacks
fire between the two halves, and a callback whose check shuts the gate down runs its
whole sweep before the interrupted call goes on (`sweep = {}` guards the outer
returns). The order of the checks only chooses the `RiskResult` code and is left out.

The environment is arbitrary: any fill, reject or close of any order, any answer.
What holds here holds for any use of the class.

### RiskExchange — the gate in front of an exchange that keeps its promises

Extends the above by what the exchange holds (`live`, `traded`), and pairs each step
of the sender and each callback with what the exchange did: true means done, false
means nothing changed, each fill is reported once, answers and callbacks in the
order of the exchange's acts. This is what `risk_manager.h` asks of its caller and
what the tests' mock does. Refinement: it implements `RiskManager!Spec` (proved).

Limits of this assumption: `OEClient` does *not* always keep it, which is what
`RiskOverOE` is about.

### RateWindow — the per-second limit in time

RiskManager leaves open whether a second has passed; RateWindow adds a clock and a
history of sends, to say what `refresh_rate_window` bounds over any second.

### OEClient — one stream, many orders, one reader

Requests append answers to `stream` as the external exchange of `oe_log.txt` does
(an order that fills at once gets its fills and no ACK; one that fills in part gets
FILL then ACK; a delete gets CLOSE, or REJECT with reason 4). The strategy thread
blocks in `waiting`, either in `wait_for_response` or in `wait_for_fill`, and each
`Read...` action handles one message with everything the loop does for it: live
orders, callback, and whether the wait ends. `owed` is the no-wait sends whose answers
the arbs collect afterwards. The connection may be lost; the loss is placed at a
moment when the client waits, because it notices nowhere else.

### RiskOverOE — the gate over the real client

The composition `oe_client.h` announces ("Implements IOrderSender so a RiskManager can
use it"): `RiskManager`'s actions and `OEClient`'s, the client as an instance, its
answers and callbacks taken from the one stream. `SendNew`, `Modify` and `Delete` are the
gate's first half with the client's request; `ReadResponse` is one message with the
callback it fires in the gate; `GateReturns` is the gate's second half with what the
client returned. When a fill callback shuts the gate down, the cancel loop deletes from
*inside* that callback, inside another call's wait: `outer` is that wait, and the deletes'
own waits read the same stream before it goes on.

The gate can be misled, and the model names each way instead of assuming it away.
`missed`: fills read before their order is registered, because they come ahead of the
ACK or in place of it; `on_fill` ignores the unknown id. `doubtful`: orders with such a
fill, with a refused modify or delete while they rest (the reject callback forgets a
live order), with a modify that the exchange answered UNKNOWN_ORDER_ID (the client calls
that success, so the gate registers an order nobody has), or with a modify that returned
true on another order's message. `spared`: the order whose send or modify was in flight when the gate
shut down. `reentered`: a shutdown interrupted a wait before its answer. Each property
says what holds but for the histories it names; TLC finds a counterexample when any
of them is left out.

### SymbolManager — what threads share, and what a process leaves behind

The market-data thread changes a book and then stores its top field by field
(`StoreNext`, in the order of `flush_top_of_book`); the strategy thread reads a snapshot
field by field in its own order (`ReadNext`). A value in the cache is the number of
the update it came from and whether its side held an order, which is all that
staleness can be told from. `OnFill` is `on_fill` with the average formed *before* the
result, as in the code; a conversion's legs are booked one by one (`BookLeg`), the
dorm's at 0 when the cached side is empty.

`Interrupt`, `SaveNext`, `CloseFile` and `Exit` are the SIGINT handler with `save_positions`,
while the other threads go on. Opening the `ofstream` empties `positions.txt`, so
`Interrupt` takes what every earlier save left. `SaveNext` adds a symbol's line to the
buffer (`lines`); whether the buffer is then written (`Flush`) is the library's choice, and at
the latest `CloseFile` writes it. `Crash` is SIGSEGV or SIGABRT, whose handlers exit without saving:
it may come at any time, in the middle of a save too, and then leaves a file that is
empty or has a part of the lines. Both ends are `NextProcess`, which loads the file. Not in
the model: a second SIGINT during the save, and a file that cannot be opened or written.
`OnMessage` may leave any top behind, since `OrderBook` says what the book becomes.

### ETFArb — the strategy thread

`run_with_mm` whole, as one thread over `OEClient`, whose actions it extends. `pc` is the
place between two blocking calls, with the locals alive there: legs still to buy, whether
the answers so far were good, the position the market maker read. The arbs (`StartCreation`
to `UndySold`, `StartRedemption` to `SellLeg`), the unwinds (`Unwind`, `Collect`, `ForceUndy`,
`Residual`), the PnL guard (`PnlGuard` to `GuardResume`) and the BLUE market maker (`MmBid` to
`QuoteAsk`) follow the source in order. `Callback` is the fill callback of the
constructor with the close callback of `main`; it runs with whichever message is read.
`order_map_` and `mm_order_map_` are one, `routed`, and ids are drawn from one sequence.

The ETF service is external: `EtfCall` may act or not, only if what it takes is there, and
may lose its reply; the client sees a success or a failure. Prices are left out: books
move while the thread runs, so a read of a price finds one or none, an edge may be there
or not, and the PnL may be near its limit at any turn of the loop.

### OrderBook and Listener — the market-data thread

`OrderBook` has no state of its own: its handlers are operators from a book (orders
by id, quantity per side and price) to a book, with the code's refusals. `Listener`
adds the dispatch helpers and `run_listener`: every live packet is kept until the
switch (`BufferLive`) and applied at once after it (`ApplyLive`), a snapshot resets its
symbols' books and places its orders (`ReadSnapshot`), and enough silent polls drain
the buffer and switch (`QuietPoll`).

The venue is external: it changes its orders, sends each change on the live feed,
and snapshots or heartbeats on the replay feed. Live messages are named by their place
in the history `feed`, on the wire and in the buffer. A live packet may be lost, and
the two sockets are read in any order. Three histories serve the properties only:
`lost`, `included` (how much of the feed a symbol's last snapshot contains) and
`doubtful` (orders with a message lost, undone by a late snapshot, or applied a second
time where that matters). Reordered or duplicated packets, a venue that modifies an
order to quantity zero, and the wrapping of a level's total are not in the model;
`last_seq_num_` is written and never read, and is left out.

Each socket is taken to receive its own group's packets only. That is an assumption about
the host: `listener.cpp:28,30` give both groups one port and the sockets bind `INADDR_ANY`, and
on Linux such a socket may also receive the packets of a group that another socket of the host joined. Then a
live packet may be read from the replay socket too, in another order. `TrustedOrdersAgree`, and what
the theorems say of the listener beyond the books' own consistency, hold under this assumption.

## 3. Runs

| Run | Shows |
|---|---|
| `risk_gate` | under arbitrary callbacks: over the position limit means shut down; shut down admits nothing but the registration of the order in flight; only a mark price takes a working gate under its PNL floor silently; an answered request has been judged |
| `risk_exchange` | pending, open orders and position agree with the exchange at all times; per-side totals are exact; limits hold until an order with fills is modified on its own side; only an accepted request raises a side's worst case; every call returns |
| `limits_hold` (violated) | the modify check compares with the quantity *last sent*: a partly filled order can be modified past the limits (in the shortest run past `max_exposure`, with `max_qty_per_side` just reached) |
| `rate_window` | any second sees at most twice `max_orders_per_second` |
| `oe_client` | live orders and fills are right whichever loop reads them; no wait for a response starves; a true `wait_for_fill` means done |
| `filled_wait_returns` (violated) | `wait_for_fill` after a send whose answer was its own fill blocks for ever |
| `listener` | levels and routes agree with the booked orders whatever is lost, repeated or undone; the buffer keeps its limit; once live and with nothing unread, each order whose messages counted once is as at the venue |
| `caught_up` (violated) | with no packet lost, the drain applies trades that the snapshot contains, and a resting order leaves the book |
| `risk_over_oe` | the gate over the client is still the gate; for orders it was not misled on, its view is the exchange's whenever it has read all about them; its position misses unread and early fills only; a shutdown leaves at most the orders it spared or was misled on; the client's own view survives nested waits; a call that no shutdown interrupted returns |
| `symbol_manager` | the cache is the top of the book between messages; a snapshot's field is at most one update older than one read before it; the PnL is cash and inventory less all results of shorts; a position lacks exactly what is unread, half booked, or was lost with the file, which a save empties first and a crash may leave so |
| `etf_arb` | positions miss exactly the unread fills and what the service did untold; no quote works unknown to the loop; nothing is oversold while no two orders of a symbol overlap; BLUE keeps between `-mm_limit` and twice `mm_limit` at the exchange with bid, ask and flatten order out at once; every arb ends |
| `guard_resumes` (violated) | once everything is sold, the PnL guard still waits for ever for fills it does not read |

Bounds. Two order ids suffice for one order to interrupt the call of another, and
for one side's total to be shared. `risk_gate` has unit quantities and two prices,
one below `MinValidPrice`, so fills, marks and refused prices all occur, and the position
passes its limit by one (`PositionBound`, `CashBound` cap fills only). `risk_exchange` has
quantities up to two (partial fills, increases, decreases, flips) and side and
exposure limits of three, so two orders together reach each limit but one does not.
`RateWindow` uses a window of a few ticks and small limits; the theorem is for
all of them. `OEClient` has up to three orders of two units: one waited for, one
whose leftovers end the wait, one resting. `listener` has two orders of one symbol that
share a level, part from it or change sides, three live messages, two replays, one loss
and a buffer that overflows at its third message: so overflow, an overlap of snapshot and buffer, a loss before or after
a snapshot, and a snapshot that comes after the switch all occur. One symbol suffices
for the books, which do not interact; a second adds only routes and takes the run out of
reach. Deadlock is not checked there: the bounded feed ends. Order ids are
symmetric in the safety runs of the gate and the listener; runs with liveness use no
symmetry.

`risk_over_oe` has two orders of up to two units at one price and a position limit of
two, so that one fill, two fills of one order, or one fill of each may reach or pass it;
one request per second, so that the rate limit refuses but time lets the next one
through. Fills ahead of the registration, a sweep nested in a wait, a delete that finds
its order filled, and a modify of an order that is gone all occur. Deadlock is not checked
there: the ids run out. `symbol_manager` has one dorm and UNDY, two prices chosen so that
averages stay whole, and two processes; `Budgets` splits three events between market
data and trades (all of one kind, or one of each), because the two interact in a pair of
actions only, `OnFill` and `BookLeg` reading the cache. Snapshots and stores are four fields
each, so an update can fall between any two reads. `etf_arb` has two dorms for ten, four
orders of up to two units, one unit of UNDY left over from the last run, and a limit of
one for each limit of the source: the position limit (9), `mm_limit` (7), the shortage that an
unwind covers (8) and the attempts to sell (5). One reply of the service may be lost.
Four orders suffice for each arb to reach each of its ends, the unwinds and the market
maker included. Deadlock is not checked: `running_` may end the thread, and ids run out.

`etf_arb` names the cases where its two limits fail, as RiskOverOE does. `overlapped`:
symbols with an order sent while an earlier one *for the same purpose* was working or
had a fill unread. Bid, ask and flatten order are three purposes, so the market maker
quoting both sides beside a flatten order, kept or forgotten, is no overlap; a second
flatten order beside a forgotten one is, and so is a second bid while a fill of the first is unread.
The orders of the arbs, unwinds and guard have one purpose, which overlaps any. BLUE passes
`mm_limit` without an overlap: the quotes are held against the position read, to which a resting
flatten order does not count, so bids and flatten order together reach twice `mm_limit`, in the
run as well. `BlueWithinTwiceLimit` says that it gets no further.
`etf` and `booked` differ by what the service took or gave without the bot learning of it.

Fairness. `RiskExchange`: weak fairness of "the sender answers", because every
`IOrderSender` returns (the mock at once; the client by `EveryResponseReturns`). Nothing
is assumed of fills or of the strategy. `OEClient`: weak fairness of `Read`, because
`recv` returns data that has arrived and fails on a closed connection; nothing is
assumed of the exchange beyond having answered what it was sent. `RiskOverOE`: weak
fairness of reading, of returning and of the next delete of a shutdown's loop, which is
code that runs on; the calls themselves are not fair. `ETFArb`: weak fairness of reading
and of the thread's own steps, and strong fairness of `ArbTimeout`: the three seconds of
an arb pass while the loop goes round. Nothing is assumed of fills. `SymbolManager` and `Listener` have safety properties only.

## 4. Proofs

`RiskManagerProofs` proves, for all constants that satisfy the named assumptions of
`RiskManager`, its type invariant, `OverLimitIsShutdown`, and the three action
properties. The inductive invariant `IInv` adds two facts to them. `CallCounted` says
that `unacked` is one exactly while a send or modify is in flight: without it
nothing bounds the counter from below when an answer decrements it.
`SweepIsShutdown` says that only a shutdown runs the sweep. Lemmas on the trackers come
first (what sending, removing and filling do to the two maps, with wrapping), then one
lemma per group of actions, then the case split over `Next`. The action properties use
the invariant for the types of the order maps and of the account.

`RiskExchangeProofs` proves that `RiskExchange` implements `RiskManager` (each step is a
gate step or a stutter), that it keeps its types, and `ViewAgrees`. The agreement is
inductive together with `IInv`: the gate's invariant types the request in flight, and
an execution never exceeds what is working, so the unsigned subtraction is exact.

It then proves the exposure results, which are about totals. `TotalsNeverDrift`: the
per-side totals, changed by difference in seven places, are the sums of the pending and
of the open orders; a modify in flight counts with its increase. With `ViewAgrees` this
gives `OutstandingIsWorking`. `LimitsHoldUnlessStretched` needs a bound while the request
is still in flight (what was checked, not what is accepted yet), and that nothing wraps on
the way: `RoomAssumption` (a limit and one more order fit in the word) and
`SessionAssumption` (all orders at their largest fit), which hold for `uint32_t` and
any limits one would configure. `OnlyAcceptRaisesExposure` follows from the same totals,
since a fill moves the position and the total by the same quantity.

`Sums` has the facts about sums over finite sets that this and the next proofs use: what
a sum becomes when one value changes, when an element joins or leaves the set, that it is
bounded and that it is zero only if its members are. The library's induction theorems
take the property as an operator, which the provers here cannot instantiate. `Sums` gives
it as the *set* of the subsets (or numbers) that have it, and takes a minimal set outside
of it, so induction over finite sets and prefixes is within reach after all.

The section on the rate takes `RateWindow` by instance and proves `AtMostTwoWindows` for any
window length and limits. `RateInv` says that the requests of the current window are counted, and
that those of the last second which are older are at most one window's worth: they
lie in the window before, and no request is sent in the tick in which a window is
over without refreshing it first.

`RiskOverOEProofs` proves that the composition is a refinement: with the one stream and
the nested waits, each step is still a gate step or a stutter, so what is proved of the
gate under arbitrary callbacks holds over the real client (`OverLimitIsShutdown` and
`ShutdownAdmitsNothing` are stated again there). The gate's `IInv` is not enough for that: a
callback is a gate step only if the id, quantity and closing flag it is handed are of the
right kind. The client's invariants give that, and the proofs of `OEClientProofs` are
reused through an instance, without the no-wait sends: what the stream tells of an
order and what was reported of it survive the nesting (`KInv`), because each step is one of the
client's own or reads a message as a wait does. That gives `ClientStaysAccurate`. The order
of the answers does not survive: a shutdown's deletes may read the answer of the wait they
interrupt. `PositionMissesOnlyEarlyFills` needs the history `HInv`: a fill is told with the side of
its order, what an order missed was reported before, and the position is
the signed sum of what was reported and not missed. `OverTypeOK` follows along the way.

`ViewsAgreeUnlessMisled` and `ShutdownCancelsTheRest` follow from `VInv`, which says of every order
that is neither misread nor spared, at every point of the stream, what the gate will
make of it once the stream is read. Its measure is what is *due* of an order: what works, and
what has executed but is not yet told. An open order is pending with what is due, unless a
message that makes the gate forget it is unread; then nothing of it works. For the order
in flight the invariant looks ahead instead: a new order's fills and ACK leave due what was asked
for, and a waiting modify has its answer in the stream, before which lie exactly the fills that
reduce what it asked for. `Frames` says which calls can be on the stack together: a cancel loop
runs when no request is in flight, or within the shutdown that spared that request, so whatever
it does to the answers concerns a spared order. `ShutdownCancelsTheRest` is then that
what rests after the shutdown's callback has still to be swept.

`SymbolManagerProofs` proves two results about the shared state. `PositionLacksOnlyUnsaved`
follows from the ledger `Ledger`: what is held is the position with what is unread, half
booked or lost, and likewise the file, and the lines a save has buffered, with what they
lack. What the file lacks grows by all it held when a save opens it, and becomes what
the lines lack when they are written. Its inductive step needs
`SaveOrder` (a save goes through the symbols in order, so none is written twice). `CacheIsTopOfBook` and `SnapshotNeverGoesBackTwice` follow from `Ages`: a
cached field is at most one update behind the book, exactly for the fields a running
flush has still to store.

`OEClientProofs` proves `AnswerStillAhead` and `LiveOrdersCatchUp` for any number of orders.
Both are facts about the unread stream, and neither is inductive as it stands. For the
first, `CInv` says that all ids whose answers are still to be collected, the running
wait's and those sent without waiting, have messages that end their waits in the stream
*in the order of their collection*: a wait reads up to the first message that ends it, which
is at or before its own, so the later ones are left (`ReadPast`, `ReadAnswer`). For the second,
`Tell` says of each order that the last message which bears on it agrees with the exchange,
and where there is none that `live_orders_` does.

It also proves `FillsReportedOnce` and `FillMeansDone`. What is unread of an order is a sum
over the places of the stream; a wait reads the message at its place and drops those
it read before, a request appends, and the sum splits accordingly. `FillMeansDone` needs in addition
that after the message that says an order is done, read or not, nothing of it executes.

`ETFArbProofs` proves that each step of the strategy thread is a step of `OEClient` or none
(`ArbImplementsClient`), so both results hold under the arbs, the guard and the market
maker, for any basket and any limits. It needs that the ids the thread keeps are ids it
has drawn.

It also proves `QuotesAreTracked`: no bid or ask works that the loop has
forgotten. The fill callback forgets an id on a closing fill, so `Drawn` says that such a
fill, read or not, means that nothing of its order works; a requote replaces ids, so
`Cleared` says that its deletes have left the side it quotes without one. The steps are
then of three kinds: they drop ids of done orders, send something that is no quote, or send
a quote on a cleared side and keep its id.

`PositionsAreAccounted` there adds up the fills of all orders of a symbol, so it takes
`FillsReportedOnce` of each and a sum over the ids; conversions change the position and what the
service did by the same effect, or leave the difference in `etf - booked`. `BasketAssumption`
says that the dorms are distinct and are not UNDY or BLUE, which the code's basket is.

From these books it proves the thread's two limits at the exchange, `NeverOversold` and
`BlueWithinTwiceLimit`, for any start, a short or overlong one included (then it gets no worse).
`Reach(s, side)` is what the bot would hold of `s` if every order of that side filled: what it
holds lies between the two, and where nothing of the symbol is out, so does what it has read
(`HeldBetween`, `ReadIsLeast`, `ReadIsMost`). `EveryStepTrades` sorts the steps into a few
kinds: nothing sent, a message read, a covered conversion, a covered sell, an order of BLUE
within its limits. `NextNoneShort` and `NextMInv` then argue by kind, not by action.

* `SInv`, for `NeverOversold`, says why the next sell or conversion is covered at each place of
  an arb: once a dorm's leg is bought, no older sell of it is out (`Buying`, `Collecting`,
  `Polling`), for otherwise the buy would have overlapped it; a redemption waits for the one
  buy of UNDY it sent, what this fills adds to the least, and the service is asked
  only after a wait that says all of it filled (`Redeeming`, `Filled`); what it brought is sold
  once per dorm (`SellingLegs`, hence the distinct dorms). `Collecting` needs a case for
  a connection lost between two legs: then some answer fails, and the legs are unwound.
* `MInv`, for `BlueWithinTwiceLimit`, is about the orders of BLUE that are out. `OneEach`: at
  most one for each purpose. `Sizes`: a quote is for one unit, a buy for no more than BLUE
  may be short. `PosFloor`: no sell that is out takes what has been read below the least.
  `PosAtRead`: what the bot would hold if all its buys filled is bounded by the position
  that the market maker read before its two deletes, although fills are read meanwhile and
  `blue_flatten_id` is forgotten by another rule than the quotes. `BlueBounds` is the bound
  itself, on what would be held if one side filled. `MmLimit > 0` is needed.

TLC checked both invariants on the instance of `etf_arb` before they were proved.

`ListenerProofs` proves all of `Listener`'s invariants. Types come first, because the fold over a
snapshot's orders and the fold over the buffer must be followed step by step to know that
a book remains one (`IsFold`, `KeptByDispatch`). Then levels are the ladders of the orders
through each handler, whatever the message; and routes, through dispatch. For
`TrustedOrdersAgree` the invariant speaks of the venue's past, which the model does not
keep: there *is* a sequence of books `V`, one before and one after each message of the feed,
such that the listener's books are those of `V` where they should be (`Right`). A
snapshot in flight is the book of its place; the drain and the live feed bring an order from
its entry at one place to the next, and a message that a snapshot already contains either leaves the order
as it is or makes it doubtful. `LostDoubted` and `BufferOrdered` say that what the
buffer lacks was lost, in order. Order ids are finite (`FiniteIdsAssumption`): they are words.

`SymbolManagerProofs` further proves `SmTypeOK` and `PnlOmitsShorts`. The second has a
hypothesis, `[][WholeAverages]_smVars`: the average of a position that a buy leaves long is exact. It constrains the
prices (in the code averages are floating point); TLC finds that it holds of the instance
`MCSymbolManager`, whose prices are chosen for that.

Model-checked only: liveness (`EveryCallReturns`, `EveryResponseReturns`,
`CallsReturnUnlessReentered`, `ArbsEnd`), since fairness and ENABLED are outside the prover. Every invariant and action property that a
run checks is also a theorem (`RateWindow`'s in `RiskExchangeProofs`, through its instance there).

## 5. Where code and text disagree

`PROJECT.json` "findings" quotes each line. In short: the modify check trusts a quantity
that fills do not reduce; `wait_for_fill` can hang although it has a deadline; the drain
repeats trades that the snapshot contains, because nothing compares `last_md_seq_num`
with the buffered messages; and the PnL guard, once everything is sold, still waits for
fills that nothing reads.

Smaller gaps have no run of their own, but show in the histories the properties
except. A shutdown leaves the order in flight, and those it was misled on, resting
(`spared`, `doubtful`). A send's true may be the answer to another order (`doubtful`). The rate
window starts anew rather than slides, so a second may see two windows' sends, and
`AtMostTwoWindows` says that it is never more. BLUE may be held at twice `mm_limit`
(`BlueWithinTwiceLimit`).

The PnL is a disagreement of its own, which no run shows as a violation. `test_symbol_manager.cpp:57-58`
expects -209 after a buy of 3 at 105 and a sell of 1 at 106, which is the net cash; `on_fill`
books the result of the unit sold, +1 (-209 is that less the 210 that the two units kept
have cost). And `symbol_manager.cpp:122-132` means to book the result of a covered short, but the
average has by then been replaced by the price of the covering buy (:115-120), so it books
nothing, and too much when the buy goes on to a long. `PnlOmitsShorts` states what the code
computes: cash plus the cost of what is held, *less* all results of shorts. That it passes
means that the code does this, not that either text is right.

## 6. Not modelled, and the plan

Left out on purpose: byte framing and parsing, logging, HTTP text and JSON (their
outcomes are choices of the environment), the test programs, the Makefile. Latency
and floating-point rounding have no model: prices are integers. Of `etf_arb.cpp`:
`run()`, which `main` does not call (`run_with_mm` contains its loop); what follows the loop,
which only `stop()` reaches and nothing calls; and the reuse of order ids after 90000
orders. Of the others: `would_breach_limit` (only a test calls it), `get_positions` (nothing
does) and `health_check` (called once, before any thread starts).

Next, in this order:

1. The listener's liveness: the switch to live under a feed that falls silent, and its
   absence under one that does not; two symbols for snapshots of some of them.
2. Abstract specifications: `RiskBudget` (worst-case position never exceeds the limits)
   implemented by RiskExchange while unstretched; `BookOfPrefix` (the book is that of
   some prefix of the feed) implemented by Listener where no message is doubtful.
