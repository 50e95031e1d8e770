--------------------------- MODULE SymbolManager --------------------------
(***************************************************************************)
(* SymbolManager: what the threads of the bot share without a lock, and    *)
(* what a process leaves to the next one in positions.txt.                 *)
(*                                                                         *)
(*   - the market-data thread updates a book and stores its top in four    *)
(*     atomics, one after the other;                                       *)
(*   - the strategy thread reads them one after the other into a snapshot, *)
(*     books the fills it reads, and books the legs of a conversion that   *)
(*     the ETF service has done;                                           *)
(*   - SIGINT empties positions.txt, saves the positions into it, symbol   *)
(*     by symbol, while the other threads go on, and exits; SIGSEGV and    *)
(*     SIGABRT exit without saving, during a save too.                     *)
(*                                                                         *)
(* The symbols are one dorm and the ETF made of it.  The top-of-book cache *)
(* is the dorm's: a value in it is the number of the book update that it   *)
(* came from and whether the side then held an order (0 if not).           *)
(***************************************************************************)
EXTENDS Integers, Sequences

CONSTANTS
    Price,          \* prices, multiples of which every average is whole
    Qty,            \* quantities of fills and conversions
    Budgets,        \* bounds on updates, the book's in one process, and on trades, the
                    \* fills and conversions at the exchange; a behaviour keeps to one,
                    \* and takes snapshots only if its books change at all
    MaxPosition,    \* bound on the position the exchange holds for a symbol
    MaxProcesses    \* bound on the number of processes

ASSUME QtyAssumption == Qty \subseteq Nat \ {0} /\ Price \subseteq Nat \ {0}

ASSUME SmBoundsAssumption ==
    /\ Budgets \subseteq [updates : Nat, trades : Nat]
    /\ MaxPosition \in Nat /\ MaxProcesses \in Nat \ {0}

Symbols == {"DORM", "UNDY"}
Side == {"BUY", "SELL"}

\* flush_top_of_book and reset_book store, and snapshot reads, in these orders
Stored == <<"bidPx", "bidQty", "askPx", "askQty">>
ReadInOrder == <<"bidPx", "askPx", "bidQty", "askQty">>
Fields == {"bidPx", "bidQty", "askPx", "askQty"}

VARIABLES
    budget,       \* the behaviour's bounds
    book,         \* the top of the dorm's book: its update and which sides hold orders
    toStore,      \* fields the market-data thread has still to store
    cache,        \* the four atomics
    snap,         \* what the snapshot has read so far
    position, avg, pnl,    \* position, avg_entry_price_, total_pnl_
    legs,         \* signed qty of the conversion's legs still to be booked
    held,         \* external: the position at the exchange
    unread,       \* external: qty of each symbol and side filled and not yet read
    file,         \* positions.txt
    lines,        \* positions.txt with the lines a save has buffered
    toSave,       \* symbols a SIGINT has still to save
    stage,        \* what SIGINT has done of its save
    process,      \* history: number of processes started
    trades,       \* history: fills and conversions at the exchange so far
    cash,         \* history: what the process booked, sells less buys
    shortCash,    \* history: the part of cash booked while going or being short
    flipped,      \* history: a buy of the process took a short to a long
    missed,       \* history: what positions.txt lacks of the exchange's position
    unsaved,      \* history: what lines lacks of it
    lost          \* history: what the process lacks because its file lacked it

marketData == <<book, toStore, cache>>
booked == <<position, avg, pnl, cash, shortCash, flipped>>
exchange == <<held, unread, trades>>
saving == <<file, lines, toSave, stage, process, budget>>
lacks == <<missed, unsaved>>
smVars == <<marketData, snap, booked, legs, exchange, saving, lacks, lost>>

Zero == [s \in Symbols |-> 0]
EmptyTop == [at |-> 0, bid |-> FALSE, ask |-> FALSE]

Value(top, field) ==
    [at |-> top.at, some |-> IF field \in {"bidPx", "bidQty"} THEN top.bid ELSE top.ask]

Signed(side, n) == IF side = "BUY" THEN n ELSE -n

Larger(a, b) == IF a > b THEN a ELSE b
Smaller(a, b) == IF a < b THEN a ELSE b

-----------------------------------------------------------------------------
(* The market-data thread *)

UpdateBook(bid, ask, fields) ==
    /\ toStore = <<>>
    /\ book.at < budget.updates
    /\ book' = [at |-> book.at + 1, bid |-> bid, ask |-> ask]
    /\ toStore' = fields
    /\ UNCHANGED <<cache, snap, booked, legs, exchange, saving, lacks, lost>>

\* on_new_order, on_delete_order, on_modify_order, on_trade
OnMessage == \E bid, ask \in BOOLEAN : UpdateBook(bid, ask, Stored)

\* Mutant: only the prices are cleared
ResetPrices == UpdateBook(FALSE, FALSE, <<"bidPx", "askPx">>)

ResetBook == UpdateBook(FALSE, FALSE, Stored)

\* Mutant: the quantity of an empty side is not stored
StoreNextSkipsEmpty ==
    /\ toStore # <<>>
    /\ LET f == Head(toStore)
       IN  cache' = IF f \in {"bidQty", "askQty"} /\ ~Value(book, f).some
                    THEN cache ELSE [cache EXCEPT ![f] = Value(book, f)]
    /\ toStore' = Tail(toStore)
    /\ UNCHANGED <<book, snap, booked, legs, exchange, saving, lacks, lost>>

StoreNext ==
    /\ toStore # <<>>
    /\ cache' = [cache EXCEPT ![Head(toStore)] = Value(book, Head(toStore))]
    /\ toStore' = Tail(toStore)
    /\ UNCHANGED <<book, snap, booked, legs, exchange, saving, lacks, lost>>

-----------------------------------------------------------------------------
(* The strategy thread *)

\* A snapshot reads field by field; then the next one may begin
ReadNext ==
    /\ budget.updates > 0
    /\ legs = Zero
    /\ snap' = IF Len(snap) = 4 THEN <<>>
               ELSE Append(snap, cache[ReadInOrder[Len(snap) + 1]])
    /\ UNCHANGED <<marketData, booked, legs, exchange, saving, lacks, lost>>

\* The thread is not in the middle of a snapshot
Between == snap = <<>>

\* The average is formed before the result is, so a buy that covers a short is
\* measured against itself
NewAverage(s, side, qty, price) ==
    LET after == position[s] + qty
    IN  CASE side = "SELL" -> avg[s]
          [] side = "BUY" /\ after > 0 ->
                (avg[s] * Larger(position[s], 0) + price * qty) \div after
          [] OTHER -> price

\* Mutant: a sell through zero books a result on all of it
RealizedOnAll(s, side, qty, price) ==
    LET entry == NewAverage(s, side, qty, price)
    IN  CASE side = "SELL" /\ position[s] > 0 -> (price - entry) * qty
          [] side = "BUY" /\ position[s] < 0 -> (entry - price) * qty
          [] OTHER -> 0

\* The realized result, of the part of the fill that reduces the position
Realized(s, side, qty, price) ==
    LET entry == NewAverage(s, side, qty, price)
    IN  CASE side = "SELL" /\ position[s] > 0 -> (price - entry) * Smaller(qty, position[s])
          [] side = "BUY" /\ position[s] < 0 -> (entry - price) * Smaller(qty, -position[s])
          [] OTHER -> 0

\* How much of a fill sells what is not held, or buys back what was so sold
ShortPart(s, side, qty) ==
    IF side = "SELL" THEN qty - Smaller(qty, Larger(position[s], 0))
                     ELSE Smaller(qty, Larger(-position[s], 0))

OnFill(s, side, qty, price) ==
    /\ position' = [position EXCEPT ![s] = @ + Signed(side, qty)]
    /\ avg' = [avg EXCEPT ![s] = NewAverage(s, side, qty, price)]
    /\ pnl' = pnl + Realized(s, side, qty, price)
    /\ cash' = cash - Signed(side, qty) * price
    /\ shortCash' = shortCash - Signed(side, ShortPart(s, side, qty)) * price
    /\ flipped' = (flipped \/ (position[s] < 0 /\ position'[s] > 0))

\* Mutant: a fill may be booked again
ReadFillAgain(s, side, qty, price) ==
    /\ Between /\ legs = Zero
    /\ OnFill(s, side, qty, price)
    /\ unread' = [unread EXCEPT ![s][side] = @ - qty]
    /\ UNCHANGED <<marketData, snap, legs, held, trades, saving, lacks, lost>>

\* The fill callback, in whichever wait reads the fill
ReadFill(s, side, qty, price) ==
    /\ Between /\ legs = Zero
    /\ qty <= unread[s][side]
    /\ OnFill(s, side, qty, price)
    /\ unread' = [unread EXCEPT ![s][side] = @ - qty]
    /\ UNCHANGED <<marketData, snap, legs, held, trades, saving, lacks, lost>>

\* /create or /redeem has succeeded: basket is the dorm's share of it
Convert(basket) ==
    /\ Between /\ legs = Zero
    /\ trades < budget.trades /\ trades' = trades + 1
    /\ legs' = [s \in Symbols |-> IF s = "DORM" THEN basket ELSE -basket]
    /\ held' = [s \in Symbols |-> held[s] + legs'[s]]
    /\ \A s \in Symbols : held'[s] \in -MaxPosition .. MaxPosition
    /\ missed' = [s \in Symbols |-> missed[s] + legs'[s]]
    /\ unsaved' = [s \in Symbols |-> unsaved[s] + legs'[s]]
    /\ UNCHANGED <<marketData, snap, booked, unread, saving, lost>>

\* The price a leg is booked at: the dorm's cached price, 0 if its side is empty,
\* and the snapshot's price of the ETF
LegPrices(s, side) ==
    LET field == IF side = "SELL" THEN "bidPx" ELSE "askPx"
    IN  IF s = "DORM" /\ ~cache[field].some THEN {0} ELSE Price

\* Both conversions book the legs they sell first
BookLeg(s) ==
    /\ legs[s] # 0
    /\ legs[s] > 0 => \A t \in Symbols : legs[t] >= 0
    /\ LET side == IF legs[s] > 0 THEN "BUY" ELSE "SELL"
       IN  \E price \in LegPrices(s, side) : OnFill(s, side, Signed(side, legs[s]), price)
    /\ legs' = [legs EXCEPT ![s] = 0]
    /\ UNCHANGED <<marketData, snap, exchange, saving, lacks, lost>>

-----------------------------------------------------------------------------
(* The exchange *)

\* An order of ours trades
Trade(s, side, qty) ==
    /\ trades < budget.trades /\ trades' = trades + 1
    /\ held' = [held EXCEPT ![s] = @ + Signed(side, qty)]
    /\ held'[s] \in -MaxPosition .. MaxPosition
    /\ unread' = [unread EXCEPT ![s][side] = @ + qty]
    /\ missed' = [missed EXCEPT ![s] = @ + Signed(side, qty)]
    /\ unsaved' = [unsaved EXCEPT ![s] = @ + Signed(side, qty)]
    /\ UNCHANGED <<marketData, snap, booked, legs, saving, lost>>

-----------------------------------------------------------------------------
(* Saving and restarting *)

\* Opening the ofstream truncates the file: whatever an earlier save left is gone
Interrupt ==
    /\ stage = "running" /\ stage' = "saving"
    /\ toSave' = <<"DORM", "UNDY">>
    /\ file' = Zero /\ lines' = Zero
    /\ missed' = [s \in Symbols |-> missed[s] + file[s]] /\ unsaved' = missed'
    /\ UNCHANGED <<marketData, snap, booked, legs, exchange, process, budget, lost>>

\* What the exchange has done of s and the process has not yet booked
Unbooked(s) == unread[s]["BUY"] - unread[s]["SELL"] + legs[s]

\* The lines buffered so far reach the file
Flush == file' = lines' /\ missed' = unsaved'

\* Mutant: only long positions get a line
SaveNextSkipsShorts ==
    /\ toSave # <<>> /\ toSave' = Tail(toSave)
    /\ LET s == Head(toSave)
       IN  /\ lines' = IF position[s] > 0 THEN [lines EXCEPT ![s] = position[s]] ELSE lines
           /\ unsaved' = [unsaved EXCEPT ![s] = Unbooked(s) + lost[s]]
    /\ Flush \/ UNCHANGED <<file, missed>>
    /\ UNCHANGED <<marketData, snap, booked, legs, exchange, stage, process, budget, lost>>

\* A symbol that is flat gets no line, which loads as 0.  The lines are buffered; when
\* they are written before the file is closed is the library's affair
SaveNext ==
    /\ toSave # <<>> /\ toSave' = Tail(toSave)
    /\ LET s == Head(toSave)
       IN  /\ lines' = IF position[s] # 0 THEN [lines EXCEPT ![s] = position[s]] ELSE lines
           /\ unsaved' = [unsaved EXCEPT ![s] = Unbooked(s) + lost[s]]
    /\ Flush \/ UNCHANGED <<file, missed>>
    /\ UNCHANGED <<marketData, snap, booked, legs, exchange, stage, process, budget, lost>>

CloseFile ==
    /\ stage = "saving" /\ toSave = <<>> /\ stage' = "saved"
    /\ file' = lines /\ missed' = unsaved
    /\ UNCHANGED <<marketData, snap, booked, legs, exchange, lines, toSave, process, budget,
                   unsaved, lost>>

Nothing == [s \in Symbols |-> [side \in Side |-> 0]]
EmptyCache == [f \in Fields |-> Value(EmptyTop, f)]

\* The process ends, with the fills it had not read and the lines it had not written,
\* and another one loads the file: the positions only, its averages and its PnL start at 0
NextProcess ==
    /\ process < MaxProcesses /\ process' = process + 1
    /\ position' = file /\ avg' = Zero /\ pnl' = 0
    /\ cash' = 0 /\ shortCash' = 0 /\ flipped' = FALSE
    /\ book' = EmptyTop /\ toStore' = <<>> /\ cache' = EmptyCache
    /\ snap' = <<>> /\ legs' = Zero
    /\ unread' = Nothing
    /\ toSave' = <<>> /\ stage' = "running"
    /\ lines' = file /\ unsaved' = missed
    /\ lost' = missed
    /\ UNCHANGED <<held, trades, file, budget, missed>>

Exit == stage = "saved" /\ NextProcess

\* SIGSEGV or SIGABRT, at any time: positions.txt stays as it is.  A save that was going
\* on is not finished, nor its buffer written: exit() does not unwind its frame
Crash == NextProcess

-----------------------------------------------------------------------------
SmInit ==
    /\ budget \in Budgets
    /\ position = Zero /\ avg = Zero /\ pnl = 0
    /\ cash = 0 /\ shortCash = 0 /\ flipped = FALSE
    /\ book = EmptyTop /\ toStore = <<>> /\ cache = EmptyCache
    /\ snap = <<>> /\ legs = Zero
    /\ held = Zero /\ unread = Nothing /\ trades = 0
    /\ file = Zero /\ lines = Zero /\ toSave = <<>> /\ stage = "running" /\ process = 1
    /\ missed = Zero /\ unsaved = Zero /\ lost = Zero

SmNext ==
    \/ OnMessage \/ ResetBook \/ StoreNext
    \/ ReadNext
    \/ \E s \in Symbols, side \in Side, qty \in Qty :
          \/ Trade(s, side, qty)
          \/ \E price \in Price : ReadFill(s, side, qty, price)
    \/ \E qty \in Qty : Convert(qty) \/ Convert(-qty)
    \/ \E s \in Symbols : BookLeg(s)
    \/ Interrupt \/ SaveNext \/ CloseFile \/ Exit \/ Crash

SmSpec == SmInit /\ [][SmNext]_smVars

-----------------------------------------------------------------------------
(* Properties *)

\* Every variable keeps its type; in particular no fill is booked that the exchange did
\* not report, and there are symbols to save only during a save.
SmTypeOK ==
    /\ budget \in Budgets
    /\ book \in [at : 0 .. budget.updates, bid : BOOLEAN, ask : BOOLEAN]
    /\ toStore \in Seq(Fields) /\ Len(toStore) <= 4
    /\ cache \in [Fields -> [at : 0 .. budget.updates, some : BOOLEAN]]
    /\ snap \in Seq([at : 0 .. budget.updates, some : BOOLEAN]) /\ Len(snap) <= 4
    /\ {position, avg, legs, held, file, lines, missed, unsaved, lost} \subseteq [Symbols -> Int]
    /\ unread \in [Symbols -> [Side -> Nat]]
    /\ {pnl, cash, shortCash} \subseteq Int
    /\ toSave \in {<<>>, <<"UNDY">>, <<"DORM", "UNDY">>}
    /\ stage \in {"running", "saving", "saved"}
    /\ toSave # <<>> => stage = "saving"
    /\ flipped \in BOOLEAN
    /\ process \in 1 .. MaxProcesses /\ trades \in 0 .. budget.trades

\* Whenever the market-data thread is between messages, the four atomics are the top
\* of the book, after a reset too: no field is left over from an older book.
CacheIsTopOfBook == toStore = <<>> => \A f \in Fields : cache[f] = Value(book, f)

\* "Individual reads are not atomically consistent with each other": a field of a
\* snapshot may be any number of updates newer than one read before it, but at most
\* one update older.
SnapshotNeverGoesBackTwice ==
    \A i, j \in DOMAIN snap : i < j => snap[j].at >= snap[i].at - 1

\* What the inventory cost, as the averages have it
Cost(s) == avg[s] * Larger(position[s], 0)
Inventory == Cost("DORM") + Cost("UNDY")

\* total_pnl_ is what was booked and what the inventory cost, less all that was earned
\* or lost on short positions, which it never sees: the PnL guard watches long trades
\* only.  That is what the code does, not what the repository says of it: a covered short
\* is meant to be booked (symbol_manager.cpp:122-132), and test_symbol_manager.cpp:57-58
\* expects the net cash of a long as well.  (A buy from short to long is left out: it
\* books a profit nobody made.)
PnlOmitsShorts == ~flipped => pnl = cash + Inventory - shortCash

\* The position is the exchange's but for what was not yet booked and what the file
\* lacked when the process loaded it; and the file lacks what was unread, a leg of a
\* conversion or missing from an earlier file when its symbol was saved, what came after
\* that, and, once a save has emptied it, all that earlier saves had written of a symbol
\* whose line has not reached it, which a crash during the save makes final.
PositionLacksOnlyUnsaved ==
    \A s \in Symbols :
        /\ held[s] = position[s] + Unbooked(s) + lost[s]
        /\ held[s] = file[s] + missed[s]
=============================================================================
