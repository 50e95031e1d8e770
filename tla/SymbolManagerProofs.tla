------------------------ MODULE SymbolManagerProofs ------------------------
(***************************************************************************)
(* What the bot's threads and its successive processes see of one another, *)
(* for any number of updates, trades and processes. Two inductive          *)
(* invariants carry most of it: the ledger of positions, and the ages of   *)
(* what the atomics and an unfinished snapshot hold.                       *)
(*                                                                         *)
(* Two more results. All that is shared keeps its types. And the PnL is    *)
(* that of the trades made from a flat or long position only, as long as   *)
(* the averages are whole, which is how the model treats division: the     *)
(* theorem has it as a hypothesis, an action property (WholeAverages) that *)
(* constrains the prices and not the code's steps.                         *)
(***************************************************************************)
EXTENDS SymbolManager, TLAPS

-----------------------------------------------------------------------------
(* Positions *)

\* What a save has buffered lacks what is recorded of it, as the file does
LinesLackUnsaved == \A s \in Symbols : held[s] = lines[s] + unsaved[s]

\* Typed, and the ledger: held = position + unbooked + lost = file + missed, and the
\* same of the lines that are to become the file.
Ledger ==
    /\ {position, legs, held, file, lines, missed, unsaved, lost} \subseteq [Symbols -> Int]
    /\ unread \in [Symbols -> [Side -> Int]]
    /\ PositionLacksOnlyUnsaved
    /\ LinesLackUnsaved

\* At the start nothing is held and nothing is booked.
LEMMA InitLedger == SmInit => Ledger
  BY DEF SmInit, Ledger, PositionLacksOnlyUnsaved, LinesLackUnsaved, Unbooked, Zero, Nothing, Side

\* Quantities of requests are whole numbers, bought or sold.
LEMMA SignedQty == \A side \in Side, qty \in Qty : Signed(side, qty) \in Int
  BY QtyAssumption DEF Signed, Side

\* A fill moves its qty from what is unbooked to the position.
LEMMA ReadFillLedger ==
    ASSUME Ledger, NEW s \in Symbols, NEW side \in Side, NEW qty \in Qty, NEW price,
           ReadFill(s, side, qty, price)
    PROVE  Ledger'
<1>1. qty \in Int
  BY QtyAssumption
<1>2. /\ position' = [position EXCEPT ![s] = @ + Signed(side, qty)]
      /\ unread' = [unread EXCEPT ![s][side] = @ - qty]
      /\ UNCHANGED <<legs, held, file, lines, missed, unsaved, lost>>
  BY DEF ReadFill, OnFill, saving, lacks
<1>3. position' \in [Symbols -> Int] /\ unread' \in [Symbols -> [Side -> Int]]
  BY <1>1, <1>2, SignedQty DEF Ledger
<1>4. ASSUME NEW t \in Symbols PROVE position'[t] + Unbooked(t)' = position[t] + Unbooked(t)
  <2>1. unread[t]["BUY"] \in Int /\ unread[t]["SELL"] \in Int /\ legs[t] \in Int /\ position[t] \in Int
    BY DEF Ledger, Side
  <2>2. CASE t = s /\ side = "BUY"
    <3>1. position'[t] = position[t] + qty
      BY <1>2, <2>2 DEF Ledger, Signed
    <3>2. unread'[t]["BUY"] = unread[t]["BUY"] - qty /\ unread'[t]["SELL"] = unread[t]["SELL"]
      BY <1>2, <2>2 DEF Ledger, Side
    <3>3. QED BY <1>1, <1>2, <2>1, <3>1, <3>2 DEF Unbooked
  <2>3. CASE t = s /\ side = "SELL"
    <3>1. position'[t] = position[t] - qty
      BY <1>1, <1>2, <2>1, <2>3 DEF Ledger, Signed
    <3>2. unread'[t]["SELL"] = unread[t]["SELL"] - qty /\ unread'[t]["BUY"] = unread[t]["BUY"]
      BY <1>2, <2>3 DEF Ledger, Side
    <3>3. QED BY <1>1, <1>2, <2>1, <3>1, <3>2 DEF Unbooked
  <2>4. CASE t # s
    <3>1. position'[t] = position[t] /\ unread'[t] = unread[t]
      BY <1>2, <2>4 DEF Ledger
    <3>2. QED BY <1>2, <3>1 DEF Unbooked
  <2>5. QED BY <2>2, <2>3, <2>4 DEF Side
<1>5. PositionLacksOnlyUnsaved' /\ LinesLackUnsaved'
  BY <1>2, <1>4 DEF Ledger, PositionLacksOnlyUnsaved, LinesLackUnsaved
<1>6. QED BY <1>2, <1>3, <1>5 DEF Ledger

\* A fill at the exchange is unbooked, and missing from the file and the lines, at once.
LEMMA TradeLedger ==
    ASSUME Ledger, NEW s \in Symbols, NEW side \in Side, NEW qty \in Qty, Trade(s, side, qty)
    PROVE  Ledger'
<1>1. qty \in Int
  BY QtyAssumption
<1>2. /\ held' = [held EXCEPT ![s] = @ + Signed(side, qty)]
      /\ unread' = [unread EXCEPT ![s][side] = @ + qty]
      /\ missed' = [missed EXCEPT ![s] = @ + Signed(side, qty)]
      /\ unsaved' = [unsaved EXCEPT ![s] = @ + Signed(side, qty)]
      /\ UNCHANGED <<position, legs, file, lines, lost>>
  BY DEF Trade, saving, booked
<1>3. /\ {held', missed', unsaved'} \subseteq [Symbols -> Int]
      /\ unread' \in [Symbols -> [Side -> Int]]
  BY <1>1, <1>2, SignedQty DEF Ledger
<1>4. ASSUME NEW t \in Symbols
      PROVE  /\ held'[t] - held[t] = Unbooked(t)' - Unbooked(t)
             /\ held'[t] - held[t] = missed'[t] - missed[t]
             /\ held'[t] - held[t] = unsaved'[t] - unsaved[t]
  <2>1. /\ unread[t]["BUY"] \in Int /\ unread[t]["SELL"] \in Int /\ legs[t] \in Int
        /\ held[t] \in Int /\ missed[t] \in Int /\ unsaved[t] \in Int
    BY DEF Ledger, Side
  <2>2. CASE t = s /\ side = "BUY"
    <3>1. held'[t] = held[t] + qty /\ missed'[t] = missed[t] + qty /\ unsaved'[t] = unsaved[t] + qty
      BY <1>2, <2>2 DEF Ledger, Signed
    <3>2. unread'[t]["BUY"] = unread[t]["BUY"] + qty /\ unread'[t]["SELL"] = unread[t]["SELL"]
      BY <1>2, <2>2 DEF Ledger, Side
    <3>3. QED BY SMTT(40), <1>1, <1>2, <2>1, <3>1, <3>2 DEF Unbooked
  <2>3. CASE t = s /\ side = "SELL"
    <3>1. held'[t] = held[t] - qty /\ missed'[t] = missed[t] - qty /\ unsaved'[t] = unsaved[t] - qty
      BY <1>1, <1>2, <2>1, <2>3 DEF Ledger, Signed
    <3>2. unread'[t]["SELL"] = unread[t]["SELL"] + qty /\ unread'[t]["BUY"] = unread[t]["BUY"]
      BY <1>2, <2>3 DEF Ledger, Side
    <3>3. QED BY SMTT(40), <1>1, <1>2, <2>1, <3>1, <3>2 DEF Unbooked
  <2>4. CASE t # s
    <3>1. /\ held'[t] = held[t] /\ missed'[t] = missed[t] /\ unsaved'[t] = unsaved[t]
          /\ unread'[t] = unread[t]
      BY <1>2, <2>4 DEF Ledger
    <3>2. QED BY <1>2, <2>1, <3>1 DEF Unbooked
  <2>5. QED BY <2>2, <2>3, <2>4 DEF Side
<1>5. PositionLacksOnlyUnsaved' /\ LinesLackUnsaved'
  <2> SUFFICES ASSUME NEW t \in Symbols
               PROVE  /\ held'[t] = position'[t] + Unbooked(t)' + lost'[t]
                      /\ held'[t] = file'[t] + missed'[t]
                      /\ held'[t] = lines'[t] + unsaved'[t]
    BY DEF PositionLacksOnlyUnsaved, LinesLackUnsaved
  <2>1. /\ held[t] \in Int /\ held'[t] \in Int /\ missed[t] \in Int /\ missed'[t] \in Int
        /\ unsaved[t] \in Int /\ unsaved'[t] \in Int /\ lines[t] \in Int
        /\ position[t] \in Int /\ lost[t] \in Int /\ file[t] \in Int
    BY <1>3 DEF Ledger
  <2>2. Unbooked(t) \in Int /\ Unbooked(t)' \in Int
    BY <1>2, <1>3 DEF Ledger, Unbooked, Side
  <2>3. /\ held[t] = position[t] + Unbooked(t) + lost[t] /\ held[t] = file[t] + missed[t]
        /\ held[t] = lines[t] + unsaved[t]
    BY DEF Ledger, PositionLacksOnlyUnsaved, LinesLackUnsaved
  <2>4. position'[t] = position[t] /\ lost'[t] = lost[t] /\ file'[t] = file[t] /\ lines'[t] = lines[t]
    BY <1>2
  <2>5. QED BY <1>4, <2>1, <2>2, <2>3, <2>4
<1>6. QED BY <1>2, <1>3, <1>5 DEF Ledger

\* So are the legs of a conversion.
LEMMA ConvertLedger ==
    ASSUME Ledger, NEW basket \in Int, Convert(basket)
    PROVE  Ledger'
<1>1. /\ legs = Zero
      /\ legs' = [s \in Symbols |-> IF s = "DORM" THEN basket ELSE -basket]
      /\ held' = [s \in Symbols |-> held[s] + legs'[s]]
      /\ missed' = [s \in Symbols |-> missed[s] + legs'[s]]
      /\ unsaved' = [s \in Symbols |-> unsaved[s] + legs'[s]]
      /\ UNCHANGED <<position, unread, file, lines, lost>>
  BY DEF Convert, saving, booked
<1>2. {legs', held', missed', unsaved'} \subseteq [Symbols -> Int]
  BY <1>1 DEF Ledger
<1>3. ASSUME NEW t \in Symbols
      PROVE  /\ held'[t] = position'[t] + Unbooked(t)' + lost'[t]
             /\ held'[t] = file'[t] + missed'[t]
             /\ held'[t] = lines'[t] + unsaved'[t]
  <2>1. /\ held[t] \in Int /\ missed[t] \in Int /\ unsaved[t] \in Int /\ lines[t] \in Int /\ position[t] \in Int /\ lost[t] \in Int
        /\ file[t] \in Int /\ unread[t]["BUY"] \in Int /\ unread[t]["SELL"] \in Int /\ legs'[t] \in Int
    BY <1>2 DEF Ledger, Side
  <2>2. /\ held'[t] = held[t] + legs'[t] /\ missed'[t] = missed[t] + legs'[t]
        /\ unsaved'[t] = unsaved[t] + legs'[t] /\ legs[t] = 0
    BY <1>1 DEF Zero
  <2>3. /\ held[t] = position[t] + Unbooked(t) + lost[t] /\ held[t] = file[t] + missed[t]
        /\ held[t] = lines[t] + unsaved[t]
    BY DEF Ledger, PositionLacksOnlyUnsaved, LinesLackUnsaved
  <2>4. QED BY <1>1, <2>1, <2>2, <2>3 DEF Unbooked
<1>4. QED BY <1>1, <1>2, <1>3 DEF Ledger, PositionLacksOnlyUnsaved, LinesLackUnsaved

\* A booked leg moves from legs to the position.
LEMMA BookLegLedger ==
    ASSUME Ledger, NEW s \in Symbols, BookLeg(s)
    PROVE  Ledger'
<1>1. legs[s] \in Int
  BY DEF Ledger
<1> DEFINE side == IF legs[s] > 0 THEN "BUY" ELSE "SELL"
<1>2. Signed(side, Signed(side, legs[s])) = legs[s]
  BY <1>1 DEF Signed
<1>3. /\ position' = [position EXCEPT ![s] = @ + legs[s]]
      /\ legs' = [legs EXCEPT ![s] = 0]
      /\ UNCHANGED <<unread, held, file, lines, missed, unsaved, lost>>
  BY <1>2 DEF BookLeg, OnFill, exchange, saving, lacks
<1>4. position' \in [Symbols -> Int] /\ legs' \in [Symbols -> Int]
  BY <1>1, <1>3 DEF Ledger
<1>5. ASSUME NEW t \in Symbols PROVE position'[t] + Unbooked(t)' = position[t] + Unbooked(t)
  <2>1. unread[t]["BUY"] \in Int /\ unread[t]["SELL"] \in Int /\ legs[t] \in Int /\ position[t] \in Int
    BY DEF Ledger, Side
  <2>2. CASE t = s
    BY <1>3, <2>1, <2>2 DEF Ledger, Unbooked
  <2>3. CASE t # s
    <3>1. position'[t] = position[t] /\ legs'[t] = legs[t]
      BY <1>3, <2>3 DEF Ledger
    <3>2. QED BY <1>3, <3>1 DEF Unbooked
  <2>4. QED BY <2>2, <2>3
<1>6. PositionLacksOnlyUnsaved' /\ LinesLackUnsaved'
  BY <1>3, <1>5 DEF Ledger, PositionLacksOnlyUnsaved, LinesLackUnsaved
<1>7. QED BY <1>3, <1>4, <1>6 DEF Ledger

\* toSave is what is left of the two symbols, in order of id, and they have no line yet.
SaveOrder ==
    /\ toSave \in {<<>>, <<"UNDY">>, <<"DORM", "UNDY">>}
    /\ toSave = <<"UNDY">> => lines["UNDY"] = 0
    /\ toSave = <<"DORM", "UNDY">> => lines["DORM"] = 0 /\ lines["UNDY"] = 0

\* A truncated file lacks what it held, too.
LEMMA InterruptLedger == Ledger /\ Interrupt => Ledger'
<1> SUFFICES ASSUME Ledger, Interrupt PROVE Ledger'
  OBVIOUS
<1>1. /\ file' = Zero /\ lines' = Zero /\ unsaved' = missed'
      /\ missed' = [s \in Symbols |-> missed[s] + file[s]]
      /\ UNCHANGED <<position, legs, unread, held, lost>>
  BY DEF Interrupt, booked, exchange
<1>2. {file', lines', missed', unsaved'} \subseteq [Symbols -> Int]
  BY <1>1 DEF Ledger, Zero
<1>3. ASSUME NEW t \in Symbols PROVE held'[t] = file'[t] + missed'[t]
  <2>1. /\ held[t] = file[t] + missed[t] /\ file[t] \in Int /\ missed[t] \in Int
    BY DEF Ledger, PositionLacksOnlyUnsaved
  <2>2. file'[t] = 0 /\ missed'[t] = missed[t] + file[t] /\ held'[t] = held[t]
    BY <1>1 DEF Zero
  <2>3. QED BY <2>1, <2>2
<1>4. \A t \in Symbols : Unbooked(t)' = Unbooked(t)
  BY <1>1 DEF Unbooked
<1>5. PositionLacksOnlyUnsaved' /\ LinesLackUnsaved'
  BY <1>1, <1>3, <1>4 DEF Ledger, PositionLacksOnlyUnsaved, LinesLackUnsaved
<1>6. QED BY <1>1, <1>2, <1>5 DEF Ledger

\* A saved symbol's line is its position, and lacks what is unbooked or was lost before.
LEMMA SaveNextLedger ==
    ASSUME Ledger, SaveNext, Head(toSave) \in Symbols, lines[Head(toSave)] = 0
    PROVE  Ledger'
<1> DEFINE s == Head(toSave)
<1>1. /\ lines' = [lines EXCEPT ![s] = position[s]]
      /\ unsaved' = [unsaved EXCEPT ![s] = Unbooked(s) + lost[s]]
      /\ UNCHANGED <<position, legs, unread, held, lost>>
  <2>1. /\ lines' = IF position[s] # 0 THEN [lines EXCEPT ![s] = position[s]] ELSE lines
        /\ unsaved' = [unsaved EXCEPT ![s] = Unbooked(s) + lost[s]]
        /\ UNCHANGED <<position, legs, unread, held, lost>>
    BY DEF SaveNext, booked, exchange
  <2>2. position[s] = 0 => [lines EXCEPT ![s] = position[s]] = lines
    BY DEF Ledger
  <2>3. QED BY <2>1, <2>2
<1>2. \/ file' = lines' /\ missed' = unsaved'
      \/ file' = file /\ missed' = missed
  BY DEF SaveNext, Flush
<1>3. ASSUME NEW t \in Symbols PROVE Unbooked(t) \in Int /\ Unbooked(t)' = Unbooked(t)
  BY <1>1 DEF Ledger, Unbooked, Side
<1>4. lines' \in [Symbols -> Int] /\ unsaved' \in [Symbols -> Int]
  BY <1>1, <1>3 DEF Ledger
<1>5. ASSUME NEW t \in Symbols PROVE held'[t] = lines'[t] + unsaved'[t]
  <2>1. /\ position[t] \in Int /\ lost[t] \in Int
        /\ held[t] = position[t] + Unbooked(t) + lost[t] /\ held[t] = lines[t] + unsaved[t]
    BY DEF Ledger, PositionLacksOnlyUnsaved, LinesLackUnsaved
  <2>2. CASE t = s
    BY <1>1, <1>3, <2>1, <2>2 DEF Ledger
  <2>3. CASE t # s
    BY <1>1, <2>1, <2>3 DEF Ledger
  <2>4. QED BY <2>2, <2>3
<1>6. /\ file' \in [Symbols -> Int] /\ missed' \in [Symbols -> Int]
      /\ \A t \in Symbols : held'[t] = file'[t] + missed'[t]
  BY <1>1, <1>2, <1>4, <1>5 DEF Ledger, PositionLacksOnlyUnsaved
<1>7. PositionLacksOnlyUnsaved' /\ LinesLackUnsaved'
  BY <1>1, <1>3, <1>5, <1>6 DEF Ledger, PositionLacksOnlyUnsaved, LinesLackUnsaved
<1>8. QED BY <1>1, <1>4, <1>6, <1>7 DEF Ledger

\* Closed, the file is the lines.
LEMMA CloseFileLedger == Ledger /\ CloseFile => Ledger'
<1> SUFFICES ASSUME Ledger, CloseFile PROVE Ledger'
  OBVIOUS
<1>1. file' = lines /\ missed' = unsaved /\ UNCHANGED <<position, legs, unread, held, lost, lines, unsaved>>
  BY DEF CloseFile, booked, exchange
<1>2. \A t \in Symbols : Unbooked(t)' = Unbooked(t)
  BY <1>1 DEF Unbooked
<1>3. PositionLacksOnlyUnsaved' /\ LinesLackUnsaved'
  BY <1>1, <1>2 DEF Ledger, PositionLacksOnlyUnsaved, LinesLackUnsaved
<1>4. QED BY <1>1, <1>3 DEF Ledger

\* The next process has the file's positions and books nothing of the last one's.
LEMMA NextProcessLedger == Ledger /\ NextProcess => Ledger'
<1> SUFFICES ASSUME Ledger, NextProcess PROVE Ledger'
  OBVIOUS
<1>1. /\ position' = file /\ lost' = missed /\ legs' = Zero /\ unread' = Nothing
      /\ lines' = file /\ unsaved' = missed /\ UNCHANGED <<held, file, missed>>
  BY DEF NextProcess
<1>2. ASSUME NEW t \in Symbols PROVE Unbooked(t)' = 0
  BY <1>1 DEF Unbooked, Zero, Nothing, Side
<1>3. legs' \in [Symbols -> Int] /\ unread' \in [Symbols -> [Side -> Int]]
  BY <1>1 DEF Zero, Nothing
<1>4. PositionLacksOnlyUnsaved' /\ LinesLackUnsaved'
  BY <1>1, <1>2 DEF Ledger, PositionLacksOnlyUnsaved, LinesLackUnsaved
<1>5. QED BY <1>1, <1>3, <1>4 DEF Ledger

\* The head of toSave is a symbol without a line.
LEMMA SaveHead ==
    ASSUME SaveOrder, toSave # <<>>
    PROVE  /\ Head(toSave) \in Symbols /\ lines[Head(toSave)] = 0
           /\ \/ toSave = <<"UNDY">> /\ Head(toSave) = "UNDY" /\ Tail(toSave) = <<>>
              \/ toSave = <<"DORM", "UNDY">> /\ Head(toSave) = "DORM" /\ Tail(toSave) = <<"UNDY">>
<1>1. Head(<<"UNDY">>) = "UNDY" /\ Head(<<"DORM", "UNDY">>) = "DORM"
  OBVIOUS
<1>2. Tail(<<"UNDY">>) = <<>> /\ Tail(<<"DORM", "UNDY">>) = <<"UNDY">>
  OBVIOUS
<1>3. QED BY <1>1, <1>2 DEF SaveOrder, Symbols

\* Every step keeps the order.
LEMMA SaveOrderStep == Ledger /\ SaveOrder /\ [SmNext]_smVars => SaveOrder'
<1> SUFFICES ASSUME Ledger, SaveOrder, [SmNext]_smVars PROVE SaveOrder'
  OBVIOUS
<1>1. CASE UNCHANGED <<toSave, lines>>
  BY <1>1 DEF SaveOrder
<1>2. CASE Interrupt
  <2>1. toSave' = <<"DORM", "UNDY">> /\ lines' = Zero
    BY <1>2 DEF Interrupt
  <2>2. lines'["DORM"] = 0 /\ lines'["UNDY"] = 0
    BY <2>1 DEF Zero, Symbols
  <2>3. <<"DORM", "UNDY">> # <<"UNDY">>
    OBVIOUS
  <2>4. QED BY <2>1, <2>2, <2>3 DEF SaveOrder
<1>3. CASE SaveNext
  <2> DEFINE s == Head(toSave)
  <2>1. /\ toSave' = Tail(toSave) /\ toSave # <<>>
        /\ lines' = IF position[s] # 0 THEN [lines EXCEPT ![s] = position[s]] ELSE lines
    BY <1>3 DEF SaveNext
  <2>2. <<>> # <<"UNDY">> /\ <<>> # <<"DORM", "UNDY">> /\ <<"UNDY">> # <<"DORM", "UNDY">>
    OBVIOUS
  <2>3. CASE toSave = <<"UNDY">>
    <3>1. toSave' = <<>>
      BY <2>1, <2>2, <2>3, SaveHead
    <3>2. QED BY <2>2, <3>1 DEF SaveOrder
  <2>4. CASE toSave = <<"DORM", "UNDY">>
    <3>1. toSave' = <<"UNDY">> /\ s = "DORM" /\ lines["UNDY"] = 0
      BY <2>1, <2>2, <2>4, SaveHead DEF SaveOrder
    <3>2. lines'["UNDY"] = 0
      BY <2>1, <3>1 DEF Ledger, Symbols
    <3>3. QED BY <2>2, <3>1, <3>2 DEF SaveOrder
  <2>5. QED BY <2>1, <2>3, <2>4 DEF SaveOrder
<1>4. CASE NextProcess
  <2>1. toSave' = <<>>
    BY <1>4 DEF NextProcess
  <2>2. <<>> # <<"UNDY">> /\ <<>> # <<"DORM", "UNDY">>
    OBVIOUS
  <2>3. QED BY <2>1, <2>2 DEF SaveOrder
<1>5. QED
  BY <1>1, <1>2, <1>3, <1>4
     DEF SmNext, smVars, saving, Exit, Crash, OnMessage, ResetBook, UpdateBook, StoreNext, ReadNext,
         Trade, ReadFill, Convert, BookLeg, CloseFile

\* Every step keeps the ledger.
LEMMA LedgerStep == Ledger /\ SaveOrder /\ [SmNext]_smVars => Ledger'
<1> SUFFICES ASSUME Ledger, SaveOrder, [SmNext]_smVars PROVE Ledger'
  OBVIOUS
<1>1. CASE UNCHANGED <<position, legs, held, file, lines, missed, unsaved, lost, unread>>
  BY <1>1 DEF Ledger, PositionLacksOnlyUnsaved, LinesLackUnsaved, Unbooked
<1>2. ASSUME NEW s \in Symbols, NEW side \in Side, NEW qty \in Qty, NEW price \in Price,
             ReadFill(s, side, qty, price)
      PROVE  Ledger'
  BY <1>2, ReadFillLedger
<1>3. ASSUME NEW s \in Symbols, NEW side \in Side, NEW qty \in Qty, Trade(s, side, qty)
      PROVE  Ledger'
  BY <1>3, TradeLedger
<1>4. ASSUME NEW qty \in Qty, Convert(qty) \/ Convert(-qty) PROVE Ledger'
  <2>1. qty \in Int /\ -qty \in Int
    BY QtyAssumption
  <2>2. QED BY <1>4, <2>1, ConvertLedger
<1>5. ASSUME NEW s \in Symbols, BookLeg(s) PROVE Ledger'
  BY <1>5, BookLegLedger
<1>6. CASE Interrupt \/ SaveNext \/ CloseFile
  <2>1. CASE SaveNext
    <3>1. toSave # <<>>
      BY <2>1 DEF SaveNext
    <3>2. QED BY <2>1, <3>1, SaveHead, SaveNextLedger
  <2>2. QED BY <1>6, <2>1, InterruptLedger, CloseFileLedger
<1>7. CASE NextProcess
  BY <1>7, NextProcessLedger
<1>8. CASE OnMessage \/ ResetBook \/ StoreNext \/ ReadNext
  <2>1. UNCHANGED <<position, legs, held, file, lines, missed, unsaved, lost, unread>>
    BY <1>8 DEF OnMessage, ResetBook, UpdateBook, StoreNext, ReadNext,
                booked, exchange, saving, lacks
  <2>2. QED BY <1>1, <2>1
<1>9. CASE UNCHANGED smVars
  BY <1>1, <1>9 DEF smVars, booked, exchange, saving, lacks
<1>10. QED
  BY <1>2, <1>3, <1>4, <1>5, <1>6, <1>7, <1>8, <1>9 DEF SmNext, Exit, Crash

\* Whatever fills, conversions, interrupts and crashes there are, a crash in the middle of
\* a save too, a process knows the exchange's position but for what was unbooked, unsaved
\* or truncated when it was to know it.
THEOREM PositionsAreLedgered == SmSpec => []PositionLacksOnlyUnsaved
<1>1. SmInit => Ledger /\ SaveOrder
  <2>1. <<>> # <<"UNDY">> /\ <<>> # <<"DORM", "UNDY">>
    OBVIOUS
  <2>2. QED BY <2>1, InitLedger DEF SmInit, SaveOrder
<1>2. Ledger /\ SaveOrder /\ [SmNext]_smVars => (Ledger /\ SaveOrder)'
  BY LedgerStep, SaveOrderStep
<1>3. Ledger => PositionLacksOnlyUnsaved
  BY DEF Ledger
<1>4. QED BY <1>1, <1>2, <1>3, PTL DEF SmSpec

-----------------------------------------------------------------------------
(* The atomics and the snapshot *)

\* The fields still to be stored, as a set
Pending == {toStore[i] : i \in DOMAIN toStore}

StoreOrder ==
    toStore \in {<<>>, <<"askQty">>, <<"askPx", "askQty">>, <<"bidQty", "askPx", "askQty">>, Stored}

\* Fields not pending are the book's, pending ones are at most one update old.
CacheAges ==
    /\ book.at \in Int
    /\ cache \in [Fields -> [at : Int, some : BOOLEAN]]
    /\ book.bid \in BOOLEAN /\ book.ask \in BOOLEAN
    /\ StoreOrder
    /\ \A f \in Fields \ Pending : cache[f] = Value(book, f)
    /\ \A f \in Fields : cache[f].at \in {book.at - 1, book.at}

\* What a snapshot has read is no newer than the book.
SnapAges ==
    /\ snap \in Seq([at : Int, some : BOOLEAN]) /\ Len(snap) <= 4
    /\ \A i \in DOMAIN snap : snap[i].at <= book.at
    /\ SnapshotNeverGoesBackTwice

Ages == CacheAges /\ SnapAges

\* Append keeps the old entries and adds one.
LEMMA AppendEntries ==
    ASSUME NEW S, NEW seq \in Seq(S), NEW e \in S
    PROVE  /\ Append(seq, e) \in Seq(S) /\ Len(Append(seq, e)) = Len(seq) + 1
           /\ DOMAIN Append(seq, e) = 1 .. Len(seq) + 1 /\ DOMAIN seq = 1 .. Len(seq)
           /\ Len(seq) \in Nat
           /\ \A i \in 1 .. Len(seq) : Append(seq, e)[i] = seq[i]
           /\ Append(seq, e)[Len(seq) + 1] = e
<1>1. Append(seq, e) \in Seq(S) /\ Len(Append(seq, e)) = Len(seq) + 1 /\ Len(seq) \in Nat
  OBVIOUS
<1>2. DOMAIN Append(seq, e) = 1 .. Len(seq) + 1 /\ DOMAIN seq = 1 .. Len(seq)
  BY <1>1
<1>3. \A i \in 1 .. Len(seq) : Append(seq, e)[i] = seq[i]
  BY <1>1
<1>4. Append(seq, e)[Len(seq) + 1] = e
  BY <1>1
<1>5. QED BY <1>1, <1>2, <1>3, <1>4

\* The entries of a sequence have its elements' type.
LEMMA EntriesOf ==
    ASSUME NEW S, NEW seq \in Seq(S)
    PROVE  Len(seq) \in Nat /\ \A i \in DOMAIN seq : seq[i] \in S
  OBVIOUS

\* What a snapshot has read was read of some update.
LEMMA SnapEntries == SnapAges => Len(snap) \in Nat /\ \A i \in DOMAIN snap : snap[i].at \in Int
<1> SUFFICES ASSUME SnapAges PROVE Len(snap) \in Nat /\ \A i \in DOMAIN snap : snap[i].at \in Int
  OBVIOUS
<1>1. snap \in Seq([at : Int, some : BOOLEAN])
  BY DEF SnapAges
<1>2. Len(snap) \in Nat /\ \A i \in DOMAIN snap : snap[i] \in [at : Int, some : BOOLEAN]
  BY <1>1, EntriesOf
<1>3. QED BY <1>2

\* Storing in this order leaves the fields behind the head.
LEMMA StoreTails ==
    ASSUME StoreOrder, toStore # <<>>, toStore' = Tail(toStore)
    PROVE  /\ Head(toStore) \in Fields
           /\ StoreOrder'
           /\ Fields \ Pending' \subseteq (Fields \ Pending) \cup {Head(toStore)}
<1>1. CASE toStore = <<"askQty">>
  <2>1. Head(toStore) = "askQty" /\ toStore' = <<>>
    BY <1>1
  <2>2. Pending = {"askQty"}
    BY <1>1 DEF Pending
  <2>3. QED BY <2>1, <2>2 DEF StoreOrder, Fields
<1>2. CASE toStore = <<"askPx", "askQty">>
  <2>1. Head(toStore) = "askPx" /\ toStore' = <<"askQty">>
    BY <1>2
  <2>2. Pending = {"askPx", "askQty"} /\ Pending' = {"askQty"}
    BY <1>2, <2>1 DEF Pending
  <2>3. QED BY <2>1, <2>2 DEF StoreOrder, Fields
<1>3. CASE toStore = <<"bidQty", "askPx", "askQty">>
  <2>1. Head(toStore) = "bidQty" /\ toStore' = <<"askPx", "askQty">>
    BY <1>3
  <2>2. Pending = {"bidQty", "askPx", "askQty"} /\ Pending' = {"askPx", "askQty"}
    BY <1>3, <2>1 DEF Pending
  <2>3. QED BY <2>1, <2>2 DEF StoreOrder, Fields
<1>4. CASE toStore = Stored
  <2>1. Head(toStore) = "bidPx" /\ toStore' = <<"bidQty", "askPx", "askQty">>
    BY <1>4 DEF Stored
  <2>2. Pending = Fields /\ Pending' = {"bidQty", "askPx", "askQty"}
    BY <1>4, <2>1 DEF Pending, Stored, Fields
  <2>3. QED BY <2>1, <2>2 DEF StoreOrder, Fields
<1>5. QED BY <1>1, <1>2, <1>3, <1>4 DEF StoreOrder

\* At the start the book and the cache are empty.
LEMMA InitAges == SmInit => Ages
<1> SUFFICES ASSUME SmInit PROVE Ages
  OBVIOUS
<1>1. book = EmptyTop /\ toStore = <<>> /\ cache = EmptyCache /\ snap = <<>>
  BY DEF SmInit
<1>2. CacheAges
  BY <1>1 DEF CacheAges, StoreOrder, Pending, EmptyTop, EmptyCache, Value
<1>3. SnapAges
  BY <1>1 DEF SnapAges, SnapshotNeverGoesBackTwice
<1>4. QED BY <1>2, <1>3 DEF Ages

\* A new update makes every field pending; all were its predecessor's.
LEMMA UpdateAges ==
    ASSUME Ages, NEW bid \in BOOLEAN, NEW ask \in BOOLEAN, UpdateBook(bid, ask, Stored)
    PROVE  Ages'
<1>1. /\ toStore = <<>> /\ toStore' = Stored /\ UNCHANGED <<cache, snap>>
      /\ book' = [at |-> book.at + 1, bid |-> bid, ask |-> ask]
  BY DEF UpdateBook
<1>2. book'.at = book.at + 1 /\ book'.at \in Int /\ book'.bid \in BOOLEAN /\ book'.ask \in BOOLEAN
  BY <1>1 DEF Ages, CacheAges
<1>3. \A f \in Fields : cache[f].at = book.at
  <2>1. Pending = {}
    BY <1>1 DEF Pending
  <2>2. QED BY <2>1 DEF Ages, CacheAges, Value
<1>4. Pending' = Fields
  BY <1>1 DEF Pending, Stored, Fields
<1>5. CacheAges'
  BY <1>1, <1>2, <1>3, <1>4 DEF Ages, CacheAges, StoreOrder
<1>6. SnapAges'
  <2>1. \A i \in DOMAIN snap : snap[i].at \in Int /\ snap[i].at <= book.at
    BY SnapEntries DEF Ages, SnapAges
  <2>2. \A i \in DOMAIN snap : snap[i].at <= book'.at
    BY <1>2, <2>1 DEF Ages, CacheAges
  <2>3. QED BY <1>1, <2>2 DEF Ages, SnapAges, SnapshotNeverGoesBackTwice
<1>7. QED BY <1>5, <1>6 DEF Ages

\* A store brings one field up to date.
LEMMA StoreAges == Ages /\ StoreNext => Ages'
<1> SUFFICES ASSUME Ages, StoreNext PROVE Ages'
  OBVIOUS
<1> DEFINE h == Head(toStore)
<1>1. /\ toStore # <<>> /\ toStore' = Tail(toStore)
      /\ cache' = [cache EXCEPT ![h] = Value(book, h)]
      /\ UNCHANGED <<book, snap>>
  BY DEF StoreNext
<1>2. /\ h \in Fields /\ StoreOrder'
      /\ Fields \ Pending' \subseteq (Fields \ Pending) \cup {h}
  BY <1>1, StoreTails DEF Ages, CacheAges
<1>3. Value(book, h) \in [at : Int, some : BOOLEAN] /\ Value(book, h).at = book.at
  BY DEF Value, Ages, CacheAges
<1>4. cache' \in [Fields -> [at : Int, some : BOOLEAN]]
  BY <1>1, <1>2, <1>3 DEF Ages, CacheAges
<1>5. ASSUME NEW f \in Fields \ Pending' PROVE cache'[f] = Value(book, f)
  <2>1. CASE f = h
    BY <1>1, <1>2, <2>1 DEF Ages, CacheAges
  <2>2. CASE f # h
    BY <1>1, <1>2, <2>2 DEF Ages, CacheAges
  <2>3. QED BY <2>1, <2>2
<1>6. ASSUME NEW f \in Fields PROVE cache'[f].at \in {book.at - 1, book.at}
  <2>1. CASE f = h
    BY <1>1, <1>2, <1>3, <2>1 DEF Ages, CacheAges
  <2>2. CASE f # h
    BY <1>1, <2>2 DEF Ages, CacheAges
  <2>3. QED BY <2>1, <2>2
<1>7. CacheAges'
  <2>1. \A f \in Fields : Value(book, f)' = Value(book, f)
    BY <1>1 DEF Value
  <2>2. QED BY <1>1, <1>2, <1>4, <1>5, <1>6, <2>1 DEF Ages, CacheAges
<1>8. SnapAges'
  BY <1>1 DEF Ages, SnapAges, SnapshotNeverGoesBackTwice
<1>9. QED BY <1>7, <1>8 DEF Ages

\* A read adds a field that is at most one update older than the book, and so than
\* anything read before it.
LEMMA ReadAges == Ages /\ ReadNext => Ages'
<1> SUFFICES ASSUME Ages, ReadNext PROVE Ages'
  OBVIOUS
<1>1. UNCHANGED <<book, toStore, cache>>
  BY DEF ReadNext, marketData
<1>2. CacheAges'
  BY <1>1 DEF Ages, CacheAges, StoreOrder, Pending, Value
<1>3. CASE Len(snap) = 4
  <2>1. snap' = <<>>
    BY <1>3 DEF ReadNext
  <2>2. SnapAges'
    BY <2>1 DEF SnapAges, SnapshotNeverGoesBackTwice
  <2>3. QED BY <1>2, <2>2 DEF Ages
<1>4. CASE Len(snap) # 4
  <2> DEFINE f == ReadInOrder[Len(snap) + 1]
  <2>1. snap' = Append(snap, cache[f])
    BY <1>4 DEF ReadNext
  <2>2. Len(snap) \in Nat /\ Len(snap) + 1 \in 1 .. 4 /\ Len(snap) < 4
    <3>1. Len(snap) \in Nat
      BY SnapEntries DEF Ages
    <3>2. Len(snap) <= 4
      BY DEF Ages, SnapAges
    <3>3. \A n \in Nat : n <= 4 /\ n # 4 => n + 1 \in 1 .. 4 /\ n < 4
      OBVIOUS
    <3>4. QED BY <1>4, <3>1, <3>2, <3>3
  <2>3. f \in Fields
    BY <2>2 DEF ReadInOrder, Fields
  <2>4. cache[f] \in [at : Int, some : BOOLEAN] /\ cache[f].at \in {book.at - 1, book.at}
    BY <2>3 DEF Ages, CacheAges
  <2> HIDE DEF f
  <2>5. snap \in Seq([at : Int, some : BOOLEAN])
    BY DEF Ages, SnapAges
  <2>6. /\ snap' \in Seq([at : Int, some : BOOLEAN]) /\ Len(snap') = Len(snap) + 1
        /\ DOMAIN snap' = 1 .. Len(snap) + 1 /\ DOMAIN snap = 1 .. Len(snap)
        /\ \A i \in 1 .. Len(snap) : snap'[i] = snap[i]
        /\ snap'[Len(snap) + 1] = cache[f]
    BY <2>1, <2>4, <2>5, AppendEntries
  <2>7. \A i \in 1 .. Len(snap) : snap[i].at \in Int /\ snap[i].at <= book.at
    BY <2>6, SnapEntries DEF Ages, SnapAges
  <2>8. book.at \in Int /\ cache[f].at \in Int /\ cache[f].at <= book.at /\ cache[f].at >= book.at - 1
    BY <2>4 DEF Ages, CacheAges
  <2>9. \A i \in DOMAIN snap' : snap'[i].at <= book.at
    BY <2>2, <2>6, <2>7, <2>8
  <2>10. ASSUME NEW i \in DOMAIN snap', NEW j \in DOMAIN snap', i < j
         PROVE  snap'[j].at >= snap'[i].at - 1
    <3>1. i \in 1 .. Len(snap)
      BY <2>2, <2>6, <2>10
    <3>2. CASE j = Len(snap) + 1
      <4>1. snap'[i].at = snap[i].at /\ snap'[j].at = cache[f].at
        BY <2>6, <3>1, <3>2
      <4>2. QED BY <2>7, <2>8, <3>1, <4>1
    <3>3. CASE j # Len(snap) + 1
      <4>1. j \in 1 .. Len(snap)
        BY <2>2, <2>6, <2>10, <3>3
      <4>2. snap[j].at >= snap[i].at - 1
        BY <2>6, <2>10, <3>1, <4>1 DEF Ages, SnapAges, SnapshotNeverGoesBackTwice
      <4>3. QED BY <2>6, <3>1, <4>1, <4>2
    <3>4. QED BY <3>2, <3>3
  <2>11. SnapAges'
    BY <1>1, <2>2, <2>6, <2>9, <2>10 DEF SnapAges, SnapshotNeverGoesBackTwice
  <2>12. QED BY <1>2, <2>11 DEF Ages
<1>5. QED BY <1>3, <1>4

\* Every step keeps the ages.
LEMMA AgesStep == Ages /\ [SmNext]_smVars => Ages'
<1> SUFFICES ASSUME Ages, [SmNext]_smVars PROVE Ages'
  OBVIOUS
<1>1. CASE UNCHANGED <<book, toStore, cache, snap>>
  BY <1>1 DEF Ages, CacheAges, SnapAges, StoreOrder, Pending, Value, SnapshotNeverGoesBackTwice
<1>2. CASE OnMessage \/ ResetBook
  BY <1>2, UpdateAges DEF OnMessage, ResetBook
<1>3. CASE StoreNext
  BY <1>3, StoreAges
<1>4. CASE ReadNext
  BY <1>4, ReadAges
<1>5. CASE NextProcess
  <2>1. book' = EmptyTop /\ toStore' = <<>> /\ cache' = EmptyCache /\ snap' = <<>>
    BY <1>5 DEF NextProcess
  <2>2. CacheAges'
    BY <2>1 DEF CacheAges, StoreOrder, Pending, EmptyTop, EmptyCache, Value
  <2>3. SnapAges'
    BY <2>1 DEF SnapAges, SnapshotNeverGoesBackTwice
  <2>4. QED BY <2>2, <2>3 DEF Ages
<1>6. CASE \/ Interrupt \/ SaveNext \/ CloseFile
           \/ \E s \in Symbols : BookLeg(s)
           \/ \E qty \in Qty : Convert(qty) \/ Convert(-qty)
           \/ \E s \in Symbols, side \in Side, qty \in Qty :
                 Trade(s, side, qty) \/ \E price \in Price : ReadFill(s, side, qty, price)
  <2>1. UNCHANGED <<book, toStore, cache, snap>>
    BY <1>6 DEF Interrupt, SaveNext, CloseFile, BookLeg, Convert, Trade, ReadFill, marketData
  <2>2. QED BY <1>1, <2>1
<1>7. CASE UNCHANGED smVars
  BY <1>1, <1>7 DEF smVars, marketData
<1>8. QED BY <1>2, <1>3, <1>4, <1>5, <1>6, <1>7 DEF SmNext, Exit, Crash

\* Between messages the atomics are the top of the book, and a snapshot never mixes
\* a field with one that an update two later had replaced before.
THEOREM AtomicsAgeByOne == SmSpec => [](CacheIsTopOfBook /\ SnapshotNeverGoesBackTwice)
<1>1. SmInit => Ages
  BY InitAges
<1>2. Ages /\ [SmNext]_smVars => Ages'
  BY AgesStep
<1>3. Ages => CacheIsTopOfBook /\ SnapshotNeverGoesBackTwice
  <2> SUFFICES ASSUME Ages PROVE CacheIsTopOfBook /\ SnapshotNeverGoesBackTwice
    OBVIOUS
  <2>1. SnapshotNeverGoesBackTwice
    BY DEF Ages, SnapAges
  <2>2. toStore = <<>> => Pending = {}
    BY DEF Pending
  <2>3. QED BY <2>1, <2>2 DEF Ages, CacheAges, CacheIsTopOfBook
<1>4. QED BY <1>1, <1>2, <1>3, PTL DEF SmSpec

-----------------------------------------------------------------------------
(* Types *)

MarketTyped ==
    /\ budget \in Budgets
    /\ book \in [at : 0 .. budget.updates, bid : BOOLEAN, ask : BOOLEAN]
    /\ cache \in [Fields -> [at : 0 .. budget.updates, some : BOOLEAN]]
    /\ snap \in Seq([at : 0 .. budget.updates, some : BOOLEAN])

BookedTyped ==
    /\ avg \in [Symbols -> Int]
    /\ pnl \in Int /\ cash \in Int /\ shortCash \in Int /\ flipped \in BOOLEAN

ProcessTyped ==
    /\ unread \in [Symbols -> [Side -> Nat]]
    /\ stage \in {"running", "saving", "saved"} /\ (toSave # <<>> => stage = "saving")
    /\ process \in 1 .. MaxProcesses /\ trades \in 0 .. budget.trades

SmTyped == Ledger /\ SaveOrder /\ Ages /\ MarketTyped /\ BookedTyped /\ ProcessTyped

\* The bounds of a behaviour are numbers.
LEMMA BudgetNumbers == budget \in Budgets => budget.updates \in Nat /\ budget.trades \in Nat
BY SmBoundsAssumption

\* An average is whole: the code divides by what is then held.
LEMMA AverageInt ==
    ASSUME Ledger, BookedTyped, NEW s \in Symbols, NEW side \in Side, NEW qty \in Nat, NEW price \in Int
    PROVE  NewAverage(s, side, qty, price) \in Int
<1>1. position[s] \in Int /\ avg[s] \in Int
  BY DEF Ledger, BookedTyped
<1> DEFINE after == position[s] + qty
           cost == avg[s] * Larger(position[s], 0) + price * qty
<1>2. after \in Int /\ cost \in Int
  <2>1. Larger(position[s], 0) \in Int
    BY <1>1 DEF Larger
  <2>2. avg[s] * Larger(position[s], 0) \in Int /\ price * qty \in Int
    BY <1>1, <2>1
  <2>3. QED BY <1>1, <2>2
<1>3. NewAverage(s, side, qty, price) =
         CASE side = "SELL" -> avg[s] [] side = "BUY" /\ after > 0 -> cost \div after [] OTHER -> price
  BY DEF NewAverage
<1> HIDE DEF after, cost
<1>4. after > 0 => cost \div after \in Int
  BY <1>2
<1>5. QED BY <1>1, <1>3, <1>4 DEF Side

\* A fill of whole numbers leaves whole numbers.
LEMMA OnFillTyped ==
    ASSUME Ledger, BookedTyped, NEW s \in Symbols, NEW side \in Side, NEW qty \in Nat, NEW price \in Int,
           OnFill(s, side, qty, price)
    PROVE  BookedTyped'
<1>1. position[s] \in Int /\ NewAverage(s, side, qty, price) \in Int
  BY AverageInt DEF Ledger
<1>2. Signed(side, qty) \in Int
  BY DEF Signed
<1>3. Realized(s, side, qty, price) \in Int
  <2>1. Smaller(qty, position[s]) \in Int /\ Smaller(qty, -position[s]) \in Int
    BY <1>1 DEF Smaller
  <2>2. /\ price - NewAverage(s, side, qty, price) \in Int
        /\ NewAverage(s, side, qty, price) - price \in Int
    BY <1>1
  <2>3. /\ (price - NewAverage(s, side, qty, price)) * Smaller(qty, position[s]) \in Int
        /\ (NewAverage(s, side, qty, price) - price) * Smaller(qty, -position[s]) \in Int
    BY <2>1, <2>2
  <2>4. QED BY <2>3 DEF Realized
<1>4. Signed(side, ShortPart(s, side, qty)) \in Int
  BY <1>1 DEF ShortPart, Signed, Smaller, Larger
<1>5. /\ Signed(side, qty) * price \in Int
      /\ Signed(side, ShortPart(s, side, qty)) * price \in Int
  BY <1>2, <1>4
<1>6. /\ avg' = [avg EXCEPT ![s] = NewAverage(s, side, qty, price)]
      /\ pnl' = pnl + Realized(s, side, qty, price)
      /\ cash' = cash - Signed(side, qty) * price
      /\ shortCash' = shortCash - Signed(side, ShortPart(s, side, qty)) * price
      /\ flipped' \in BOOLEAN
  BY DEF OnFill
<1>7. avg' \in [Symbols -> Int]
  BY <1>1, <1>6 DEF BookedTyped
<1>8. pnl' \in Int /\ cash' \in Int /\ shortCash' \in Int
  BY <1>3, <1>5, <1>6 DEF BookedTyped
<1>9. QED BY <1>6, <1>7, <1>8 DEF BookedTyped

\* The market-data thread and the snapshots keep to the updates there are.
LEMMA MarketStep == SmTyped /\ [SmNext]_smVars => MarketTyped'
<1> SUFFICES ASSUME SmTyped, [SmNext]_smVars PROVE MarketTyped'
  OBVIOUS
<1> DEFINE Cell == [at : 0 .. budget.updates, some : BOOLEAN]
<1>1. budget.updates \in Nat /\ MarketTyped
  BY BudgetNumbers DEF SmTyped, MarketTyped
<1>2. UNCHANGED budget
  BY DEF SmNext, OnMessage, ResetBook, UpdateBook, StoreNext, ReadNext, Trade, ReadFill, Convert, BookLeg,
         Interrupt, SaveNext, CloseFile, Exit, Crash, NextProcess, saving, smVars
<1>3. \A f \in Fields : Value(book, f) \in Cell
  BY <1>1 DEF MarketTyped, Value
<1>4. CASE UNCHANGED <<book, cache, snap>>
  BY <1>1, <1>2, <1>4 DEF MarketTyped
<1>5. CASE OnMessage \/ ResetBook
  <2>1. PICK bid \in BOOLEAN, ask \in BOOLEAN : UpdateBook(bid, ask, Stored)
    BY <1>5 DEF OnMessage, ResetBook
  <2>2. /\ book' = [at |-> book.at + 1, bid |-> bid, ask |-> ask] /\ book.at < budget.updates
        /\ UNCHANGED <<cache, snap>>
    BY <2>1 DEF UpdateBook
  <2>3. book.at \in 0 .. budget.updates
    BY <1>1 DEF MarketTyped
  <2>4. book.at + 1 \in 0 .. budget.updates
    BY <1>1, <2>2, <2>3
  <2>5. QED BY <1>1, <1>2, <2>2, <2>4 DEF MarketTyped
<1>6. CASE StoreNext
  <2>1. /\ toStore # <<>> /\ toStore' = Tail(toStore)
        /\ cache' = [cache EXCEPT ![Head(toStore)] = Value(book, Head(toStore))]
        /\ UNCHANGED <<book, snap>>
    BY <1>6 DEF StoreNext
  <2>2. Head(toStore) \in Fields
    BY <2>1, StoreTails DEF SmTyped, Ages, CacheAges
  <2>3. QED BY <1>1, <1>2, <1>3, <2>1, <2>2 DEF MarketTyped
<1>7. CASE ReadNext
  <2>1. UNCHANGED <<book, cache>>
    BY <1>7 DEF ReadNext, marketData
  <2>2. snap' \in Seq(Cell)
    <3>1. CASE Len(snap) = 4
      <4>1. snap' = <<>>
        BY <1>7, <3>1 DEF ReadNext
      <4>2. QED BY <4>1
    <3>2. CASE Len(snap) # 4
      <4> DEFINE f == ReadInOrder[Len(snap) + 1]
      <4>1. snap' = Append(snap, cache[f])
        BY <1>7, <3>2 DEF ReadNext
      <4>2. Len(snap) + 1 \in 1 .. 4
        <5>1. Len(snap) \in Nat
          BY SnapEntries DEF SmTyped, Ages
        <5>2. Len(snap) <= 4
          BY DEF SmTyped, Ages, SnapAges
        <5>3. \A n \in Nat : n <= 4 /\ n # 4 => n + 1 \in 1 .. 4
          OBVIOUS
        <5>4. QED BY <3>2, <5>1, <5>2, <5>3
      <4>3. f \in Fields
        BY <4>2 DEF ReadInOrder, Fields
      <4>4. cache[f] \in Cell /\ snap \in Seq(Cell)
        BY <1>1, <4>3 DEF MarketTyped
      <4> HIDE DEF f, Cell
      <4>5. QED BY <4>1, <4>4
    <3>3. QED BY <3>1, <3>2
  <2>3. QED BY <1>1, <1>2, <2>1, <2>2 DEF MarketTyped
<1>8. CASE NextProcess
  <2>1. book' = EmptyTop /\ cache' = EmptyCache /\ snap' = <<>>
    BY <1>8 DEF NextProcess
  <2>2. 0 \in 0 .. budget.updates
    BY <1>1
  <2>3. book' \in [at : 0 .. budget.updates, bid : BOOLEAN, ask : BOOLEAN]
    BY <2>1, <2>2 DEF EmptyTop
  <2>4. cache' \in [Fields -> Cell]
    BY <2>1, <2>2 DEF EmptyTop, EmptyCache, Value
  <2>5. snap' \in Seq(Cell)
    BY <2>1
  <2>6. QED BY <1>1, <1>2, <2>3, <2>4, <2>5 DEF MarketTyped
<1>9. CASE \/ Interrupt \/ SaveNext \/ CloseFile
           \/ \E s \in Symbols : BookLeg(s)
           \/ \E qty \in Qty : Convert(qty) \/ Convert(-qty)
           \/ \E s \in Symbols, side \in Side, qty \in Qty :
                 Trade(s, side, qty) \/ \E price \in Price : ReadFill(s, side, qty, price)
  <2>1. UNCHANGED <<book, cache, snap>>
    BY <1>9 DEF Interrupt, SaveNext, CloseFile, BookLeg, Convert, Trade, ReadFill, marketData
  <2>2. QED BY <1>4, <2>1
<1>10. CASE UNCHANGED smVars
  BY <1>4, <1>10 DEF smVars, marketData
<1>11. QED BY <1>5, <1>6, <1>7, <1>8, <1>9, <1>10 DEF SmNext, Exit, Crash

\* The books stay whole: fills come with a qty and a price, legs with the cached price.
LEMMA BookedStep == SmTyped /\ [SmNext]_smVars => BookedTyped'
<1> SUFFICES ASSUME SmTyped, [SmNext]_smVars PROVE BookedTyped'
  OBVIOUS
<1>1. Ledger /\ BookedTyped
  BY DEF SmTyped
<1>2. ASSUME NEW s \in Symbols, NEW side \in Side, NEW qty \in Qty, NEW price \in Price,
             ReadFill(s, side, qty, price)
      PROVE  BookedTyped'
  <2>1. qty \in Nat /\ price \in Int /\ OnFill(s, side, qty, price)
    BY <1>2, QtyAssumption DEF ReadFill
  <2>2. QED BY <1>1, <2>1, OnFillTyped
<1>3. ASSUME NEW s \in Symbols, BookLeg(s) PROVE BookedTyped'
  <2>1. legs[s] \in Int /\ legs[s] # 0
    BY <1>1, <1>3 DEF Ledger, BookLeg
  <2>2. PICK side \in Side : side = IF legs[s] > 0 THEN "BUY" ELSE "SELL"
    BY DEF Side
  <2>3. Signed(side, legs[s]) \in Nat
    BY <2>1, <2>2 DEF Signed
  <2>4. PICK price \in LegPrices(s, side) : OnFill(s, side, Signed(side, legs[s]), price)
    BY <1>3, <2>2 DEF BookLeg
  <2>5. price \in Int
    BY QtyAssumption DEF LegPrices
  <2>6. QED BY <1>1, <2>3, <2>4, <2>5, OnFillTyped
<1>4. CASE NextProcess
  <2>1. avg' = Zero /\ pnl' = 0 /\ cash' = 0 /\ shortCash' = 0 /\ flipped' = FALSE
    BY <1>4 DEF NextProcess
  <2>2. avg' \in [Symbols -> Int]
    BY <2>1 DEF Zero
  <2>3. pnl' \in Int /\ cash' \in Int /\ shortCash' \in Int
    BY <2>1
  <2>4. flipped' \in BOOLEAN
    BY <2>1
  <2>5. QED BY <2>2, <2>3, <2>4 DEF BookedTyped
<1>5. CASE UNCHANGED booked
  BY <1>1, <1>5 DEF booked, BookedTyped
<1>6. CASE \/ OnMessage \/ ResetBook \/ StoreNext \/ ReadNext \/ Interrupt \/ SaveNext \/ CloseFile
           \/ \E qty \in Qty : Convert(qty) \/ Convert(-qty)
           \/ \E s \in Symbols, side \in Side, qty \in Qty : Trade(s, side, qty)
           \/ UNCHANGED smVars
  <2>1. UNCHANGED booked
    BY <1>6 DEF OnMessage, ResetBook, UpdateBook, StoreNext, ReadNext, Interrupt, SaveNext, CloseFile, Convert, Trade,
                smVars
  <2>2. QED BY <1>5, <2>1
<1>7. QED BY <1>2, <1>3, <1>4, <1>6 DEF SmNext, Exit, Crash

\* Symbols are left to save only during a save, and no more is read than was filled.
LEMMA ProcessStep == SmTyped /\ [SmNext]_smVars => ProcessTyped'
<1> SUFFICES ASSUME SmTyped, [SmNext]_smVars PROVE ProcessTyped'
  OBVIOUS
<1>1. ProcessTyped /\ SaveOrder /\ MaxProcesses \in Nat /\ budget.trades \in Nat
  BY BudgetNumbers, SmBoundsAssumption DEF SmTyped, MarketTyped
<1>2. UNCHANGED budget
  BY DEF SmNext, OnMessage, ResetBook, UpdateBook, StoreNext, ReadNext, Trade, ReadFill, Convert, BookLeg,
         Interrupt, SaveNext, CloseFile, Exit, Crash, NextProcess, saving, smVars
<1>3. CASE UNCHANGED <<unread, stage, toSave, process, trades>>
  BY <1>1, <1>2, <1>3 DEF ProcessTyped
<1>4. ASSUME NEW s \in Symbols, NEW side \in Side, NEW qty \in Qty, Trade(s, side, qty) PROVE ProcessTyped'
  <2>1. /\ unread' = [unread EXCEPT ![s][side] = @ + qty] /\ trades < budget.trades /\ trades' = trades + 1
        /\ UNCHANGED <<stage, toSave, process>>
    BY <1>4 DEF Trade, saving
  <2>2. unread \in [Symbols -> [Side -> Nat]] /\ qty \in Nat
    BY <1>1, QtyAssumption DEF ProcessTyped
  <2>3. unread' \in [Symbols -> [Side -> Nat]]
    BY <2>1, <2>2
  <2>4. trades' \in 0 .. budget.trades
    BY <1>1, <2>1 DEF ProcessTyped
  <2>5. QED BY <1>1, <1>2, <2>1, <2>3, <2>4 DEF ProcessTyped
<1>5. ASSUME NEW s \in Symbols, NEW side \in Side, NEW qty \in Qty, NEW price \in Price,
             ReadFill(s, side, qty, price)
      PROVE  ProcessTyped'
  <2>1. /\ unread' = [unread EXCEPT ![s][side] = @ - qty] /\ qty <= unread[s][side]
        /\ UNCHANGED <<stage, toSave, process, trades>>
    BY <1>5 DEF ReadFill, saving
  <2>2. unread \in [Symbols -> [Side -> Nat]] /\ qty \in Nat
    BY <1>1, QtyAssumption DEF ProcessTyped
  <2>3. unread' \in [Symbols -> [Side -> Nat]]
    BY <2>1, <2>2
  <2>4. QED BY <1>1, <1>2, <2>1, <2>3 DEF ProcessTyped
<1>6. ASSUME NEW basket, Convert(basket) PROVE ProcessTyped'
  <2>1. /\ trades < budget.trades /\ trades' = trades + 1
        /\ UNCHANGED <<unread, stage, toSave, process>>
    BY <1>6 DEF Convert, saving
  <2>2. trades' \in 0 .. budget.trades
    BY <1>1, <2>1 DEF ProcessTyped
  <2>3. QED BY <1>1, <1>2, <2>1, <2>2 DEF ProcessTyped
<1>7. CASE Interrupt
  BY <1>1, <1>2, <1>7 DEF Interrupt, exchange, ProcessTyped
<1>8. CASE SaveNext \/ CloseFile
  BY <1>1, <1>2, <1>8 DEF SaveNext, CloseFile, exchange, ProcessTyped
<1>9. CASE NextProcess
  <2>1. /\ process < MaxProcesses /\ process' = process + 1 /\ unread' = Nothing /\ toSave' = <<>>
        /\ stage' = "running" /\ trades' = trades
    BY <1>9 DEF NextProcess
  <2>2. process' \in 1 .. MaxProcesses
    BY <1>1, <2>1 DEF ProcessTyped
  <2>3. unread' \in [Symbols -> [Side -> Nat]]
    BY <2>1 DEF Nothing
  <2>4. QED BY <1>1, <1>2, <2>1, <2>2, <2>3 DEF ProcessTyped
<1>10. CASE OnMessage \/ ResetBook \/ StoreNext \/ ReadNext \/ (\E s \in Symbols : BookLeg(s)) \/ UNCHANGED smVars
  <2>1. UNCHANGED <<unread, stage, toSave, process, trades>>
    BY <1>10 DEF OnMessage, ResetBook, UpdateBook, StoreNext, ReadNext, BookLeg, smVars, exchange, saving
  <2>2. QED BY <1>3, <2>1
<1>11. QED BY <1>4, <1>5, <1>6, <1>7, <1>8, <1>9, <1>10 DEF SmNext, Exit, Crash

LEMMA SmInvariance == SmSpec => []SmTyped
<1>1. SmInit => SmTyped
  <2> SUFFICES ASSUME SmInit PROVE SmTyped
    OBVIOUS
  <2>1. Ledger /\ SaveOrder /\ Ages
    <3>1. <<>> # <<"UNDY">> /\ <<>> # <<"DORM", "UNDY">>
      OBVIOUS
    <3>2. QED BY <3>1, InitLedger, InitAges DEF SmInit, SaveOrder
  <2>2. budget \in Budgets /\ budget.updates \in Nat /\ budget.trades \in Nat
    BY BudgetNumbers DEF SmInit
  <2>3. MarketTyped
    <3>1. 0 \in 0 .. budget.updates
      BY <2>2
    <3>2. book = EmptyTop /\ cache = EmptyCache /\ snap = <<>>
      BY DEF SmInit
    <3>3. QED BY <2>2, <3>1, <3>2 DEF MarketTyped, EmptyTop, EmptyCache, Value
  <2>4. BookedTyped
    <3>1. avg = Zero /\ pnl = 0 /\ cash = 0 /\ shortCash = 0 /\ flipped = FALSE
      BY DEF SmInit
    <3>2. avg \in [Symbols -> Int]
      BY <3>1 DEF Zero
    <3>3. pnl \in Int /\ cash \in Int /\ shortCash \in Int
      BY <3>1
    <3>4. flipped \in BOOLEAN
      BY <3>1
    <3>5. QED BY <3>2, <3>3, <3>4 DEF BookedTyped
  <2>5. ProcessTyped
    <3>1. unread = Nothing /\ stage = "running" /\ toSave = <<>> /\ process = 1 /\ trades = 0
      BY DEF SmInit
    <3>2. unread \in [Symbols -> [Side -> Nat]]
      BY <3>1 DEF Nothing
    <3>3. process \in 1 .. MaxProcesses /\ trades \in 0 .. budget.trades
      BY <2>2, <3>1, SmBoundsAssumption
    <3>4. QED BY <3>1, <3>2, <3>3 DEF ProcessTyped
  <2>6. QED BY <2>1, <2>3, <2>4, <2>5 DEF SmTyped
<1>2. SmTyped /\ [SmNext]_smVars => SmTyped'
  BY LedgerStep, SaveOrderStep, AgesStep, MarketStep, BookedStep, ProcessStep DEF SmTyped
<1>3. QED BY <1>1, <1>2, PTL DEF SmSpec

\* Every variable keeps its type; only a save has symbols left to save, and no process books a
\* fill that the exchange did not report.
THEOREM SharedTypes == SmSpec => []SmTypeOK
<1>1. SmTyped => SmTypeOK
  <2> SUFFICES ASSUME SmTyped PROVE SmTypeOK
    OBVIOUS
  <2>1. toStore \in Seq(Fields) /\ Len(toStore) <= 4
    <3>1. \/ toStore = <<>> \/ toStore = <<"askQty">> \/ toStore = <<"askPx", "askQty">>
          \/ toStore = <<"bidQty", "askPx", "askQty">> \/ toStore = <<"bidPx", "bidQty", "askPx", "askQty">>
      BY DEF SmTyped, Ages, CacheAges, StoreOrder, Stored
    <3>2. "bidPx" \in Fields /\ "bidQty" \in Fields /\ "askPx" \in Fields /\ "askQty" \in Fields
      BY DEF Fields
    <3>3. \A a, b, c, d \in Fields :
             /\ <<>> \in Seq(Fields) /\ <<a>> \in Seq(Fields) /\ <<a, b>> \in Seq(Fields)
             /\ <<a, b, c>> \in Seq(Fields) /\ <<a, b, c, d>> \in Seq(Fields)
      OBVIOUS
    <3>4. toStore \in Seq(Fields)
      BY <3>1, <3>2, <3>3
    <3>5. \A a, b, c, d \in Fields :
             /\ Len(<<a>>) = 1 /\ Len(<<a, b>>) = 2 /\ Len(<<a, b, c>>) = 3 /\ Len(<<a, b, c, d>>) = 4
      OBVIOUS
    <3>6. Len(toStore) \in 0 .. 4
      BY <3>1, <3>2, <3>5
    <3>7. \A n \in 0 .. 4 : n <= 4
      OBVIOUS
    <3>8. QED BY <3>4, <3>6, <3>7
  <2>2. Len(snap) <= 4
    BY DEF SmTyped, Ages, SnapAges
  <2>3. {position, avg, legs, held, file, lines, missed, unsaved, lost} \subseteq [Symbols -> Int]
    BY DEF SmTyped, Ledger, BookedTyped
  <2>4. toSave \in {<<>>, <<"UNDY">>, <<"DORM", "UNDY">>}
    BY DEF SmTyped, SaveOrder
  <2>5. QED BY <2>1, <2>2, <2>3, <2>4 DEF SmTypeOK, SmTyped, MarketTyped, BookedTyped, ProcessTyped
<1>2. QED BY <1>1, SmInvariance, PTL

-----------------------------------------------------------------------------
(* The PnL *)

\* A buy that ends long has a whole average: what it costs is divided without a rest
WholeAverages ==
    \A s \in Symbols : process' = process /\ position'[s] > Larger(position[s], 0) =>
       avg'[s] * position'[s] = Cost(s) + (cash - cash')

LEMMA Products ==
    \A a, b, c \in Int : /\ a * b \in Int /\ (a - b) * c = a * c - b * c
                         /\ a * (b - c) = a * b - a * c /\ (-a) * b = -(a * b)
OBVIOUS

\* A sell books the result of what it takes off a long position; the rest goes short.
LEMMA SellBooks ==
    ASSUME NEW p \in Int, NEW a \in Int, NEW qty \in Nat, NEW price \in Int
    PROVE  (IF p > 0 THEN (price - a) * Smaller(qty, p) ELSE 0) =
              qty * price + (a * Larger(p - qty, 0) - a * Larger(p, 0))
                - (qty - Smaller(qty, Larger(p, 0))) * price
<1> DEFINE m == Smaller(qty, Larger(p, 0))
<1>1. m \in Int /\ Larger(p - qty, 0) = Larger(p, 0) - m /\ Larger(p, 0) \in Int
      /\ (p > 0 => m = Smaller(qty, p)) /\ (~(p > 0) => m = 0)
  BY DEF Smaller, Larger
<1> HIDE DEF m
<1>2. (IF p > 0 THEN (price - a) * Smaller(qty, p) ELSE 0) = (price - a) * m
  <2>1. CASE p > 0
    BY <1>1, <2>1
  <2>2. CASE ~(p > 0)
    <3>1. m = 0
      BY <1>1, <2>2
    <3>2. (price - a) * 0 = 0
      OBVIOUS
    <3>3. QED BY <2>2, <3>1, <3>2
  <2>3. QED BY <2>1, <2>2
<1>3. /\ (price - a) * m = price * m - a * m
      /\ a * (Larger(p, 0) - m) = a * Larger(p, 0) - a * m
      /\ (qty - m) * price = qty * price - m * price
      /\ m * price = price * m
  BY <1>1, Products
<1>4. price * m \in Int /\ a * m \in Int /\ a * Larger(p, 0) \in Int /\ qty * price \in Int
  BY <1>1, Products
<1>5. QED BY <1>1, <1>2, <1>3, <1>4 DEF m

\* A fill of the process: the result booked is what came in, and what the inventory
\* gained, less what was earned or paid short.
LEMMA FillBooks ==
    ASSUME SmTyped, NEW s \in Symbols, NEW side \in Side, NEW qty \in Nat \ {0}, NEW price \in Int,
           OnFill(s, side, qty, price), process' = process, WholeAverages, ~flipped'
    PROVE  /\ ~flipped
           /\ pnl' - pnl = (cash' - cash) + (Cost(s)' - Cost(s)) - (shortCash' - shortCash)
           /\ \A t \in Symbols : t # s => Cost(t)' = Cost(t)
           /\ Cost(s)' \in Int
<1> DEFINE p == position[s]
           a == avg[s]
<1>1. p \in Int /\ a \in Int /\ pnl \in Int /\ cash \in Int /\ shortCash \in Int
  BY DEF SmTyped, Ledger, BookedTyped
<1>2. /\ position' = [position EXCEPT ![s] = @ + Signed(side, qty)]
      /\ avg' = [avg EXCEPT ![s] = NewAverage(s, side, qty, price)]
      /\ pnl' = pnl + Realized(s, side, qty, price)
      /\ cash' = cash - Signed(side, qty) * price
      /\ shortCash' = shortCash - Signed(side, ShortPart(s, side, qty)) * price
      /\ ~flipped /\ ~(p < 0 /\ position'[s] > 0)
  BY DEF OnFill
<1>3. /\ position'[s] = p + Signed(side, qty) /\ avg'[s] = NewAverage(s, side, qty, price)
      /\ \A t \in Symbols : t # s => position'[t] = position[t] /\ avg'[t] = avg[t]
  BY <1>2 DEF SmTyped, Ledger, BookedTyped
<1>4. \A t \in Symbols : t # s => Cost(t)' = Cost(t)
  BY <1>3 DEF Cost
<1>5. Cost(s) = a * Larger(p, 0) /\ Cost(s)' = avg'[s] * Larger(position'[s], 0)
  BY DEF Cost
<1>6. Larger(p, 0) \in Int /\ a * Larger(p, 0) \in Int /\ qty * price \in Int
  <2>1. Larger(p, 0) \in Int
    BY <1>1 DEF Larger
  <2>2. a * Larger(p, 0) \in Int
    BY Zenon, <1>1, <2>1, Products
  <2>3. qty * price \in Int
    <3>1. qty \in Int
      OBVIOUS
    <3>2. QED BY Zenon, <3>1, Products
  <2>4. QED BY <2>1, <2>2, <2>3
<1>7. CASE side = "SELL"
  <2>1. position'[s] = p - qty /\ avg'[s] = a /\ Signed(side, qty) = -qty
    BY <1>1, <1>3, <1>7 DEF Signed, NewAverage
  <2>2. Realized(s, side, qty, price) = IF p > 0 THEN (price - a) * Smaller(qty, p) ELSE 0
    BY <1>7 DEF Realized, NewAverage
  <2> DEFINE k == qty - Smaller(qty, Larger(p, 0))
             b == a * Larger(p - qty, 0)
             r == IF p > 0 THEN (price - a) * Smaller(qty, p) ELSE 0
  <2>3. k \in Int /\ Signed(side, ShortPart(s, side, qty)) = -k
    BY <1>6, <1>7 DEF ShortPart, Signed, Smaller
  <2>4. b \in Int /\ Cost(s)' = b
    <3>1. Larger(p - qty, 0) \in Int
      BY <1>1 DEF Larger
    <3>2. QED BY <1>1, <1>5, <2>1, <3>1, Products
  <2>5. r = qty * price + (b - a * Larger(p, 0)) - k * price
    BY <1>1, SellBooks
  <2>6. k * price \in Int /\ (-k) * price = -(k * price) /\ (-qty) * price = -(qty * price)
    BY <2>3, Products
  <2>7. pnl' = pnl + r /\ cash' = cash - (-qty) * price /\ shortCash' = shortCash - (-k) * price
    BY <1>2, <2>1, <2>2, <2>3
  <2> HIDE DEF k, b, r
  <2>8. pnl' - pnl = (cash' - cash) + (Cost(s)' - Cost(s)) - (shortCash' - shortCash)
    BY <1>1, <1>5, <1>6, <2>4, <2>5, <2>6, <2>7
  <2>9. QED BY <1>2, <1>4, <2>4, <2>8
<1>8. CASE side = "BUY"
  <2>1. position'[s] = p + qty /\ Signed(side, qty) = qty
    BY <1>3, <1>8 DEF Signed
  <2>2. cash' = cash - qty * price
    BY <1>2, <2>1
  <2>3. CASE p < 0
    <3>1. p + qty <= 0
      BY <1>1, <1>2, <2>1, <2>3
    <3>2. avg'[s] = price /\ Realized(s, side, qty, price) = (price - price) * Smaller(qty, -p)
      BY <1>1, <1>3, <1>8, <2>3, <3>1 DEF NewAverage, Realized
    <3>3. ShortPart(s, side, qty) = qty /\ Smaller(qty, -p) = qty
      BY <1>1, <1>8, <2>3, <3>1 DEF ShortPart, Smaller, Larger
    <3>4. price - price = 0 /\ 0 * qty = 0 /\ price * 0 = 0 /\ a * 0 = 0
      BY <1>1
    <3>5. Larger(p, 0) = 0 /\ Larger(p + qty, 0) = 0
      BY <1>1, <2>3, <3>1 DEF Larger
    <3>6. pnl' = pnl /\ shortCash' = shortCash - qty * price /\ Cost(s) = 0 /\ Cost(s)' = 0
      BY <1>1, <1>2, <1>5, <1>8, <2>1, <3>2, <3>3, <3>4, <3>5 DEF Signed
    <3>7. pnl' - pnl = (cash' - cash) + (Cost(s)' - Cost(s)) - (shortCash' - shortCash)
      BY <1>1, <1>6, <2>2, <3>6
    <3>8. QED BY <1>2, <1>4, <3>6, <3>7
  <2>4. CASE ~(p < 0)
    <3>1. p + qty > Larger(p, 0) /\ Larger(p + qty, 0) = p + qty /\ Larger(-p, 0) = 0 /\ Smaller(qty, 0) = 0
      BY <1>1, <2>4 DEF Larger, Smaller
    <3>2. avg'[s] * (p + qty) = Cost(s) + (cash - cash')
      BY <2>1, <3>1 DEF WholeAverages
    <3>3. Cost(s)' = Cost(s) + qty * price
      <4>1. cash - cash' = qty * price
        BY <1>1, <1>6, <2>2
      <4>2. QED BY <1>5, <2>1, <3>1, <3>2, <4>1
    <3>4. Realized(s, side, qty, price) = 0 /\ ShortPart(s, side, qty) = 0
      BY <1>1, <1>8, <2>4, <3>1 DEF Realized, ShortPart
    <3>5. pnl' = pnl /\ shortCash' = shortCash
      <4>1. 0 * price = 0
        OBVIOUS
      <4>2. Signed(side, ShortPart(s, side, qty)) = 0
        BY <1>8, <3>4 DEF Signed
      <4>3. QED BY <1>1, <1>2, <3>4, <4>1, <4>2
    <3>6. Cost(s) \in Int /\ Cost(s)' \in Int
      BY <1>5, <1>6, <3>3
    <3>7. pnl' - pnl = (cash' - cash) + (Cost(s)' - Cost(s)) - (shortCash' - shortCash)
      BY <1>1, <1>6, <2>2, <3>3, <3>5, <3>6
    <3>8. QED BY <1>2, <1>4, <3>6, <3>7
  <2>5. QED BY <2>3, <2>4
<1>9. QED BY <1>7, <1>8 DEF Side

\* The account when the costs of one symbol change.
LEMMA Balance ==
    ASSUME NEW p \in Int, NEW q \in Int, NEW c \in Int, NEW d \in Int, NEW h \in Int, NEW k \in Int,
           NEW x \in Int, NEW y \in Int, NEW other \in Int,
           p = c + (x + other) - h, q - p = (d - c) + (y - x) - (k - h)
    PROVE  q = d + (y + other) - k
OBVIOUS

\* A step keeps the account.
LEMMA PnlStep == SmTyped /\ SmTyped' /\ PnlOmitsShorts /\ [SmNext]_smVars /\ WholeAverages => PnlOmitsShorts'
<1> SUFFICES ASSUME SmTyped, SmTyped', PnlOmitsShorts, [SmNext]_smVars, WholeAverages, ~flipped'
             PROVE  pnl' = cash' + Inventory' - shortCash'
  BY DEF PnlOmitsShorts
<1>1. CASE UNCHANGED <<position, avg, pnl, cash, shortCash, flipped>>
  BY <1>1 DEF PnlOmitsShorts, Inventory, Cost
<1>2. ASSUME NEW s \in Symbols, NEW side \in Side, NEW qty \in Nat \ {0}, NEW price \in Int,
             OnFill(s, side, qty, price), process' = process
      PROVE  pnl' = cash' + Inventory' - shortCash'
  <2>1. /\ ~flipped
        /\ pnl' - pnl = (cash' - cash) + (Cost(s)' - Cost(s)) - (shortCash' - shortCash)
        /\ \A t \in Symbols : t # s => Cost(t)' = Cost(t)
        /\ Cost(s)' \in Int
    BY <1>2, FillBooks
  <2>2. \A t \in Symbols : Cost(t) \in Int
    <3> SUFFICES ASSUME NEW t \in Symbols PROVE Cost(t) \in Int
      OBVIOUS
    <3>1. avg[t] \in Int /\ Larger(position[t], 0) \in Int
      BY DEF SmTyped, BookedTyped, Ledger, Larger
    <3>2. QED BY <3>1, Products DEF Cost
  <2>3. pnl = cash + (Cost("DORM") + Cost("UNDY")) - shortCash
    BY <2>1 DEF PnlOmitsShorts, Inventory
  <2>4. /\ pnl \in Int /\ pnl' \in Int /\ cash \in Int /\ cash' \in Int
        /\ shortCash \in Int /\ shortCash' \in Int
    BY DEF SmTyped, BookedTyped
  <2>5. CASE s = "DORM"
    <3>1. Cost("UNDY")' = Cost("UNDY") /\ Cost("DORM") \in Int /\ Cost("UNDY") \in Int
      BY <2>1, <2>2, <2>5 DEF Symbols
    <3>2. Inventory' = Cost("DORM")' + Cost("UNDY")
      BY <3>1 DEF Inventory
    <3>3. /\ Cost("DORM")' \in Int
          /\ pnl' - pnl = (cash' - cash) + (Cost("DORM")' - Cost("DORM")) - (shortCash' - shortCash)
      BY <2>1, <2>5
    <3>4. QED BY <2>3, <2>4, <3>1, <3>2, <3>3, Balance
  <2>6. CASE s = "UNDY"
    <3>1. Cost("DORM")' = Cost("DORM") /\ Cost("DORM") \in Int /\ Cost("UNDY") \in Int
      BY <2>1, <2>2, <2>6 DEF Symbols
    <3>2. Inventory' = Cost("DORM") + Cost("UNDY")'
      BY <3>1 DEF Inventory
    <3>3. /\ Cost("UNDY")' \in Int
          /\ pnl' - pnl = (cash' - cash) + (Cost("UNDY")' - Cost("UNDY")) - (shortCash' - shortCash)
      BY <2>1, <2>6
    <3>4. pnl = cash + (Cost("UNDY") + Cost("DORM")) - shortCash
      BY <2>3, <3>1
    <3>5. pnl' = cash' + (Cost("UNDY")' + Cost("DORM")) - shortCash'
      BY <2>4, <3>1, <3>3, <3>4, Balance
    <3>6. QED BY <3>1, <3>2, <3>3, <3>5
  <2>7. QED BY <2>5, <2>6 DEF Symbols
<1>3. ASSUME NEW s \in Symbols, NEW side \in Side, NEW qty \in Qty, NEW price \in Price,
             ReadFill(s, side, qty, price)
      PROVE  pnl' = cash' + Inventory' - shortCash'
  <2>1. qty \in Nat \ {0} /\ price \in Int
    BY QtyAssumption
  <2>2. OnFill(s, side, qty, price) /\ process' = process
    BY <1>3 DEF ReadFill, saving
  <2>3. QED BY <1>2, <2>1, <2>2
<1>4. ASSUME NEW s \in Symbols, BookLeg(s) PROVE pnl' = cash' + Inventory' - shortCash'
  <2>1. legs[s] \in Int /\ legs[s] # 0
    BY <1>4 DEF SmTyped, Ledger, BookLeg
  <2>2. PICK side \in Side : side = IF legs[s] > 0 THEN "BUY" ELSE "SELL"
    BY DEF Side
  <2>3. Signed(side, legs[s]) \in Nat \ {0}
    BY <2>1, <2>2 DEF Signed
  <2>4. PICK price \in LegPrices(s, side) : OnFill(s, side, Signed(side, legs[s]), price)
    BY <1>4, <2>2 DEF BookLeg
  <2>5. price \in Int
    BY QtyAssumption DEF LegPrices
  <2>6. process' = process
    BY <1>4 DEF BookLeg, saving
  <2>7. QED BY <1>2, <2>3, <2>4, <2>5, <2>6
<1>5. CASE NextProcess
  <2>1. avg' = Zero /\ pnl' = 0 /\ cash' = 0 /\ shortCash' = 0
    BY <1>5 DEF NextProcess
  <2>2. \A t \in Symbols : Cost(t)' = 0
    <3> SUFFICES ASSUME NEW t \in Symbols PROVE Cost(t)' = 0
      OBVIOUS
    <3>1. avg'[t] = 0 /\ Larger(position'[t], 0) \in Int
      BY <2>1 DEF Zero, SmTyped, Ledger, Larger
    <3>2. QED BY <3>1 DEF Cost
  <2>3. Inventory' = 0
    BY <2>2 DEF Inventory, Symbols
  <2>4. QED BY <2>1, <2>3
<1>6. CASE \/ OnMessage \/ ResetBook \/ StoreNext \/ ReadNext \/ Interrupt \/ SaveNext \/ CloseFile
           \/ \E qty \in Qty : Convert(qty) \/ Convert(-qty)
           \/ \E s \in Symbols, side \in Side, qty \in Qty : Trade(s, side, qty)
           \/ UNCHANGED smVars
  <2>1. UNCHANGED <<position, avg, pnl, cash, shortCash, flipped>>
    BY <1>6 DEF OnMessage, ResetBook, UpdateBook, StoreNext, ReadNext, Interrupt, SaveNext, CloseFile, Convert, Trade,
                smVars, booked
  <2>2. QED BY <1>1, <2>1
<1>7. QED BY <1>3, <1>4, <1>5, <1>6 DEF SmNext, Exit, Crash

\* As long as no average is rounded and no buy takes a short to a long, total_pnl_ is
\* what was booked and what the inventory cost, less all that was earned or lost short.
THEOREM PnlIsOfLongTrades == SmSpec /\ [][WholeAverages]_smVars => []PnlOmitsShorts
<1>1. SmInit => PnlOmitsShorts
  <2> SUFFICES ASSUME SmInit PROVE PnlOmitsShorts
    OBVIOUS
  <2>1. \A t \in Symbols : Cost(t) = 0
    BY DEF SmInit, Cost, Zero, Larger
  <2>2. Inventory = 0
    BY <2>1 DEF Inventory, Symbols
  <2>3. QED BY <2>2 DEF SmInit, PnlOmitsShorts
<1>2. SmTyped /\ SmTyped' /\ PnlOmitsShorts /\ [SmNext]_smVars /\ [WholeAverages]_smVars => PnlOmitsShorts'
  <2> SUFFICES ASSUME SmTyped, SmTyped', PnlOmitsShorts, [SmNext]_smVars, [WholeAverages]_smVars
               PROVE  PnlOmitsShorts'
    OBVIOUS
  <2>1. CASE WholeAverages
    BY <2>1, PnlStep
  <2>2. CASE UNCHANGED smVars
    BY <2>2 DEF smVars, booked, PnlOmitsShorts, Inventory, Cost
  <2>3. QED BY <2>1, <2>2
<1>3. QED BY <1>1, <1>2, SmInvariance, PTL DEF SmSpec
=============================================================================
