----------------------------- MODULE RateWindow ----------------------------
(***************************************************************************)
(* The per-second order limit of RiskManager, with the time that           *)
(* RiskManager.tla leaves open.  A second is Window ticks of the steady    *)
(* clock.  refresh_rate_window restarts the window only when a request     *)
(* finds it over, so windows start at requests, not on a fixed grid.       *)
(***************************************************************************)
EXTENDS Naturals, Functions

CONSTANTS Window, MaxOrdersPerSecond

ASSUME WindowAssumption == Window \in Nat \ {0} /\ MaxOrdersPerSecond \in Nat

VARIABLES
    age,      \* ticks since second_window_start_; Window stands for any more
    count,    \* orders_this_second_
    sent      \* history: sent[k] requests went out k ticks ago

vars == <<age, count, sent>>

Init ==
    /\ age = 0
    /\ count = 0
    /\ sent = [k \in 0 .. Window - 1 |-> 0]

Tick ==
    /\ age' = IF age < Window THEN age + 1 ELSE Window
    /\ sent' = [k \in 0 .. Window - 1 |-> IF k = 0 THEN 0 ELSE sent[k - 1]]
    /\ UNCHANGED count

\* Mutant: elapsed is compared in the wrong unit
RefreshRateWindowTooSoon ==
    IF age >= 1 THEN [age |-> 0, count |-> 0] ELSE [age |-> age, count |-> count]

RefreshRateWindow ==
    IF age >= Window
    THEN [age |-> 0, count |-> 0]
    ELSE [age |-> age, count |-> count]

\* A new order or a modify that every other check lets through
Request ==
    LET now == RefreshRateWindow
    IN  /\ age' = now.age
        /\ IF now.count < MaxOrdersPerSecond
           THEN /\ count' = now.count + 1
                /\ sent' = [sent EXCEPT ![0] = @ + 1]
           ELSE /\ count' = now.count
                /\ UNCHANGED sent

\* One that check_new_order or check_modify_order blocks after the refresh
BlockedRequest ==
    LET now == RefreshRateWindow
    IN  /\ age' = now.age
        /\ count' = now.count
        /\ UNCHANGED sent

Next == Tick \/ Request \/ BlockedRequest

Spec == Init /\ [][Next]_vars

-----------------------------------------------------------------------------
(* Properties *)

\* Requests of the last second
LastSecond == SumFunction(sent)

\* Over any second, wherever it starts, at most two windows' worth of requests
\* goes out: a second can touch the end of one window and the start of the next,
\* never three.
AtMostTwoWindows == LastSecond <= 2 * MaxOrdersPerSecond
=============================================================================
