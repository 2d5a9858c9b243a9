------------------------------ MODULE Trading ------------------------------
(***************************************************************************)
(* The trader (src/src/main.rs:371-394, src/src/trader/trading_strategy.rs,*)
(* position_manager.rs, broker_client.rs) and the broker it trades with.   *)
(*                                                                         *)
(* At every tick the trader goes through the symbols one after the other.  *)
(* For each it asks the broker for its positions, for its balance, for its *)
(* positions again, and at last submits an order: four calls between which *)
(* the broker's account may change, any of which may fail, and at any of   *)
(* which a restart of the services may abort the trader.  Nobody waits for *)
(* a request that is on the wire: the connection may break and the order   *)
(* be executed later, and the next trader begins whatever the aborted one  *)
(* has left behind.  An order that an aborted trader still sends on its    *)
(* way to the next await is one it has sent before.                        *)
(*                                                                         *)
(* A trader that reads a position while an order for it is on its way does *)
(* not see what it is about to hold.  Two history variables keep when that *)
(* was so; no step of the program depends on them.                         *)
(*                                                                         *)
(* The depot executes an order before it answers; alpaca accepts it and    *)
(* fills it later.  Which signal the strategies arrive at and which price  *)
(* the buffer holds are open.  Money and prices are integers: what the     *)
(* code computes in floating point is exact here.                          *)
(***************************************************************************)
EXTENDS Integers, Sequences, FiniteSets, FiniteSetsExt

CONSTANTS
  SymbolList,    \* settings.symbols, in order
  Prices,        \* prices a buffer may hold
  Broker,        \* "depot" or "alpaca"
  Cash,          \* what the account starts with
  MaxPosition,   \* max_position_size_pct, max_total_exposure_pct,
  MaxTotal,      \* max_short_position_pct and max_short_exposure_pct,
  MaxShort,      \* in percent
  MaxShortTotal,
  MaxInt,        \* i32::MAX, at which `as i32` saturates
  MaxOrders,     \* bound: orders submitted when a tick begins
  MaxAborts      \* bound: restarts that abort the trader

ASSUME SymbolsAssumption == SymbolList \in Seq(STRING)
ASSUME PricesAssumption == Prices \subseteq Nat \ {0}
ASSUME BrokerAssumption == Broker \in {"depot", "alpaca"}
ASSUME LimitsAssumption ==
  /\ Cash \in Int
  /\ MaxPosition \in Nat /\ MaxTotal \in Nat
  /\ MaxShort \in Nat /\ MaxShortTotal \in Nat
  /\ MaxInt \in Nat \ {0}
  /\ MaxOrders \in Nat /\ MaxAborts \in Nat

Symbols == {SymbolList[i] : i \in DOMAIN SymbolList}

VARIABLES
  pc,         \* where the trader stands
  next,       \* the symbol it works on
  plan,       \* what it has read for that symbol
  reply,      \* the broker's answer to its order
  cash,       \* the account: cash,
  shares,     \*   shares of each symbol, negative when short,
  quote,      \*   price per share the broker reports,
  listed,     \*   symbols in its list of positions
  wire,       \* requests on their way to the broker
  orders,     \* orders accepted and not yet filled (alpaca)
  submitted,  \* orders sent so far, the number of the last one
  executed,   \* orders the broker has taken on
  notices,    \* orders the user was notified of
  aborts,     \* restarts so far
  unsure,     \* history: symbols last read while an order for them was pending
  blind       \* history: the last read was made while any order was pending

trader == <<pc, next, plan, reply>>
account == <<cash, shares, quote, listed>>
record == <<submitted, executed, notices, aborts>>
history == <<unsure, blind>>
vars == <<trader, account, wire, orders, record, history>>

Blank == [signal |-> "hold", price |-> 0, balance |-> 0]

Symbol == SymbolList[next]

Signals == {"buy", "sell", "hold"}

Least(a, b) == IF a <= b THEN a ELSE b

Abs(n) == IF n < 0 THEN -n ELSE n

----------------------------------------------------------------------------
(* The size of a new position.                                             *)

Longs == {s \in listed : shares[s] >= 0}
Shorts == {s \in listed : shares[s] < 0}

Value(s) == Abs(shares[s]) * quote[s]

Exposure(positions) == MapThenSumSet(Value, positions)

\* What the account is worth: a position sold short is owed.
Portfolio == cash + Exposure(Longs) - Exposure(Shorts)

\* Mutated form of Size: what is already invested is not subtracted.
SizeOfBalance(balance, exposure, total, single, price) ==
  LET available == balance * total
  IN  IF available <= 0
        THEN 0
        ELSE Least(available, balance * single) \div (100 * price)

\* calculate_position_size and calculate_short_position_size, in percent.
Size(balance, exposure, total, single, price) ==
  LET available == balance * total - 100 * exposure
  IN  IF available <= 0
        THEN 0
        ELSE Least(available, balance * single) \div (100 * price)

----------------------------------------------------------------------------
(* The trader.                                                             *)

\* On to the next symbol, or to the next tick.
Advance ==
  /\ IF next < Len(SymbolList)
       THEN next' = next + 1 /\ pc' = "evaluate"
       ELSE next' = 1 /\ pc' = "idle"
  /\ plan' = Blank
  /\ reply' = "none"

Tick ==
  /\ pc = "idle"
  /\ SymbolList # <<>>
  /\ submitted < MaxOrders
  /\ pc' = "evaluate"
  /\ UNCHANGED <<next, plan, reply, account, wire, orders, record, history>>

\* The strategies are evaluated; without a price nothing is asked or done.
Evaluate ==
  /\ pc = "evaluate"
  /\ \/ /\ \E signal \in Signals, price \in Prices :
             plan' = [Blank EXCEPT !.signal = signal, !.price = price]
        /\ pc' = "position"
        /\ UNCHANGED <<next, reply>>
     \/ Advance
  /\ UNCHANGED <<account, wire, orders, record, history>>

\* `quantity as i32` saturates; alpaca gets the quantity as it is.
CountUnchecked(quantity) == quantity

Count(quantity) ==
  IF Broker = "depot" THEN Least(quantity, MaxInt) ELSE quantity

\* A depot tells shorting from selling, and covering from buying, by the sign.
Submit(kind, quantity) ==
  LET side  == IF kind \in {"buy", "cover"} THEN "buy" ELSE "sell"
      count == IF Broker = "depot" /\ kind \in {"short", "cover"}
                 THEN -Count(quantity)
                 ELSE Count(quantity)
  IN  /\ quantity \in Nat \ {0}
      /\ submitted' = submitted + 1
      /\ wire' = wire \union
           {[id |-> submitted', side |-> side, symbol |-> Symbol,
             count |-> count, price |-> plan.price]}
      /\ pc' = "await"
      /\ UNCHANGED <<next, plan, reply, account, orders, executed, notices,
                     aborts>>

\* Nothing to do for this symbol.
Skip ==
  /\ Advance
  /\ UNCHANGED <<account, wire, orders, record>>

AskBalance ==
  /\ pc' = "balance"
  /\ UNCHANGED <<next, plan, reply, account, wire, orders, record>>

HoldsLong == Symbol \in Longs
HoldsShort == Symbol \in Shorts
HoldsNothing == Symbol \notin listed

\* History: what the trader cannot see as it reads the position of Symbol.
LookAtPosition ==
  LET pending == wire \union orders
  IN  /\ unsure' = IF \E r \in pending : r.symbol = Symbol
                     THEN unsure \union {Symbol}
                     ELSE unsure \ {Symbol}
      /\ blind' = (pending # {})

\* Mutated form of OnPosition: a long position is added to.
OnPositionPyramid ==
  /\ pc = "position"
  /\ LookAtPosition
  /\ \/ plan.signal = "buy" /\ HoldsShort /\ Submit("cover", -shares[Symbol])
     \/ plan.signal = "buy" /\ ~HoldsShort /\ AskBalance
     \/ plan.signal = "sell" /\ HoldsLong /\ Submit("sell", shares[Symbol])
     \/ plan.signal = "sell" /\ HoldsLong /\ shares[Symbol] <= 0 /\ Skip
     \/ plan.signal = "sell" /\ HoldsShort /\ Skip
     \/ plan.signal = "sell" /\ HoldsNothing /\ AskBalance
     \/ plan.signal = "hold" /\ Skip

\* The broker answers with its positions, which decide what is done.  A listed
\* position of no shares counts as long: it is held, and cannot be sold.
OnPosition ==
  /\ pc = "position"
  /\ LookAtPosition
  /\ \/ plan.signal = "buy" /\ HoldsShort /\ Submit("cover", -shares[Symbol])
     \/ plan.signal = "buy" /\ HoldsLong /\ Skip
     \/ plan.signal = "buy" /\ HoldsNothing /\ AskBalance
     \/ plan.signal = "sell" /\ HoldsLong /\ Submit("sell", shares[Symbol])
     \/ plan.signal = "sell" /\ HoldsLong /\ shares[Symbol] <= 0 /\ Skip
     \/ plan.signal = "sell" /\ HoldsShort /\ Skip
     \/ plan.signal = "sell" /\ HoldsNothing /\ AskBalance
     \/ plan.signal = "hold" /\ Skip

OnBalance ==
  /\ pc = "balance"
  /\ plan' = [plan EXCEPT !.balance = cash]
  /\ pc' = "positions"
  /\ UNCHANGED <<next, reply, account, wire, orders, record, history>>

OnPositions ==
  /\ pc = "positions"
  /\ UNCHANGED history
  /\ LET long == Size(plan.balance, Exposure(Longs), MaxTotal, MaxPosition,
                      plan.price)
         short == Size(plan.balance, Exposure(Shorts), MaxShortTotal, MaxShort,
                       plan.price)
     IN  \/ plan.signal = "buy" /\ Submit("buy", long)
         \/ plan.signal = "buy" /\ long <= 0 /\ Skip
         \/ plan.signal = "sell" /\ Submit("short", short)
         \/ plan.signal = "sell" /\ short <= 0 /\ Skip

\* Mutated form of ReadFails: the error ends the tick, and the symbols that are
\* left are not looked at.
ReadFailsTick ==
  /\ pc \in {"position", "balance", "positions"}
  /\ pc' = "idle"
  /\ next' = 1
  /\ plan' = Blank
  /\ UNCHANGED <<reply, account, wire, orders, record, history>>

\* A call fails: the error ends the evaluation of this symbol.
ReadFails ==
  /\ pc \in {"position", "balance", "positions"}
  /\ Skip
  /\ UNCHANGED history

\* Mutated form of OnReply: the depot's success flag is not looked at.
OnReplyUnchecked ==
  /\ pc = "await"
  /\ reply # "none"
  /\ notices' = IF reply = "broken" THEN notices
                                    ELSE notices \union {submitted}
  /\ Advance
  /\ UNCHANGED <<account, wire, orders, submitted, executed, aborts, history>>

\* The depot's refusal is an error; alpaca's HTTP status is not looked at.
OnReply ==
  /\ pc = "await"
  /\ reply # "none"
  /\ notices' = IF reply = "accepted" \/ (reply = "refused" /\ Broker = "alpaca")
                  THEN notices \union {submitted}
                  ELSE notices
  /\ Advance
  /\ UNCHANGED <<account, wire, orders, submitted, executed, aborts, history>>

----------------------------------------------------------------------------
(* Restarts of the services.                                               *)

Abort ==
  /\ pc # "down"
  /\ aborts < MaxAborts
  /\ aborts' = aborts + 1
  /\ pc' = "down"
  /\ next' = 1
  /\ plan' = Blank
  /\ reply' = "none"
  /\ UNCHANGED <<account, wire, orders, submitted, executed, notices, history>>

\* The trader of the next pass, whatever requests are still on the wire.
Start ==
  /\ pc = "down"
  /\ pc' = "idle"
  /\ UNCHANGED <<next, plan, reply, account, wire, orders, record, history>>

----------------------------------------------------------------------------
(* The broker.                                                             *)

\* The answer reaches the trader only while it waits for this one; it may get
\* lost even when the order was executed.
Answer(r, answer) ==
  IF pc = "await" /\ reply = "none" /\ r.id = submitted
    THEN reply' = answer \/ reply' = "broken"
    ELSE UNCHANGED reply

\* Shares and money change hands.  A closed position may stay in the list of
\* the depot, with no shares.
Trade(r, price) ==
  LET change == IF r.side = "buy" THEN Abs(r.count) ELSE -Abs(r.count)
      after  == shares[r.symbol] + change
  IN  /\ shares' = [shares EXCEPT ![r.symbol] = after]
      /\ cash' = cash - change * price
      /\ quote' = [quote EXCEPT ![r.symbol] = price]
      /\ \/ /\ after # 0 \/ Broker = "depot"
            /\ listed' = listed \union {r.symbol}
         \/ /\ after = 0
            /\ listed' = listed \ {r.symbol}

Execute(r) ==
  /\ Broker = "depot"
  /\ Trade(r, r.price)
  /\ wire' = wire \ {r}
  /\ executed' = executed \union {r.id}
  /\ Answer(r, "accepted")
  /\ UNCHANGED <<pc, next, plan, orders, submitted, notices, aborts, history>>

Accept(r) ==
  /\ Broker = "alpaca"
  /\ orders' = orders \union {r}
  /\ wire' = wire \ {r}
  /\ executed' = executed \union {r.id}
  /\ Answer(r, "accepted")
  /\ UNCHANGED <<pc, next, plan, account, submitted, notices, aborts, history>>

\* The broker turns the order down, or never receives it.
Refuse(r) ==
  /\ wire' = wire \ {r}
  /\ Answer(r, "refused")
  /\ UNCHANGED <<pc, next, plan, account, orders, submitted, executed, notices,
                 aborts, history>>

\* The connection breaks while the request is still on its way: the caller gets
\* an error, and the order may be executed later.
Break ==
  /\ pc = "await"
  /\ reply = "none"
  /\ reply' = "broken"
  /\ UNCHANGED <<pc, next, plan, account, wire, orders, record, history>>

Fill(r) ==
  /\ \E price \in Prices : Trade(r, price)
  /\ orders' = orders \ {r}
  /\ UNCHANGED <<trader, wire, record, history>>

----------------------------------------------------------------------------
Init ==
  /\ pc = "idle"
  /\ next = 1
  /\ plan = Blank
  /\ reply = "none"
  /\ cash = Cash
  /\ shares = [s \in Symbols |-> 0]
  /\ quote = [s \in Symbols |-> 0]
  /\ listed = {}
  /\ wire = {}
  /\ orders = {}
  /\ submitted = 0
  /\ executed = {}
  /\ notices = {}
  /\ aborts = 0
  /\ unsure = {}
  /\ blind = FALSE

TraderStep ==
  \/ Evaluate
  \/ OnPosition
  \/ OnBalance
  \/ OnPositions
  \/ ReadFails
  \/ OnReply

BrokerStep == \E r \in wire : Execute(r) \/ Accept(r) \/ Refuse(r)

Next ==
  \/ Tick
  \/ TraderStep
  \/ BrokerStep
  \/ Break
  \/ \E r \in orders : Fill(r)
  \/ Abort
  \/ Start

Spec == Init /\ [][Next]_vars

\* The trader deals with an answer that is there.  That there is one is up to
\* the broker: no call has a timeout.
Fairness == WF_vars(OnReply)

FairSpec == Spec /\ Fairness

----------------------------------------------------------------------------
(* What the trader promises.                                               *)

Request ==
  [id : Nat, side : {"buy", "sell"}, symbol : Symbols,
   count : (-MaxInt..MaxInt) \ {0}, price : Prices]

\* Type invariant: every variable stays in its range; what goes to a depot
\* fits its i32 fields (broker_client.rs:111, 141, 172, 201).
TypeOK ==
  /\ pc \in {"idle", "evaluate", "position", "balance", "positions", "await",
             "down"}
  /\ next \in 1..(Len(SymbolList) + 1)
  /\ plan \in [signal : Signals, price : Prices \union {0}, balance : Int]
  /\ reply \in {"none", "accepted", "refused", "broken"}
  /\ cash \in Int
  /\ shares \in [Symbols -> Int]
  /\ quote \in [Symbols -> Prices \union {0}]
  /\ listed \subseteq Symbols
  /\ Broker = "depot" => wire \subseteq Request
  /\ submitted \in 0..(MaxOrders + Len(SymbolList))
  /\ executed \subseteq 1..submitted
  /\ notices \subseteq 1..submitted
  /\ unsure \subseteq Symbols
  /\ blind \in BOOLEAN

\* An order that opens a position, as the depot reads its side and its sign.
Opens(r) == (r.side = "buy") = (r.count > 0)

Held == INSTANCE Holdings

\* As much of a position as one order can close.
Carried(n) == Held!Carried(n)

\* An order on its way to the depot fits the account it will meet: it opens a
\* position where there is none, or closes the whole of the one there is, or as
\* much of it as fits an i32 (trading_strategy.rs:257-372), although the
\* position was read up to three calls earlier.  Only if an order is still on
\* its way when the trader looks again, after a broken connection
\* (broker_client.rs:116) or a restart (main.rs:420-425), may the next one not
\* fit; when the position of the symbol is read with none on its way, its
\* orders fit again.
OrdersFitHoldings ==
  \A r \in wire :
    r.symbol \notin unsure =>
      IF Opens(r)
        THEN shares[r.symbol] = 0
        ELSE shares[r.symbol] # 0 /\ r.count = Carried(shares[r.symbol])

Worth(r) == Abs(r.count) * r.price

\* An order that opens a position respects the limits of the account it will
\* meet, unless it was decided on while another was on its way: "max % of cash
\* that can be invested in longs", and "max % of portfolio" of one long and of
\* one short position and of all short ones, as long as no other short position
\* raises the cash (position_manager.rs:8-11).  In between lie four calls, and
\* orders that fail, break off or outlive a restart.
OrdersWithinLimits ==
  ~blind => \A r \in wire :
    Opens(r) =>
      /\ r.side = "buy" =>
           100 * (Exposure(Longs) + Worth(r)) <= cash * MaxTotal
      /\ r.side = "buy" /\ Shorts = {} =>
           100 * Worth(r) <= Portfolio * MaxPosition
      /\ r.side = "sell" /\ Shorts = {} =>
           /\ 100 * Worth(r) <= Portfolio * MaxShort
           /\ 100 * Worth(r) <= Portfolio * MaxShortTotal

\* "Max % of portfolio in short positions" (position_manager.rs:11,
\* config/default.toml:42), for the second short position as for the first.
ShortsWithinPortfolio ==
  ~blind => \A r \in wire :
    Opens(r) /\ r.side = "sell" =>
      100 * (Exposure(Shorts) + Worth(r)) <= Portfolio * MaxShortTotal

\* What the trader opens and closes is what Holdings promises of a holder who
\* may lose sight of an order (trading_strategy.rs:249-377).
ImplementsHoldings == Held!Spec

\* "Buy executed" (position_manager.rs:82), and the notification that follows:
\* the user is told of an order only when the broker has taken it on.
NotifiedWasExecuted == notices \subseteq executed

\* No call is kept waiting for ever: the indicator service and the broker answer
\* it, or the connection breaks.
CallsReturn ==
  /\ WF_vars(Evaluate)
  /\ WF_vars(OnPosition \/ OnBalance \/ OnPositions \/ ReadFails)
  /\ WF_vars(BrokerStep \/ Break)

Turn(i) == pc = "evaluate" /\ next = i

\* Every symbol has its turn at every tick, whatever fails for the symbols
\* before it (main.rs:382-392): an error ends the evaluation of one symbol, not
\* the tick, and no failure is tried again in place.
EveryTurnComes ==
  CallsReturn => \A i \in DOMAIN SymbolList : Turn(1) ~> Turn(i) \/ pc = "down"

\* "Max % of cash that can be invested in longs" (position_manager.rs:9,
\* config/default.toml:40): an order that opens or adds to a long position
\* leaves no more invested than the share of the cash it was paid from.
LongsWithinCash ==
  [][\A s \in Symbols :
       shares'[s] > shares[s] /\ shares'[s] > 0 =>
         100 * Exposure(Longs)' <= cash * MaxTotal]_vars

============================================================================
