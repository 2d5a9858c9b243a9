--------------------------- MODULE TradingProofs ---------------------------
(***************************************************************************)
(* Proofs about Trading, for every list of symbols, all prices and limits. *)
(*                                                                         *)
(* That the trader implements Holdings on a depot is not inductive as it   *)
(* stands: an order changes the shares long after the position it was made *)
(* for was read.  The invariant carries the reading along, for the symbols *)
(* in sight: where the trader asks for its balance it holds nothing and has*)
(* nothing on its way, and an order on the wire is the only one for its    *)
(* symbol and fits the shares.                                             *)
(*                                                                         *)
(* The limits of an order speak of everything that is invested, a sum over *)
(* the listed positions; that it is a natural number is what FoldProofs is *)
(* for.  They hold because a trader that read while nothing was on its way *)
(* computes the size from an account that is still the same when the order *)
(* arrives, which the invariant says.                                      *)
(***************************************************************************)
EXTENDS Trading, FoldProofs

\* The trader's place in the list.
PlaceOK ==
  /\ pc \in {"idle", "evaluate", "position", "balance", "positions", "await",
             "down"}
  /\ next \in Nat
  /\ pc \in {"idle", "down"} => next = 1
  /\ pc \notin {"idle", "down"} => next \in DOMAIN SymbolList

LEMMA SymbolInSymbols ==
  ASSUME next \in DOMAIN SymbolList
  PROVE  Symbol \in Symbols
BY DEF Symbol, Symbols

LEMMA DivisionBound ==
  ASSUME NEW x \in Int, NEW d \in Nat \ {0}
  PROVE  x \div d \in Int /\ d * (x \div d) <= x
BY Z3

\* A position of the computed size respects both of its limits: its own, and
\* that of everything invested, for any balance and exposure.
THEOREM SizeWithinLimits ==
  ASSUME NEW balance \in Int, NEW exposure \in Int, NEW total \in Int,
         NEW single \in Int, NEW price \in Nat \ {0},
         NEW q \in Int, q <= Size(balance, exposure, total, single, price)
  PROVE  /\ q > 0 => 100 * (q * price) <= balance * single
         /\ q > 0 => 100 * (exposure + q * price) <= balance * total
<1> DEFINE available == balance * total - 100 * exposure
           least == Least(available, balance * single)
<1>1. CASE available <= 0
  BY <1>1 DEF Size
<1>2. CASE available > 0
  <2>1. available \in Int /\ balance * single \in Int
    OBVIOUS
  <2>2. least \in Int /\ least <= available /\ least <= balance * single
    BY <2>1 DEF Least
  <2> HIDE DEF least
  <2>3. 100 * price \in Nat \ {0}
    OBVIOUS
  <2>4. /\ least \div (100 * price) \in Int
        /\ (100 * price) * (least \div (100 * price)) <= least
    BY <2>2, <2>3, DivisionBound
  <2> DEFINE size == least \div (100 * price)
  <2>5. q <= size
    BY <1>2 DEF Size, least
  <2> HIDE DEF size
  <2>6. (100 * price) * q <= (100 * price) * size
    BY <2>3, <2>4, <2>5 DEF size
  <2>7. (100 * price) * q <= least
    BY <2>2, <2>4, <2>6 DEF size
  <2>8. (100 * price) * q = 100 * (q * price)
    OBVIOUS
  <2> QED
    BY <2>1, <2>2, <2>7, <2>8
<1> QED
  BY <1>1, <1>2

----------------------------------------------------------------------------
(* Types, with either broker.                                              *)

\* Orders that were sent: numbered, of a symbol of the list, at some price.
Order ==
  [id : 1..submitted, side : {"buy", "sell"}, symbol : Symbols, count : Int,
   price : Prices]

\* One order at most for each symbol of a tick.
Counted ==
  /\ pc \in {"evaluate", "position", "balance", "positions"} =>
       submitted < MaxOrders + next - 1
  /\ pc = "await" => submitted \in 1..(MaxOrders + next - 1)

Priced == pc \in {"position", "balance", "positions"} => plan.price \in Prices

TypeInv ==
  /\ TypeOK
  /\ PlaceOK
  /\ Priced
  /\ Counted
  /\ wire \union orders \subseteq Order

LEMMA InitType == Init => TypeInv
<1> SUFFICES ASSUME Init PROVE TypeInv
  OBVIOUS
<1>1. Len(SymbolList) \in Nat /\ MaxOrders \in Nat /\ Cash \in Int
  BY SymbolsAssumption, LimitsAssumption
<1>2. TypeOK
  <2>1. blind \in BOOLEAN /\ unsure \subseteq Symbols
    BY DEF Init
  <2> QED
    BY <1>1, <2>1 DEF Init, TypeOK, Blank, Signals
<1>3. PlaceOK /\ Priced /\ Counted
  BY DEF Init, PlaceOK, Priced, Counted
<1> QED
  BY <1>2, <1>3 DEF Init, TypeInv

\* What every step of the trader alone leaves as it is.
LEMMA AdvanceType ==
  ASSUME TypeInv, Advance, pc \notin {"idle", "down"},
         UNCHANGED <<account, wire, orders, submitted, executed>>,
         notices' \subseteq notices \union {submitted},
         notices' = notices \/ pc = "await",
         unsure' \subseteq Symbols, blind' \in BOOLEAN
  PROVE  TypeInv'
<1> USE DEF TypeInv
<1>1. /\ SymbolList \in Seq(STRING) /\ next \in 1..Len(SymbolList)
      /\ MaxOrders \in Nat /\ Len(SymbolList) \in Nat
  BY SymbolsAssumption, LimitsAssumption DEF PlaceOK
<1>2. PlaceOK' /\ Priced'
  BY <1>1 DEF Advance, PlaceOK, Priced
<1>3. submitted \in Nat /\ submitted < MaxOrders + next
  BY <1>1 DEF Counted, TypeOK, PlaceOK
<1>4. Counted'
  BY <1>1, <1>3 DEF Advance, Counted
<1>5. notices' \subseteq 1..submitted
  BY <1>1 DEF TypeOK, Counted
<1>6. TypeOK'
  BY <1>1, <1>5 DEF Advance, TypeOK, Blank, Signals, account, Request
<1>7. (wire \union orders \subseteq Order)'
  BY DEF Order
<1> QED
  BY <1>2, <1>4, <1>6, <1>7

LEMMA SkipType ==
  ASSUME TypeInv, Skip, pc \in {"position", "balance", "positions"},
         unsure' \subseteq Symbols, blind' \in BOOLEAN
  PROVE  TypeInv'
BY AdvanceType DEF Skip, record

LEMMA SubmitType ==
  ASSUME TypeInv, pc \in {"position", "positions"},
         NEW kind \in {"buy", "sell", "short", "cover"},
         NEW quantity, Submit(kind, quantity),
         unsure' \subseteq Symbols, blind' \in BOOLEAN
  PROVE  TypeInv'
<1> USE DEF TypeInv
<1> DEFINE side  == IF kind \in {"buy", "cover"} THEN "buy" ELSE "sell"
           count == IF Broker = "depot" /\ kind \in {"short", "cover"}
                      THEN -Count(quantity) ELSE Count(quantity)
           r     == [id |-> submitted + 1, side |-> side, symbol |-> Symbol,
                     count |-> count, price |-> plan.price]
<1>1. /\ quantity \in Nat \ {0} /\ MaxInt \in Nat \ {0} /\ MaxOrders \in Nat
      /\ submitted' = submitted + 1 /\ wire' = wire \union {r} /\ pc' = "await"
      /\ UNCHANGED <<next, plan, reply, orders, executed, notices>>
      /\ UNCHANGED <<cash, shares, quote, listed>>
  BY LimitsAssumption DEF Submit, account
<1>2. /\ next \in 1..Len(SymbolList) /\ Len(SymbolList) \in Nat
      /\ submitted \in Nat /\ submitted < MaxOrders + next - 1
  BY SymbolsAssumption DEF PlaceOK, Counted, TypeOK
<1>3. /\ count \in Int
      /\ Broker = "depot" => count \in (-MaxInt..MaxInt) \ {0}
  BY <1>1 DEF Count, Least
<1>4. Symbol \in Symbols /\ plan.price \in Prices
  BY SymbolInSymbols DEF PlaceOK, Priced
<1> HIDE DEF count, side
<1>5. side \in {"buy", "sell"}
  BY DEF side
<1>6. Broker = "depot" => r \in Request
  BY <1>2, <1>3, <1>4, <1>5 DEF Request
<1>7. r \in Order'
  BY <1>1, <1>2, <1>3, <1>4, <1>5 DEF Order
<1> HIDE DEF r
<1>8. Order \subseteq Order'
  BY <1>1, <1>2 DEF Order
<1>9. PlaceOK' /\ Priced' /\ Counted'
  BY <1>1, <1>2 DEF PlaceOK, Priced, Counted
<1>10. /\ 1..submitted \subseteq 1..submitted'
       /\ submitted' \in 0..(MaxOrders + Len(SymbolList))
  BY <1>1, <1>2
<1>11. TypeOK'
  BY <1>1, <1>6, <1>10 DEF TypeOK, Request
<1> QED
  BY <1>1, <1>7, <1>8, <1>9, <1>11

\* The account after an order of the invariant was filled.
LEMMA TradeType ==
  ASSUME TypeInv, NEW r \in Order, NEW price \in Prices, Trade(r, price)
  PROVE  /\ cash' \in Int /\ shares' \in [Symbols -> Int]
         /\ quote' \in [Symbols -> Prices \union {0}]
         /\ listed' \subseteq Symbols
<1>1. r.symbol \in Symbols /\ r.count \in Int /\ price \in Int
  BY PricesAssumption DEF Order
<1> DEFINE change == IF r.side = "buy" THEN Abs(r.count) ELSE -Abs(r.count)
<1>2. change \in Int
  BY <1>1 DEF Abs
<1>3. /\ cash' = cash - change * price
      /\ shares' = [shares EXCEPT ![r.symbol] = @ + change]
      /\ quote' = [quote EXCEPT ![r.symbol] = price]
      /\ listed' \in {listed \union {r.symbol}, listed \ {r.symbol}}
  BY DEF Trade
<1> HIDE DEF change
<1> QED
  BY <1>1, <1>2, <1>3 DEF TypeInv, TypeOK

\* Reading the position of a symbol of the list.
LEMMA SightType ==
  ASSUME TypeInv, pc = "position", LookAtPosition
  PROVE  unsure' \subseteq Symbols /\ blind' \in BOOLEAN
<1>1. Symbol \in Symbols /\ unsure \subseteq Symbols
  BY SymbolInSymbols DEF TypeInv, TypeOK, PlaceOK
<1>2. unsure' \in {unsure \union {Symbol}, unsure \ {Symbol}}
  BY DEF LookAtPosition
<1>3. blind' \in BOOLEAN
  BY DEF LookAtPosition
<1> QED
  BY <1>1, <1>2, <1>3

LEMMA NextType ==
  ASSUME TypeInv, [Next]_vars
  PROVE  TypeInv'
<1>0. /\ Len(SymbolList) \in Nat /\ SymbolList \in Seq(STRING)
      /\ MaxOrders \in Nat /\ MaxInt \in Nat \ {0} /\ submitted \in Nat
  BY SymbolsAssumption, LimitsAssumption DEF TypeInv, TypeOK
<1>4. unsure \subseteq Symbols /\ blind \in BOOLEAN
  BY DEF TypeInv, TypeOK
<1>1. CASE Tick
  <2>1. PlaceOK' /\ Priced' /\ Counted'
    BY <1>0, <1>1 DEF Tick, record, TypeInv, PlaceOK, Priced, Counted
  <2>2. TypeOK' /\ (wire \union orders \subseteq Order)'
    BY <1>1 DEF Tick, record, account, history, TypeInv, TypeOK, Order, Request
  <2> QED
    BY <2>1, <2>2 DEF TypeInv
<1>2. CASE Evaluate
  <2>1. CASE Advance
    BY <1>2, <1>4, <2>1, AdvanceType DEF Evaluate, record, history
  <2>2. CASE ~Advance
    <3>1. PICK signal \in Signals, price \in Prices :
            plan' = [signal |-> signal, price |-> price, balance |-> 0]
      BY <1>2, <2>2 DEF Evaluate, Blank
    <3>2. PlaceOK' /\ Counted' /\ Priced'
      BY <1>2, <2>2, <3>1
      DEF Evaluate, record, TypeInv, PlaceOK, Counted, Priced
    <3>3. plan' \in [signal : Signals, price : Prices \union {0}, balance : Int]
      BY <3>1
    <3>4. TypeOK'
      BY <1>2, <2>2, <3>3
      DEF Evaluate, record, account, history, TypeInv, TypeOK, Request
    <3>5. (wire \union orders \subseteq Order)'
      BY <1>2, <2>2 DEF Evaluate, record, TypeInv, Order
    <3> QED
      BY <3>2, <3>4, <3>5 DEF TypeInv
  <2> QED
    BY <2>1, <2>2
<1>3. CASE AskBalance /\ pc = "position" /\ LookAtPosition
  BY <1>3, SightType DEF AskBalance, record, account, TypeInv, TypeOK, PlaceOK, Counted,
              Priced, Order, Request
<1>5. CASE OnPosition
  <2>1. pc = "position" /\ unsure' \subseteq Symbols /\ blind' \in BOOLEAN
    BY <1>5, SightType DEF OnPosition
  <2>2. CASE Skip
    BY <2>1, <2>2, SkipType
  <2>3. ASSUME NEW kind \in {"sell", "cover"}, NEW quantity,
               Submit(kind, quantity)
        PROVE  TypeInv'
    BY <2>1, <2>3, SubmitType
  <2> QED
    BY <1>3, <1>5, <2>1, <2>2, <2>3 DEF OnPosition
<1>6. CASE OnBalance
  BY <1>6 DEF OnBalance, record, account, history, TypeInv, TypeOK, PlaceOK,
              Counted, Priced, Order, Request
<1>7. CASE OnPositions
  <2>1. pc = "positions" /\ unsure' \subseteq Symbols /\ blind' \in BOOLEAN
    BY <1>4, <1>7 DEF OnPositions, history
  <2>2. CASE Skip
    BY <2>1, <2>2, SkipType
  <2>3. ASSUME NEW kind \in {"buy", "short"}, NEW quantity,
               Submit(kind, quantity)
        PROVE  TypeInv'
    BY <2>1, <2>3, SubmitType
  <2> QED
    BY <1>7, <2>1, <2>2, <2>3 DEF OnPositions
<1>8. CASE ReadFails
  BY <1>4, <1>8, SkipType DEF ReadFails, history
<1>9. CASE OnReply
  BY <1>4, <1>9, AdvanceType DEF OnReply, history
<1>10. ASSUME NEW r \in wire, wire' = wire \ {r},
              NEW answer \in {"accepted", "refused"}, Answer(r, answer),
              UNCHANGED <<pc, next, plan, submitted, notices, history>>,
              orders' \subseteq orders \union {r},
              executed' \subseteq executed \union {r.id},
              UNCHANGED account \/ Trade(r, r.price)
       PROVE  TypeInv'
  <2>1. r \in Order
    BY <1>10 DEF TypeInv
  <2>2. r.id \in 1..submitted /\ r.price \in Prices
    BY <2>1 DEF Order
  <2>3. /\ cash' \in Int /\ shares' \in [Symbols -> Int]
        /\ quote' \in [Symbols -> Prices \union {0}]
        /\ listed' \subseteq Symbols
    BY <1>10, <2>1, <2>2, TradeType DEF account, TypeInv, TypeOK
  <2>4. reply' \in {"none", "accepted", "refused", "broken"}
    BY <1>10 DEF Answer, TypeInv, TypeOK
  <2>5. TypeOK'
    BY <1>10, <2>2, <2>3, <2>4 DEF TypeInv, TypeOK, Request, history
  <2>6. PlaceOK' /\ Counted' /\ Priced' /\ (wire \union orders \subseteq Order)'
    BY <1>10, <2>1 DEF TypeInv, PlaceOK, Counted, Priced, Order
  <2> QED
    BY <2>5, <2>6 DEF TypeInv
<1>11. CASE BrokerStep
  BY <1>10, <1>11 DEF BrokerStep, Execute, Accept, Refuse
<1>12. CASE Break
  BY <1>12 DEF Break, record, account, history, TypeInv, TypeOK, PlaceOK,
               Counted, Priced, Order, Request
<1>13. CASE \E r \in orders : Fill(r)
  <2>1. PICK r \in orders : Fill(r)
    BY <1>13
  <2>2. PICK price \in Prices : Trade(r, price)
    BY <2>1 DEF Fill
  <2>3. /\ cash' \in Int /\ shares' \in [Symbols -> Int]
        /\ quote' \in [Symbols -> Prices \union {0}]
        /\ listed' \subseteq Symbols
    BY <2>2, TradeType DEF TypeInv
  <2>4. TypeOK'
    BY <2>1, <2>3 DEF Fill, trader, record, history, TypeInv, TypeOK, Request
  <2>5. PlaceOK' /\ Counted' /\ Priced' /\ (wire \union orders \subseteq Order)'
    BY <2>1 DEF Fill, trader, record, TypeInv, PlaceOK, Counted, Priced, Order
  <2> QED
    BY <2>4, <2>5 DEF TypeInv
<1>14. CASE Abort
  BY <1>0, <1>14 DEF Abort, account, history, Blank, Signals, TypeInv, TypeOK,
               PlaceOK, Counted, Priced, Order, Request
<1>15. CASE Start
  BY <1>15 DEF Start, record, account, history, TypeInv, TypeOK, PlaceOK,
               Counted, Priced, Order, Request
<1>16. CASE UNCHANGED vars
  BY <1>16 DEF vars, trader, record, account, history, TypeInv, TypeOK,
               PlaceOK, Counted, Priced, Order, Request
<1> QED
  BY <1>1, <1>2, <1>5, <1>6, <1>7, <1>8, <1>9, <1>11, <1>12, <1>13, <1>14,
     <1>15, <1>16
  DEF Next, TraderStep

\* With either broker, however late it answers or fills: every variable stays in
\* its range, no order number is used twice, and what goes to a depot fits its
\* 32 bits.
THEOREM TradingTypeOK == Spec => []TypeOK
<1>1. TypeInv => TypeOK
  BY DEF TypeInv
<1> QED
  BY <1>1, InitType, NextType, PTL DEF Spec

----------------------------------------------------------------------------
(* What is on its way to a depot fits the account.                         *)

\* What is not listed is not held.
UnlistedOK == \A s \in Symbols \ listed : shares[s] = 0

\* An order for a symbol in sight is the only one for it.
WireOK ==
  /\ orders = {}
  /\ \A r, q \in wire :
       r.symbol = q.symbol /\ r.symbol \notin unsure => r = q

\* What was found out about a position in sight still holds.
KnowledgeOK ==
  pc \in {"balance", "positions"} /\ Symbol \notin unsure =>
    /\ shares[Symbol] = 0
    /\ \A r \in wire : r.symbol # Symbol

DepotInv ==
  /\ TypeInv
  /\ UnlistedOK /\ WireOK /\ KnowledgeOK
  /\ OrdersFitHoldings

\* The account, the wire and the sight stay as they are.
LEMMA SameWire ==
  ASSUME DepotInv, UNCHANGED <<account, wire, orders, unsure>>
  PROVE  UnlistedOK' /\ WireOK' /\ OrdersFitHoldings'
BY DEF DepotInv, UnlistedOK, WireOK, OrdersFitHoldings, Opens, account

\* Symbol, of which nothing is on its way, comes in sight; or it gets lost.
LEMMA SightOfWire ==
  ASSUME Broker = "depot", DepotInv, pc = "position", LookAtPosition
  PROVE  /\ Symbol \notin unsure' => \A r \in wire : r.symbol # Symbol
         /\ \A s \in Symbols \ {Symbol} : s \in unsure' <=> s \in unsure
BY DEF LookAtPosition, DepotInv, WireOK

\* An order is sent for what was found out.
LEMMA SubmitFits ==
  ASSUME Broker = "depot", DepotInv, pc \in {"position", "positions"},
         NEW kind \in {"buy", "sell", "short", "cover"},
         NEW quantity, Submit(kind, quantity),
         Symbol \notin unsure' => \A r \in wire : r.symbol # Symbol,
         \A s \in Symbols \ {Symbol} : s \in unsure' <=> s \in unsure,
         kind \in {"buy", "short"} /\ Symbol \notin unsure' =>
           shares[Symbol] = 0,
         kind = "sell" => shares[Symbol] = quantity,
         kind = "cover" => shares[Symbol] = -quantity
  PROVE  UnlistedOK' /\ WireOK' /\ KnowledgeOK' /\ OrdersFitHoldings'
<1>1. /\ Symbol \in Symbols /\ MaxInt \in Nat \ {0}
      /\ shares \in [Symbols -> Int]
  BY SymbolInSymbols, LimitsAssumption DEF DepotInv, TypeInv, TypeOK, PlaceOK
<1> DEFINE side  == IF kind \in {"buy", "cover"} THEN "buy" ELSE "sell"
           count == IF kind \in {"short", "cover"} THEN -Least(quantity, MaxInt)
                                                   ELSE Least(quantity, MaxInt)
           r     == [id |-> submitted + 1, side |-> side, symbol |-> Symbol,
                     count |-> count, price |-> plan.price]
<1>2. /\ quantity \in Nat \ {0}
      /\ wire' = wire \union {r}
      /\ pc' = "await"
      /\ UNCHANGED <<account, orders>>
  BY DEF Submit, Count
<1>3. count \in Int /\ count # 0
  BY <1>1, <1>2 DEF Least
<1>4. /\ Opens(r) <=> kind \in {"buy", "short"}
      /\ kind \in {"sell", "cover"} =>
           shares[Symbol] # 0 /\ count = Carried(shares[Symbol])
  <2>1. CASE kind = "buy"
    BY <1>1, <1>2, <2>1 DEF Opens, Least
  <2>2. CASE kind = "short"
    BY <1>1, <1>2, <2>2 DEF Opens, Least
  <2>3. CASE kind = "sell"
    BY <1>1, <1>2, <2>3 DEF Opens, Least, Carried, Held!Carried
  <2>4. CASE kind = "cover"
    BY <1>1, <1>2, <2>4 DEF Opens, Least, Carried, Held!Carried
  <2> QED
    BY <2>1, <2>2, <2>3, <2>4
<1>5. r.symbol = Symbol /\ r.count = count
  OBVIOUS
<1> HIDE DEF r, count
<1>6. \A q \in wire : q.symbol \in Symbols
  <2>1. wire \subseteq Order
    BY DEF DepotInv, TypeInv
  <2> QED
    BY <2>1 DEF Order
<1>7. OrdersFitHoldings'
  <2>1. ASSUME NEW q \in wire', q.symbol \notin unsure'
        PROVE  IF Opens(q)
                 THEN shares[q.symbol] = 0
                 ELSE shares[q.symbol] # 0 /\ q.count = Carried(shares[q.symbol])
    <3>1. CASE q = r
      BY <1>4, <1>5, <2>1, <3>1
    <3>2. CASE q \in wire
      BY <1>6, <2>1, <3>2 DEF DepotInv, OrdersFitHoldings
    <3> QED
      BY <1>2, <2>1, <3>1, <3>2
  <2>2. shares' = shares
    BY <1>2 DEF account
  <2> QED
    BY <2>1, <2>2 DEF OrdersFitHoldings, Opens
<1>8. WireOK'
  <2>1. ASSUME NEW p \in wire', NEW q \in wire', p.symbol = q.symbol,
               p.symbol \notin unsure'
        PROVE  p = q
    BY <1>2, <1>5, <1>6, <2>1 DEF DepotInv, WireOK
  <2> QED
    BY <1>2, <2>1 DEF DepotInv, WireOK
<1>9. UnlistedOK' /\ KnowledgeOK'
  BY <1>2 DEF account, DepotInv, UnlistedOK, KnowledgeOK
<1> QED
  BY <1>7, <1>8, <1>9

LEMMA PositionFits ==
  ASSUME Broker = "depot", DepotInv, OnPosition
  PROVE  UnlistedOK' /\ WireOK' /\ KnowledgeOK' /\ OrdersFitHoldings'
<1>1. /\ Symbol \in Symbols /\ shares[Symbol] \in Int /\ pc = "position"
      /\ LookAtPosition
  BY SymbolInSymbols DEF OnPosition, DepotInv, TypeInv, TypeOK, PlaceOK
<1>2. /\ Symbol \notin unsure' => \A r \in wire : r.symbol # Symbol
      /\ \A s \in Symbols \ {Symbol} : s \in unsure' <=> s \in unsure
  BY <1>1, SightOfWire
<1>3. CASE Submit("cover", -shares[Symbol])
  BY <1>1, <1>2, <1>3, SubmitFits
<1>4. CASE Submit("sell", shares[Symbol])
  BY <1>1, <1>2, <1>4, SubmitFits
<1>5. ASSUME UNCHANGED <<account, wire, orders>>
      PROVE  UnlistedOK' /\ WireOK' /\ OrdersFitHoldings'
  <2>1. ASSUME NEW r \in wire, r.symbol \notin unsure'
        PROVE  r.symbol \notin unsure
    <3>1. r \in Order
      BY DEF DepotInv, TypeInv
    <3>2. r.symbol \in Symbols
      BY <3>1 DEF Order
    <3> QED
      BY <1>2, <2>1, <3>2
  <2>2. UnlistedOK'
    BY <1>5 DEF account, DepotInv, UnlistedOK
  <2>3. WireOK'
    BY <1>5, <2>1 DEF DepotInv, WireOK
  <2>4. OrdersFitHoldings'
    BY <1>5, <2>1 DEF account, DepotInv, OrdersFitHoldings, Opens
  <2> QED
    BY <2>2, <2>3, <2>4
<1>6. CASE Skip
  BY <1>5, <1>6 DEF Skip, Advance, KnowledgeOK
<1>7. CASE HoldsNothing /\ AskBalance
  <2>1. UNCHANGED <<account, wire, orders>> /\ Symbol' = Symbol
    BY <1>7 DEF AskBalance, Symbol
  <2>2. shares'[Symbol] = 0
    BY <1>1, <1>7, <2>1 DEF HoldsNothing, account, DepotInv, UnlistedOK
  <2>3. KnowledgeOK'
    BY <1>2, <2>1, <2>2 DEF KnowledgeOK
  <2> QED
    BY <1>5, <2>1, <2>3
<1> QED
  BY <1>3, <1>4, <1>6, <1>7 DEF OnPosition

LEMMA PositionsFit ==
  ASSUME Broker = "depot", DepotInv, OnPositions
  PROVE  UnlistedOK' /\ WireOK' /\ KnowledgeOK' /\ OrdersFitHoldings'
<1> DEFINE long == Size(plan.balance, Exposure(Longs), MaxTotal, MaxPosition,
                        plan.price)
           short == Size(plan.balance, Exposure(Shorts), MaxShortTotal, MaxShort,
                         plan.price)
<1>1. /\ pc = "positions" /\ unsure' = unsure
      /\ Symbol \notin unsure' =>
           shares[Symbol] = 0 /\ \A r \in wire : r.symbol # Symbol
  BY DEF OnPositions, history, DepotInv, KnowledgeOK
<1>2. CASE Skip
  <2>1. UNCHANGED <<account, wire, orders, unsure>> /\ KnowledgeOK'
    BY <1>1, <1>2 DEF Skip, Advance, KnowledgeOK
  <2> QED
    BY <2>1, SameWire
<1>3. CASE Submit("buy", long)
  <2> HIDE DEF long
  <2> QED
    BY <1>1, <1>3, SubmitFits
<1>4. CASE Submit("short", short)
  <2> HIDE DEF short
  <2> QED
    BY <1>1, <1>4, SubmitFits
<1> QED
  BY <1>2, <1>3, <1>4 DEF OnPositions

\* What an order does to the shares of its symbol: it opens a position or
\* closes one when the symbol is in sight.
LEMMA TradeEffect ==
  ASSUME Broker = "depot", DepotInv, NEW r \in wire, NEW price, Trade(r, price)
  PROVE  \E n \in Int :
           /\ shares' = [shares EXCEPT ![r.symbol] = n]
           /\ listed' = listed \union {r.symbol}
              \/ (n = 0 /\ listed' = listed \ {r.symbol})
           /\ r.symbol \notin unsure =>
                IF shares[r.symbol] = 0
                  THEN n # 0
                  ELSE n = shares[r.symbol] - Carried(shares[r.symbol])
<1>1. /\ r.symbol \in Symbols /\ r.count \in Int /\ r.count # 0
      /\ r.side \in {"buy", "sell"} /\ MaxInt \in Nat \ {0}
      /\ shares[r.symbol] \in Int
  <2>1. r \in Request /\ shares \in [Symbols -> Int] /\ MaxInt \in Nat \ {0}
    BY LimitsAssumption DEF DepotInv, TypeInv, TypeOK
  <2>2. /\ r.symbol \in Symbols /\ r.count \in (-MaxInt..MaxInt) \ {0}
        /\ r.side \in {"buy", "sell"}
    BY <2>1 DEF Request
  <2> QED
    BY <2>1, <2>2
<1> DEFINE change == IF r.side = "buy" THEN Abs(r.count) ELSE -Abs(r.count)
           n == shares[r.symbol] + change
<1>2. change \in Int /\ change # 0
  BY <1>1 DEF Abs
<1>3. ~Opens(r) => change = -r.count
  BY <1>1 DEF Opens, Abs
<1>4. /\ shares' = [shares EXCEPT ![r.symbol] = n]
      /\ listed' = listed \union {r.symbol}
         \/ (n = 0 /\ listed' = listed \ {r.symbol})
  <2>1. shares' = [shares EXCEPT ![r.symbol] = n]
    BY DEF Trade
  <2>2. listed' = listed \union {r.symbol}
        \/ (n = 0 /\ listed' = listed \ {r.symbol})
    BY DEF Trade
  <2> QED
    BY <2>1, <2>2
<1>5. r.symbol \notin unsure =>
        IF Opens(r)
          THEN shares[r.symbol] = 0
          ELSE /\ shares[r.symbol] # 0
               /\ r.count = Carried(shares[r.symbol])
  BY DEF DepotInv, OrdersFitHoldings
<1> HIDE DEF change
<1>6. r.symbol \notin unsure =>
        IF shares[r.symbol] = 0
          THEN n # 0
          ELSE n = shares[r.symbol] - Carried(shares[r.symbol])
  BY <1>1, <1>2, <1>3, <1>5
<1>7. n \in Int
  BY <1>1, <1>2
<1> HIDE DEF n
<1> QED
  BY <1>4, <1>6, <1>7

\* An order that leaves the wire.
LEMMA AnsweredFits ==
  ASSUME DepotInv, NEW r \in wire, wire' = wire \ {r},
         UNCHANGED <<pc, next, orders, history>>,
         NEW n \in Int,
         \/ UNCHANGED <<shares, listed>>
         \/ /\ shares' = [shares EXCEPT ![r.symbol] = n]
            /\ listed' = listed \union {r.symbol}
               \/ (n = 0 /\ listed' = listed \ {r.symbol})
  PROVE  UnlistedOK' /\ WireOK' /\ KnowledgeOK' /\ OrdersFitHoldings'
<1>1. /\ shares \in [Symbols -> Int] /\ wire \subseteq Order
      /\ UNCHANGED <<unsure, Symbol>>
  BY DEF DepotInv, TypeInv, TypeOK, history, Symbol
<1>2. /\ \A q \in wire : q.symbol \in Symbols
      /\ \A s \in Symbols \ {r.symbol} : shares'[s] = shares[s]
      /\ \A s \in Symbols : s # r.symbol => (s \in listed' <=> s \in listed)
  BY <1>1 DEF Order
<1>3. UnlistedOK'
  <2>1. ASSUME NEW s \in Symbols \ listed' PROVE shares'[s] = 0
    BY <1>1, <1>2 DEF DepotInv, UnlistedOK
  <2> QED
    BY <2>1 DEF UnlistedOK
<1>4. WireOK'
  BY <1>1 DEF DepotInv, WireOK
<1>5. OrdersFitHoldings'
  <2>1. ASSUME NEW q \in wire', q.symbol \notin unsure
        PROVE  q \in wire /\ shares'[q.symbol] = shares[q.symbol]
    BY <1>2, <2>1 DEF DepotInv, WireOK
  <2> QED
    BY <1>1, <2>1 DEF DepotInv, OrdersFitHoldings, Opens
<1>6. KnowledgeOK'
  <2>1. pc \in {"balance", "positions"} => Symbol \in Symbols
    BY SymbolInSymbols DEF DepotInv, TypeInv, PlaceOK
  <2> QED
    BY <1>1, <1>2, <2>1 DEF DepotInv, KnowledgeOK
<1> QED
  BY <1>3, <1>4, <1>5, <1>6

LEMMA InitDepot == Init => DepotInv
<1> SUFFICES ASSUME Init PROVE DepotInv
  OBVIOUS
<1> QED
  BY InitType
  DEF Init, DepotInv, UnlistedOK, WireOK, KnowledgeOK, OrdersFitHoldings

LEMMA NextDepot ==
  ASSUME Broker = "depot", DepotInv, [Next]_vars
  PROVE  DepotInv'
<1>1. TypeInv'
  BY NextType DEF DepotInv
<1>2. CASE OnPosition
  BY <1>1, <1>2, PositionFits DEF DepotInv
<1>3. CASE OnPositions
  BY <1>1, <1>3, PositionsFit DEF DepotInv
<1>4. CASE BrokerStep
  <2>1. ASSUME NEW r \in wire, Execute(r) PROVE DepotInv'
    <3>1. PICK n \in Int :
            /\ shares' = [shares EXCEPT ![r.symbol] = n]
            /\ listed' = listed \union {r.symbol}
               \/ (n = 0 /\ listed' = listed \ {r.symbol})
      BY <2>1, TradeEffect DEF Execute
    <3>2. wire' = wire \ {r} /\ UNCHANGED <<pc, next, orders, history>>
      BY <2>1 DEF Execute
    <3>3. UnlistedOK' /\ WireOK' /\ KnowledgeOK' /\ OrdersFitHoldings'
      BY <3>1, <3>2, AnsweredFits
    <3> QED
      BY <1>1, <3>3 DEF DepotInv
  <2>2. ASSUME NEW r \in wire, Refuse(r) PROVE DepotInv'
    <3>1. /\ wire' = wire \ {r} /\ UNCHANGED <<pc, next, orders, history>>
          /\ UNCHANGED <<shares, listed>>
      BY <2>2 DEF Refuse, account
    <3>2. 0 \in Int
      OBVIOUS
    <3>3. UnlistedOK' /\ WireOK' /\ KnowledgeOK' /\ OrdersFitHoldings'
      BY <3>1, <3>2, AnsweredFits
    <3> QED
      BY <1>1, <3>3 DEF DepotInv
  <2> QED
    BY <1>4, <2>1, <2>2 DEF BrokerStep, Accept
<1>5. CASE \E r \in orders : Fill(r)
  BY <1>5 DEF DepotInv, WireOK
<1>6. CASE OnBalance \/ UNCHANGED vars
  <2>1. UNCHANGED <<account, wire, orders, unsure, Symbol>>
    BY <1>6 DEF OnBalance, history, vars, trader, Symbol
  <2>2. pc' \in {"balance", "positions"} => pc \in {"balance", "positions"}
    BY <1>6 DEF OnBalance, vars, trader
  <2>3. KnowledgeOK'
    BY <2>1, <2>2 DEF account, DepotInv, KnowledgeOK
  <2> QED
    BY <1>1, <2>1, <2>3, SameWire DEF DepotInv
<1>7. CASE Tick \/ Evaluate \/ ReadFails \/ OnReply \/ Break \/ Abort \/ Start
  <2>1. UNCHANGED <<account, wire, orders, unsure>>
    BY <1>7 DEF Tick, Evaluate, ReadFails, Skip, OnReply, Break, Abort, Start,
                history
  <2>2. pc' \notin {"balance", "positions"}
    BY <1>7 DEF Tick, Evaluate, ReadFails, Skip, OnReply, Break, Abort, Start,
                Advance
  <2> QED
    BY <1>1, <2>1, <2>2, SameWire DEF DepotInv, KnowledgeOK
<1> QED
  BY <1>2, <1>3, <1>4, <1>5, <1>6, <1>7 DEF Next, TraderStep

\* On a depot an order that is on its way for a symbol in sight fits the shares
\* it will meet, whatever fails, breaks off, comes late or is aborted
\* (trading_strategy.rs:257-372): the trader was wrong about it only if it read
\* the position while an earlier order for the symbol was still on its way.
THEOREM DepotOrdersFit ==
  ASSUME Broker = "depot"
  PROVE  Spec => []OrdersFitHoldings
<1>1. DepotInv /\ [Next]_vars => DepotInv'
  BY NextDepot
<1>2. DepotInv => OrdersFitHoldings
  BY DEF DepotInv
<1> QED
  BY <1>1, <1>2, InitDepot, PTL DEF Spec

----------------------------------------------------------------------------
(* What the steps do to the shares and to the sight.                       *)

LEMMA StepHolds ==
  ASSUME Broker = "depot", DepotInv, [Next]_vars
  PROVE  [Held!Next]_<<shares, unsure>>
<1>1. CASE BrokerStep
  <2>1. ASSUME NEW r \in wire, Execute(r) PROVE Held!Next
    <3>1. PICK n \in Int :
            /\ shares' = [shares EXCEPT ![r.symbol] = n]
            /\ r.symbol \notin unsure =>
                 IF shares[r.symbol] = 0
                   THEN n # 0
                   ELSE n = shares[r.symbol] - Carried(shares[r.symbol])
      BY <2>1, TradeEffect DEF Execute
    <3>2. /\ r.symbol \in Symbols /\ shares \in [Symbols -> Int]
          /\ unsure' = unsure
      <4>1. r \in Order
        BY DEF DepotInv, TypeInv
      <4> QED
        BY <2>1, <4>1 DEF Order, Execute, history, DepotInv, TypeInv, TypeOK
    <3>3. shares'[r.symbol] = n
      BY <3>1, <3>2
    <3>4. Held!Open(r.symbol) \/ Held!Close(r.symbol) \/ Held!Slip(r.symbol)
      <4>1. CASE r.symbol \in unsure
        BY <3>1, <3>2, <3>3, <4>1 DEF Held!Slip
      <4>2. CASE r.symbol \notin unsure /\ shares[r.symbol] = 0
        BY <3>1, <3>2, <3>3, <4>2 DEF Held!Open
      <4>3. CASE r.symbol \notin unsure /\ shares[r.symbol] # 0
        BY <3>1, <3>2, <4>3 DEF Held!Close, Carried
      <4> QED
        BY <4>1, <4>2, <4>3
    <3> QED
      BY <3>2, <3>4 DEF Held!Next
  <2>2. ASSUME NEW r \in wire, Refuse(r) PROVE UNCHANGED <<shares, unsure>>
    BY <2>2 DEF Refuse, account, history
  <2> QED
    BY <1>1, <2>1, <2>2 DEF BrokerStep, Accept
<1>2. CASE OnPosition
  <2>1. Symbol \in Symbols /\ shares' = shares
    BY <1>2, SymbolInSymbols
    DEF OnPosition, Submit, Skip, AskBalance, account, DepotInv, TypeInv, PlaceOK
  <2>2. unsure' = unsure \union {Symbol} \/ unsure' = unsure \ {Symbol}
    BY <1>2 DEF OnPosition, LookAtPosition
  <2>3. Held!LoseSight(Symbol) \/ Held!RegainSight(Symbol)
    BY <2>1, <2>2 DEF Held!LoseSight, Held!RegainSight
  <2> QED
    BY <2>1, <2>3 DEF Held!Next
<1>3. CASE \E r \in orders : Fill(r)
  BY <1>3 DEF DepotInv, WireOK
<1>4. CASE Tick \/ Evaluate \/ OnBalance \/ OnPositions \/ ReadFails \/ OnReply
           \/ Break \/ Abort \/ Start \/ UNCHANGED vars
  BY <1>4
  DEF Tick, Evaluate, OnBalance, OnPositions, Submit, ReadFails, Skip, OnReply,
      Break, Abort, Start, vars, account, history
<1> QED
  BY <1>1, <1>2, <1>3, <1>4 DEF Next, TraderStep

\* On a depot the trader is what Holdings promises, whatever fails, is refused,
\* comes late or is cut off by a restart: it opens a position from nothing and
\* closes all of it, or as much as an i32 carries, as long as it has not read
\* the position while an order for it was on its way; and it is in sight again
\* once it has read with none on its way.
THEOREM DepotImplementsHoldings ==
  ASSUME Broker = "depot"
  PROVE  Spec => ImplementsHoldings
<1>1. Init => Held!Init
  BY DEF Init, Held!Init
<1>2. DepotInv /\ [Next]_vars => DepotInv' /\ [Held!Next]_<<shares, unsure>>
  BY NextDepot, StepHolds
<1> QED
  BY <1>1, <1>2, InitDepot, PTL DEF Spec, ImplementsHoldings, Held!Spec

----------------------------------------------------------------------------
(* Notifications.                                                          *)

NoticeInv ==
  /\ NotifiedWasExecuted
  /\ reply = "accepted" => submitted \in executed
  /\ pc # "await" => reply = "none"

LEMMA InitNotice == Init => NoticeInv
BY DEF Init, NoticeInv, NotifiedWasExecuted

LEMMA NextNotice ==
  ASSUME Broker = "depot", NoticeInv, [Next]_vars
  PROVE  NoticeInv'
<1> USE DEF NoticeInv, NotifiedWasExecuted, record
<1>1. CASE Tick
  BY <1>1 DEF Tick
<1>2. CASE Evaluate
  BY <1>2 DEF Evaluate, Advance
<1>3. ASSUME NEW kind, NEW quantity, Submit(kind, quantity), pc # "await"
      PROVE  NoticeInv'
  BY <1>3 DEF Submit
<1>4. CASE Skip
  BY <1>4 DEF Skip, Advance
<1>5. CASE AskBalance /\ pc # "await"
  BY <1>5 DEF AskBalance
<1>6. CASE OnPosition
  BY <1>3, <1>4, <1>5, <1>6 DEF OnPosition
<1>7. CASE OnBalance
  BY <1>7 DEF OnBalance
<1>8. CASE OnPositions
  BY <1>3, <1>4, <1>8 DEF OnPositions
<1>9. CASE ReadFails
  BY <1>4, <1>9 DEF ReadFails
<1>10. CASE OnReply
  BY <1>10 DEF OnReply, Advance
<1>11. ASSUME NEW r \in wire, Execute(r) PROVE NoticeInv'
  BY <1>11 DEF Execute, Answer
<1>12. ASSUME NEW r \in wire, Refuse(r) PROVE NoticeInv'
  BY <1>12 DEF Refuse, Answer
<1>13. ASSUME NEW r \in orders, Fill(r) PROVE NoticeInv'
  BY <1>13 DEF Fill, trader
<1>14. CASE Break
  BY <1>14 DEF Break
<1>15. CASE Abort
  BY <1>15 DEF Abort
<1>16. CASE Start
  BY <1>16 DEF Start
<1>17. CASE UNCHANGED vars
  BY <1>17 DEF vars, trader
<1> QED
  BY <1>1, <1>2, <1>6, <1>7, <1>8, <1>9, <1>10, <1>11, <1>12, <1>13, <1>14,
     <1>15, <1>16, <1>17
  DEF Next, TraderStep, BrokerStep, Accept

\* With a depot, however late it answers, the user is told only of orders that
\* the depot has executed.
THEOREM DepotNoticesAreTrue ==
  ASSUME Broker = "depot"
  PROVE  Spec => []NotifiedWasExecuted
<1>1. Init => NoticeInv
  BY InitNotice
<1>2. NoticeInv /\ [Next]_vars => NoticeInv'
  BY NextNotice
<1>3. NoticeInv => NotifiedWasExecuted
  BY DEF NoticeInv
<1> QED
  BY <1>1, <1>2, <1>3, PTL DEF Spec

----------------------------------------------------------------------------
(* What is invested in finitely many positions is a sum.                   *)

Worths(P) == [s \in P |-> Abs(shares[s]) * quote[s]]

LEMMA ExposureIsSum ==
  ASSUME NEW P, IsFiniteSet(P),
         \A s \in P : shares[s] \in Int /\ quote[s] \in Nat
  PROVE  \E sum : IsSum(sum, Worths(P), P) /\ Exposure(P) = sum[P]
<1> DEFINE worth == Worths(P)
           Sums(sum) ==
             sum = [positions \in SUBSET P |->
                     IF positions = {} THEN 0
                     ELSE Abs(shares[First(positions)])
                            * quote[First(positions)]
                            + sum[positions \ {First(positions)}]]
<1>1. \A s \in P : worth[s] \in Int
  BY DEF Worths, Abs
<1>2. ASSUME NEW sum PROVE Sums(sum) <=> Adds(sum, worth, P)
  <2>1. \A positions \in (SUBSET P) \ {{}} :
          worth[First(positions)] =
            Abs(shares[First(positions)]) * quote[First(positions)]
    BY DEF Worths, First
  <2> HIDE DEF worth
  <2> QED
    BY <2>1 DEF Adds
<1>3. \E sum : Sums(sum)
  <2> HIDE DEF Sums, worth
  <2> QED
    BY <1>1, <1>2, SumExists
<1> DEFINE sum == CHOOSE f : Sums(f)
<1>4. Sums(sum)
  BY <1>3
<1>5. Exposure(P) = sum[P]
  BY DEF Exposure, Value, MapThenSumSet, MapThenFoldSet, First
<1> HIDE DEF sum, Sums, worth
<1>6. IsSum(sum, worth, P)
  BY <1>1, <1>2, <1>4, AddsIsSum
<1> QED
  BY <1>5, <1>6 DEF worth

\* What is invested is never negative, and nothing in no position.
LEMMA ExposureType ==
  ASSUME NEW P, IsFiniteSet(P),
         \A s \in P : shares[s] \in Int /\ quote[s] \in Nat
  PROVE  Exposure(P) \in Nat /\ (P = {} => Exposure(P) = 0)
<1>1. PICK sum : IsSum(sum, Worths(P), P) /\ Exposure(P) = sum[P]
  BY ExposureIsSum
<1>2. \A s \in P : Worths(P)[s] \in Nat
  <2> SUFFICES ASSUME NEW s \in P PROVE Abs(shares[s]) * quote[s] \in Nat
    BY DEF Worths
  <2>1. Abs(shares[s]) \in Nat /\ quote[s] \in Nat
    BY DEF Abs
  <2> QED
    BY <2>1
<1>3. P \in SUBSET P
  OBVIOUS
<1>4. sum[P] \in Nat
  BY <1>1, <1>2, <1>3, SumOfNaturals
<1> QED
  BY <1>1, <1>4 DEF IsSum

----------------------------------------------------------------------------
(* The limits, of orders decided on while nothing was on its way.          *)

LEMMA ListedIsFinite ==
  ASSUME TypeOK
  PROVE  IsFiniteSet(listed)
<1>1. SymbolList \in Seq(STRING)
  BY SymbolsAssumption
<1>2. SymbolList \in Surjection(1..Len(SymbolList), Symbols)
  BY <1>1 DEF Surjection, Symbols
<1>3. IsFiniteSet(1..Len(SymbolList))
  BY <1>1, FS_Interval
<1>4. IsFiniteSet(Symbols)
  BY <1>2, <1>3, FS_Surjection
<1> QED
  BY <1>4, FS_Subset DEF TypeOK

LEMMA ExposuresAreNatural ==
  ASSUME TypeOK
  PROVE  /\ Exposure(Longs) \in Nat /\ Exposure(Shorts) \in Nat
         /\ Shorts = {} => Exposure(Shorts) = 0
<1>1. \A s \in listed : shares[s] \in Int /\ quote[s] \in Nat
  <2> SUFFICES ASSUME NEW s \in listed PROVE shares[s] \in Int /\ quote[s] \in Nat
    OBVIOUS
  <2>1. s \in Symbols
    BY DEF TypeOK
  <2>2. shares[s] \in Int /\ quote[s] \in Prices \union {0}
    BY <2>1 DEF TypeOK
  <2>3. \A price \in Prices : price \in Nat
    BY PricesAssumption
  <2> QED
    BY <2>2, <2>3
<1>2. Longs \subseteq listed /\ Shorts \subseteq listed
  BY DEF Longs, Shorts
<1>3. IsFiniteSet(Longs) /\ IsFiniteSet(Shorts)
  BY <1>2, ListedIsFinite, FS_Subset
<1> QED
  BY <1>1, <1>2, <1>3, ExposureType

\* What a trader knows that read while nothing was on its way.
SightOK ==
  /\ pc \in {"balance", "positions"} => wire = {}
  /\ pc = "positions" => plan.balance = cash
  /\ \A r, q \in wire : r = q

LimitInv ==
  /\ DepotInv
  /\ ~blind => SightOK
  /\ OrdersWithinLimits

\* Orders stay within their limits while the account stays as it is.
LEMMA SameAccount ==
  ASSUME OrdersWithinLimits, UNCHANGED <<account, wire, blind>>
  PROVE  OrdersWithinLimits'
<1>1. Longs' = Longs /\ Shorts' = Shorts
  BY DEF account, Longs, Shorts
<1>2. Exposure(Longs)' = Exposure(Longs) /\ Exposure(Shorts)' = Exposure(Shorts)
  BY <1>1 DEF account, Exposure, MapThenSumSet, MapThenFoldSet, Value
<1>3. Portfolio' = Portfolio
  BY <1>2 DEF Portfolio, account
<1> QED
  BY <1>1, <1>2, <1>3 DEF account, OrdersWithinLimits, Opens, Worth

\* What is worth more has more in the hundred.
LEMMA ShareGrows ==
  ASSUME NEW a \in Int, NEW b \in Int, a <= b, NEW n \in Nat
  PROVE  a * n <= b * n
<1>1. b - a \in Nat
  OBVIOUS
<1>2. (b - a) * n >= 0
  BY <1>1
<1> QED
  BY <1>2

LEMMA SubmitLimits ==
  ASSUME Broker = "depot", LimitInv, OnPositions, ~Skip, ~blind
  PROVE  OrdersWithinLimits'
<1>1. /\ Exposure(Longs) \in Nat /\ Exposure(Shorts) \in Nat
      /\ Shorts = {} => Exposure(Shorts) = 0
      /\ cash \in Int /\ plan.balance = cash /\ plan.price \in Nat \ {0}
      /\ wire = {} /\ MaxInt \in Nat \ {0}
      /\ MaxPosition \in Nat /\ MaxTotal \in Nat
      /\ MaxShort \in Nat /\ MaxShortTotal \in Nat
  <2>1. /\ Exposure(Longs) \in Nat /\ Exposure(Shorts) \in Nat
        /\ Shorts = {} => Exposure(Shorts) = 0
        /\ cash \in Int
    BY ExposuresAreNatural DEF LimitInv, DepotInv, TypeInv, TypeOK
  <2>2. plan.balance = cash /\ plan.price \in Prices /\ wire = {}
    BY DEF OnPositions, LimitInv, SightOK, DepotInv, TypeInv, Priced
  <2>3. plan.price \in Nat \ {0}
    BY <2>2, PricesAssumption
  <2> QED
    BY <2>1, <2>2, <2>3, LimitsAssumption
<1>2. /\ Exposure(Longs)' = Exposure(Longs)
      /\ Exposure(Shorts)' = Exposure(Shorts)
      /\ Portfolio' = Portfolio
      /\ Shorts' = Shorts
      /\ UNCHANGED cash
  <2>1. UNCHANGED account
    BY DEF OnPositions, Submit
  <2>2. Longs' = Longs /\ Shorts' = Shorts
    BY <2>1 DEF account, Longs, Shorts
  <2>3. /\ Exposure(Longs)' = Exposure(Longs)
        /\ Exposure(Shorts)' = Exposure(Shorts)
    BY <2>1, <2>2 DEF account, Exposure, MapThenSumSet, MapThenFoldSet, Value
  <2> QED
    BY <2>1, <2>2, <2>3 DEF account, Portfolio
<1>3. Shorts = {} => Portfolio \in Int /\ cash <= Portfolio
  BY <1>1 DEF Portfolio
<1> DEFINE long == Size(plan.balance, Exposure(Longs), MaxTotal, MaxPosition,
                        plan.price)
           short == Size(plan.balance, Exposure(Shorts), MaxShortTotal,
                         MaxShort, plan.price)
<1>4. /\ Exposure(Longs) \in Int /\ Exposure(Shorts) \in Int
      /\ MaxPosition \in Int /\ MaxTotal \in Int
      /\ MaxShort \in Int /\ MaxShortTotal \in Int
  BY <1>1
<1>5. CASE Submit("buy", long)
  <2> DEFINE q == Least(long, MaxInt)
  <2>1. long \in Nat \ {0} /\ wire' =
          {[id |-> submitted', side |-> "buy", symbol |-> Symbol, count |-> q,
            price |-> plan.price]}
    BY <1>1, <1>5 DEF Submit, Count
  <2>2. q \in Int /\ q > 0 /\ q <= long
    BY <1>1, <2>1 DEF Least
  <2> HIDE DEF q
  <2>3. /\ 100 * (q * plan.price) <= cash * MaxPosition
        /\ 100 * (Exposure(Longs) + q * plan.price) <= cash * MaxTotal
    <3>1. /\ plan.balance \in Int /\ Exposure(Longs) \in Int /\ MaxTotal \in Int
          /\ MaxPosition \in Int /\ plan.price \in Nat \ {0} /\ q \in Int
          /\ q <= Size(plan.balance, Exposure(Longs), MaxTotal, MaxPosition, plan.price)
      BY <1>1, <1>4, <2>2
    <3>2. /\ q > 0 => 100 * (q * plan.price) <= plan.balance * MaxPosition
          /\ q > 0 => 100 * (Exposure(Longs) + q * plan.price)
                        <= plan.balance * MaxTotal
      BY ONLY <3>1, SizeWithinLimits
    <3> QED
      BY <1>1, <2>2, <3>2
  <2>4. q * plan.price \in Int
    BY <1>1, <2>2
  <2>5. Shorts = {} => 100 * (q * plan.price) <= Portfolio * MaxPosition
    <3> SUFFICES ASSUME Shorts = {}
                 PROVE  100 * (q * plan.price) <= Portfolio * MaxPosition
      OBVIOUS
    <3>1. /\ cash * MaxPosition <= Portfolio * MaxPosition
          /\ cash * MaxPosition \in Int /\ Portfolio * MaxPosition \in Int
      BY <1>1, <1>3, ShareGrows
    <3> QED
      BY <2>3, <2>4, <3>1
  <2>6. \A r \in wire' :
          r.side = "buy" /\ Worth(r) = q * plan.price
    BY <2>1, <2>2 DEF Worth, Abs
  <2> QED
    BY <1>2, <2>3, <2>5, <2>6 DEF OrdersWithinLimits, Opens, Worth
<1>6. CASE Submit("short", short)
  <2> DEFINE q == Least(short, MaxInt)
  <2>1. short \in Nat \ {0} /\ wire' =
          {[id |-> submitted', side |-> "sell", symbol |-> Symbol, count |-> -q,
            price |-> plan.price]}
    BY <1>1, <1>6 DEF Submit, Count
  <2>2. q \in Int /\ q > 0 /\ q <= short
    BY <1>1, <2>1 DEF Least
  <2> HIDE DEF q
  <2>3. /\ 100 * (q * plan.price) <= cash * MaxShort
        /\ 100 * (Exposure(Shorts) + q * plan.price) <= cash * MaxShortTotal
    <3>1. /\ plan.balance \in Int /\ Exposure(Shorts) \in Int /\ MaxShortTotal \in Int
          /\ MaxShort \in Int /\ plan.price \in Nat \ {0} /\ q \in Int
          /\ q <= Size(plan.balance, Exposure(Shorts), MaxShortTotal, MaxShort, plan.price)
      BY <1>1, <1>4, <2>2
    <3>2. /\ q > 0 => 100 * (q * plan.price) <= plan.balance * MaxShort
          /\ q > 0 => 100 * (Exposure(Shorts) + q * plan.price)
                        <= plan.balance * MaxShortTotal
      BY ONLY <3>1, SizeWithinLimits
    <3> QED
      BY <1>1, <2>2, <3>2
  <2>4. q * plan.price \in Int
    BY <1>1, <2>2
  <2>5. Shorts = {} => /\ 100 * (q * plan.price) <= Portfolio * MaxShort
                       /\ 100 * (q * plan.price) <= Portfolio * MaxShortTotal
    <3> SUFFICES ASSUME Shorts = {}
                 PROVE  /\ 100 * (q * plan.price) <= Portfolio * MaxShort
                        /\ 100 * (q * plan.price) <= Portfolio * MaxShortTotal
      OBVIOUS
    <3>1. /\ cash * MaxShort <= Portfolio * MaxShort
          /\ cash * MaxShortTotal <= Portfolio * MaxShortTotal
          /\ cash * MaxShort \in Int /\ Portfolio * MaxShort \in Int
          /\ cash * MaxShortTotal \in Int /\ Portfolio * MaxShortTotal \in Int
      BY <1>1, <1>3, ShareGrows
    <3>2. 100 * (q * plan.price) <= cash * MaxShortTotal
      BY <1>1, <2>3, <2>4
    <3> QED
      BY <2>3, <2>4, <3>1, <3>2
  <2>6. \A r \in wire' :
          r.side = "sell" /\ Worth(r) = q * plan.price
    BY <2>1, <2>2 DEF Worth, Abs
  <2> QED
    BY <1>2, <2>5, <2>6 DEF OrdersWithinLimits, Opens, Worth
<1> QED
  BY <1>5, <1>6 DEF OnPositions

\* An order that closes a position has no limit to keep.
LEMMA CloseLimits ==
  ASSUME Broker = "depot", LimitInv, OnPosition
  PROVE  OrdersWithinLimits' /\ (~blind => SightOK)'
<1>1. MaxInt \in Nat \ {0} /\ (~blind' => wire = {}) /\ pc = "position"
  BY LimitsAssumption DEF OnPosition, LookAtPosition
<1>2. ASSUME NEW kind \in {"cover", "sell"}, NEW quantity,
             Submit(kind, quantity)
      PROVE  OrdersWithinLimits' /\ (~blind => SightOK)'
  <2> DEFINE q == Least(quantity, MaxInt)
             side == IF kind = "cover" THEN "buy" ELSE "sell"
             r == [id |-> submitted + 1, side |-> side, symbol |-> Symbol,
                   count |-> IF kind = "cover" THEN -q ELSE q,
                   price |-> plan.price]
  <2>1. q \in Nat \ {0}
    BY <1>1, <1>2 DEF Submit, Least
  <2>2. wire' = wire \union {r} /\ pc' = "await"
    BY <1>2 DEF Submit, Count
  <2> HIDE DEF q
  <2>3. ~Opens(r)
    BY <2>1 DEF Opens
  <2> HIDE DEF r
  <2>4. ~blind' => wire' = {r}
    BY <1>1, <2>2
  <2>5. OrdersWithinLimits'
    BY <2>3, <2>4 DEF OrdersWithinLimits, Opens
  <2>6. (~blind => SightOK)'
    BY <2>2, <2>4 DEF SightOK
  <2> QED
    BY <2>5, <2>6
<1>3. CASE Skip \/ AskBalance
  <2>1. ~blind' => wire' = {} /\ pc' # "positions"
    BY <1>1, <1>3 DEF Skip, Advance, AskBalance
  <2> QED
    BY <2>1 DEF OrdersWithinLimits, SightOK
<1> QED
  BY <1>2, <1>3 DEF OnPosition

LEMMA NextLimit ==
  ASSUME Broker = "depot", LimitInv, [Next]_vars
  PROVE  LimitInv'
<1>1. DepotInv'
  BY NextDepot DEF LimitInv
<1>2. CASE OnPosition
  BY <1>1, <1>2, CloseLimits DEF LimitInv
<1>3. CASE OnPositions
  <2>1. blind' = blind /\ pc = "positions"
    BY <1>3 DEF OnPositions, history
  <2>2. CASE Skip
    <3>1. UNCHANGED <<account, wire>> /\ pc' \notin {"balance", "positions"}
      BY <2>2 DEF Skip, Advance
    <3> QED
      BY <1>1, <2>1, <3>1, SameAccount DEF LimitInv, SightOK
  <2>3. CASE ~Skip
    <3>1. pc' = "await" /\ \E r : wire' = wire \union {r}
      BY <1>3, <2>3 DEF OnPositions, Submit
    <3>2. (~blind => SightOK)'
      BY <2>1, <3>1 DEF LimitInv, SightOK
    <3>3. CASE blind
      BY <1>1, <2>1, <3>2, <3>3 DEF LimitInv, OrdersWithinLimits
    <3>4. CASE ~blind
      BY <1>1, <1>3, <2>3, <3>2, <3>4, SubmitLimits DEF LimitInv
    <3> QED
      BY <3>3, <3>4
  <2> QED
    BY <2>2, <2>3
<1>4. CASE BrokerStep \/ \E r \in orders : Fill(r)
  <2>1. UNCHANGED <<pc, blind, plan>> /\ \E r \in wire : wire' = wire \ {r}
    BY <1>4 DEF BrokerStep, Execute, Accept, Refuse, LimitInv, DepotInv, WireOK,
                history
  <2>2. ~blind => wire' = {} /\ pc \notin {"balance", "positions"}
    BY <2>1 DEF LimitInv, SightOK
  <2> QED
    BY <1>1, <2>1, <2>2 DEF LimitInv, SightOK, OrdersWithinLimits
<1>5. CASE OnBalance \/ UNCHANGED vars
  <2>1. /\ UNCHANGED <<account, wire, blind>>
        /\ pc' \in {"balance", "positions"} => pc \in {"balance", "positions"}
    BY <1>5 DEF OnBalance, history, vars, trader
  <2>2. ~blind /\ pc' = "positions" => plan'.balance = cash'
    BY <1>5 DEF OnBalance, account, vars, trader, LimitInv, SightOK, DepotInv,
                TypeInv, TypeOK
  <2> QED
    BY <1>1, <2>1, <2>2, SameAccount DEF LimitInv, SightOK
<1>6. CASE Tick \/ Evaluate \/ ReadFails \/ OnReply \/ Break \/ Abort \/ Start
  <2>1. UNCHANGED <<account, wire, blind>>
    BY <1>6 DEF Tick, Evaluate, ReadFails, Skip, OnReply, Break, Abort, Start,
                history
  <2>2. pc' \notin {"balance", "positions"}
    BY <1>6 DEF Tick, Evaluate, ReadFails, Skip, OnReply, Break, Abort, Start,
                Advance
  <2> QED
    BY <1>1, <2>1, <2>2, SameAccount DEF LimitInv, SightOK
<1> QED
  BY <1>2, <1>3, <1>4, <1>5, <1>6 DEF Next, TraderStep

\* On a depot, an order that opens a position keeps the limits of the account
\* that it will meet, and with no short position yet those of the portfolio, for
\* any limits, prices and number of positions, whatever fails or is aborted
\* (position_manager.rs:8-11, 117-170), unless it was decided on while another
\* order was on its way.
THEOREM DepotWithinLimits ==
  ASSUME Broker = "depot"
  PROVE  Spec => []OrdersWithinLimits
<1>1. Init => LimitInv
  <2>1. Init => OrdersWithinLimits /\ SightOK
    BY DEF Init, OrdersWithinLimits, SightOK
  <2> QED
    BY <2>1, InitDepot DEF LimitInv
<1>2. LimitInv /\ [Next]_vars => LimitInv'
  BY NextLimit
<1>3. LimitInv => OrdersWithinLimits
  BY DEF LimitInv
<1> QED
  BY <1>1, <1>2, <1>3, PTL DEF Spec

=============================================================================
