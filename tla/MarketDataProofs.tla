------------------------- MODULE MarketDataProofs -------------------------
(***************************************************************************)
(* Proofs about MarketData, for all symbols, buffer sizes and feeds.       *)
(*                                                                         *)
(* That a streamer saves a message at most once rests on where it stands in*)
(* the feed: whatever it is saving or has saved lies behind that place, so *)
(* what it hears next is new to every table and every task.                *)
(***************************************************************************)
EXTENDS MarketData, PriceBufferProofs

RangeOK ==
  /\ feed \in Seq(Subjects)
  /\ heard \in [Passes -> Nat]
  /\ \A g \in Passes : heard[g] <= Len(feed)
  /\ DOMAIN trades = Symbols
  /\ DOMAIN bars = Symbols

\* What is being saved has been heard.
SavingOK ==
  \A task \in saving : task \in Task /\ task.message \in 1..heard[task.by]

\* So has what has been saved, and it is not being saved again.
RowOK(row, kind, s) == row \in Task /\ row.message >= 1 /\ IsRow(row, kind, s)

TableOK(table, kind) ==
  \A s \in Symbols :
    /\ table[s] \in Seq(Task)
    /\ Distinct(table[s])
    /\ \A i \in DOMAIN table[s] : RowOK(table[s][i], kind, s)

SaveInv ==
  RangeOK /\ SavingOK /\ TableOK(trades, "trade") /\ TableOK(bars, "bar")

LEMMA InitSave == Init => SaveInv
BY DEF Init, SaveInv, RangeOK, SavingOK, TableOK, Distinct

\* A row stays what it is while the feed and the streamers go on and nothing
\* heard before is saved anew.
LEMMA RowStays ==
  ASSUME RangeOK, RangeOK',
         \A g \in Passes : heard[g] <= heard'[g],
         \A i \in 1..Len(feed) : feed'[i] = feed[i],
         \A task \in saving' \ saving : task.message > heard[task.by],
         NEW row, NEW kind, NEW s, RowOK(row, kind, s)
  PROVE  RowOK(row, kind, s)'
<1>1. /\ row.by \in Passes /\ row.message \in Nat /\ row.message >= 1
      /\ row.message <= heard[row.by] /\ row \notin saving
      /\ feed[row.message] = [kind |-> kind, symbol |-> s]
  BY DEF RowOK, IsRow, Task
<1>2. /\ heard[row.by] \in Nat /\ heard'[row.by] \in Nat
      /\ heard[row.by] <= heard'[row.by]
      /\ heard[row.by] <= Len(feed) /\ Len(feed) \in Nat
  BY <1>1 DEF RangeOK
<1>3. row.message <= heard'[row.by] /\ row.message \in 1..Len(feed)
  BY <1>1, <1>2
<1>4. feed'[row.message] = [kind |-> kind, symbol |-> s]
  BY <1>1, <1>3
<1>5. row \notin saving'
  BY <1>1, <1>2
<1> QED
  BY <1>3, <1>4, <1>5 DEF RowOK, IsRow

\* A step that leaves the tables alone and saves only what is new.
LEMMA QuietSave ==
  ASSUME SaveInv, UNCHANGED tables, RangeOK', SavingOK',
         \A g \in Passes : heard[g] <= heard'[g],
         \A i \in 1..Len(feed) : feed'[i] = feed[i],
         \A task \in saving' \ saving : task.message > heard[task.by]
  PROVE  SaveInv'
<1>1. \A row, kind, s : RowOK(row, kind, s) => RowOK(row, kind, s)'
  BY RowStays DEF SaveInv
<1>2. trades' = trades /\ bars' = bars
  BY DEF tables
<1>3. TableOK(trades, "trade")'
  BY <1>1, <1>2 DEF SaveInv, TableOK
<1>4. TableOK(bars, "bar")'
  BY <1>1, <1>2 DEF SaveInv, TableOK
<1> QED
  BY <1>3, <1>4 DEF SaveInv

LEMMA HearSave ==
  ASSUME SaveInv, NEW g \in Passes, Hear(g)
  PROVE  SaveInv'
<1> DEFINE new == [by |-> g, message |-> heard[g] + 1]
<1>1. /\ heard' = [heard EXCEPT ![g] = heard[g] + 1]
      /\ heard[g] < Len(feed)
      /\ saving' = saving \union {new}
      /\ UNCHANGED <<feed, tables>>
  BY DEF Hear
<1>2. heard \in [Passes -> Nat] /\ Len(feed) \in Nat
  BY DEF SaveInv, RangeOK
<1>3. RangeOK'
  BY <1>1, <1>2 DEF SaveInv, RangeOK, tables
<1>4. \A h \in Passes : heard[h] <= heard'[h]
  BY <1>1, <1>2
<1>5. SavingOK'
  <2>1. new \in Task /\ new.message \in 1..heard'[new.by]
    BY <1>1, <1>2 DEF Task
  <2>2. ASSUME NEW task \in saving
        PROVE  task \in Task /\ task.message \in 1..heard'[task.by]
    <3>1. task \in Task /\ task.message \in 1..heard[task.by]
      BY DEF SaveInv, SavingOK
    <3>2. task.by \in Passes
      BY <3>1 DEF Task
    <3> QED
      BY <1>2, <1>3, <1>4, <3>1, <3>2 DEF RangeOK
  <2> QED
    BY <1>1, <2>1, <2>2 DEF SavingOK
<1>6. \A task \in saving' \ saving : task.message > heard[task.by]
  BY <1>1, <1>2
<1> QED
  BY <1>1, <1>3, <1>4, <1>5, <1>6, QuietSave

LEMMA InsertSave ==
  ASSUME SaveInv, NEW task \in saving, Save(task)
  PROVE  SaveInv'
<1> DEFINE
      OldRow(row, k, s) == RowOK(row, k, s)
      NewRow(row, k, s) ==
        /\ row \in Task /\ row.message >= 1 /\ row \notin saving'
        /\ feed'[row.message] = [kind |-> k, symbol |-> s]
        /\ row.message <= heard'[row.by]
<1>1. /\ UNCHANGED <<feed, heard>> /\ saving' = saving \ {task}
      /\ Insert(task)
  BY DEF Save, streams
<1>2. task \in Task /\ task.message \in 1..heard[task.by]
  BY DEF SaveInv, SavingOK
<1>3. task.by \in Passes /\ task.message \in Nat
  BY <1>2 DEF Task
<1>4. heard[task.by] \in Nat /\ heard[task.by] <= Len(feed) /\ Len(feed) \in Nat
  BY <1>3 DEF SaveInv, RangeOK
<1>5. task.message \in 1..Len(feed) /\ task.message <= heard[task.by]
      /\ task.message >= 1
  BY <1>2, <1>3, <1>4
<1>6. PICK kind \in {"trade", "bar"}, q \in Symbols :
        feed[task.message] = [kind |-> kind, symbol |-> q]
  <2>1. feed[task.message] \in [kind : {"trade", "bar"}, symbol : Symbols]
    BY <1>5, SubjectsAssumption DEF SaveInv, RangeOK
  <2> QED
    BY <2>1
<1>7. NewRow(task, kind, q)
  BY <1>1, <1>2, <1>5, <1>6
<1>8. ASSUME NEW row, NEW k, NEW s, OldRow(row, k, s)
      PROVE  NewRow(row, k, s) /\ row # task
  BY <1>1, <1>8 DEF RowOK, IsRow
<1> HIDE DEF OldRow, NewRow
<1>9. ASSUME NEW rows \in Seq(Task), NEW k, NEW s, Distinct(rows),
             \A i \in DOMAIN rows : OldRow(rows[i], k, s), NewRow(task, k, s)
      PROVE  /\ Append(rows, task) \in Seq(Task)
             /\ Distinct(Append(rows, task))
             /\ \A i \in DOMAIN Append(rows, task) :
                  NewRow(Append(rows, task)[i], k, s)
  <2> DEFINE longer == Append(rows, task)
  <2>1. /\ longer \in Seq(Task) /\ Len(rows) \in Nat
        /\ DOMAIN rows = 1..Len(rows) /\ DOMAIN longer = 1..(Len(rows) + 1)
        /\ \A i \in 1..Len(rows) : longer[i] = rows[i]
        /\ longer[Len(rows) + 1] = task
    BY <1>2, <1>9
  <2>2. \A i \in DOMAIN rows : rows[i] # task
    BY <1>8, <1>9
  <2> HIDE DEF longer
  <2>3. Distinct(longer)
    BY <1>9, <2>1, <2>2 DEF Distinct
  <2>4. \A i \in DOMAIN longer : NewRow(longer[i], k, s)
    BY <1>8, <1>9, <2>1
  <2> QED
    BY <2>1, <2>3, <2>4 DEF longer
<1>10. RangeOK' /\ SavingOK'
  BY <1>1 DEF SaveInv, RangeOK, SavingOK, Insert
\* The table of the row's kind gets longer, the other one stays.
<1>11. ASSUME NEW table, NEW longer, NEW k, k = kind, DOMAIN table = Symbols,
              \A s \in Symbols :
                /\ table[s] \in Seq(Task)
                /\ Distinct(table[s])
                /\ \A i \in DOMAIN table[s] : OldRow(table[s][i], k, s),
              longer = [table EXCEPT ![q] = Append(@, task)],
              NEW s \in Symbols
       PROVE  /\ longer[s] \in Seq(Task)
              /\ Distinct(longer[s])
              /\ \A i \in DOMAIN longer[s] : NewRow(longer[s][i], k, s)
  <2>1. CASE s = q
    <3>1. longer[s] = Append(table[s], task)
      BY <1>11, <2>1
    <3> QED
      BY <1>7, <1>9, <1>11, <2>1, <3>1
  <2>2. CASE s # q
    BY <1>8, <1>11, <2>2
  <2> QED
    BY <2>1, <2>2
<1>12. \A s \in Symbols :
         /\ trades[s] \in Seq(Task) /\ Distinct(trades[s])
         /\ bars[s] \in Seq(Task) /\ Distinct(bars[s])
         /\ \A i \in DOMAIN trades[s] : OldRow(trades[s][i], "trade", s)
         /\ \A i \in DOMAIN bars[s] : OldRow(bars[s][i], "bar", s)
  BY DEF SaveInv, TableOK, OldRow
<1>13. DOMAIN trades = Symbols /\ DOMAIN bars = Symbols
  BY DEF SaveInv, RangeOK
<1>14. /\ \A s \in Symbols :
            /\ trades'[s] \in Seq(Task) /\ Distinct(trades'[s])
            /\ \A i \in DOMAIN trades'[s] : NewRow(trades'[s][i], "trade", s)
       /\ \A s \in Symbols :
            /\ bars'[s] \in Seq(Task) /\ Distinct(bars'[s])
            /\ \A i \in DOMAIN bars'[s] : NewRow(bars'[s][i], "bar", s)
  <2>1. CASE kind = "trade"
    <3>1. bars' = bars /\ trades' = [trades EXCEPT ![q] = Append(@, task)]
      BY <1>1, <1>6, <2>1 DEF Insert
    <3>2. \A s \in Symbols :
            /\ trades'[s] \in Seq(Task) /\ Distinct(trades'[s])
            /\ \A i \in DOMAIN trades'[s] : NewRow(trades'[s][i], "trade", s)
      BY <1>11, <1>12, <1>13, <2>1, <3>1
    <3> QED
      BY <1>8, <1>12, <3>1, <3>2
  <2>2. CASE kind = "bar"
    <3>1. trades' = trades /\ bars' = [bars EXCEPT ![q] = Append(@, task)]
      BY <1>1, <1>6, <2>2 DEF Insert
    <3>2. \A s \in Symbols :
            /\ bars'[s] \in Seq(Task) /\ Distinct(bars'[s])
            /\ \A i \in DOMAIN bars'[s] : NewRow(bars'[s][i], "bar", s)
      BY <1>11, <1>12, <1>13, <2>2, <3>1
    <3> QED
      BY <1>8, <1>12, <3>1, <3>2
  <2> QED
    BY <1>6, <2>1, <2>2
<1>15. TableOK(trades, "trade")' /\ TableOK(bars, "bar")'
  BY <1>14 DEF TableOK, RowOK, IsRow, NewRow
<1> QED
  BY <1>10, <1>15 DEF SaveInv

LEMMA NextSave == SaveInv /\ [Next]_vars => SaveInv'
<1> SUFFICES ASSUME SaveInv, [Next]_vars PROVE SaveInv'
  OBVIOUS
<1>1. ASSUME UNCHANGED <<feed, heard, tables>>, saving' \subseteq saving
      PROVE  SaveInv'
  <2>1. RangeOK' /\ SavingOK'
    BY <1>1 DEF SaveInv, RangeOK, SavingOK, tables
  <2>2. \A g \in Passes : heard[g] <= heard'[g]
    BY <1>1 DEF SaveInv, RangeOK
  <2> QED
    BY <1>1, <2>1, <2>2, QuietSave
<1>2. CASE \E s \in Symbols : FillFromBars(s) \/ FillFromTrades(s)
  BY <1>1, <1>2 DEF FillFromBars, FillFromTrades, streams
<1>3. CASE OpenDatabase \/ StartStreamer \/ Restart \/ Crash \/ UNCHANGED vars
  BY <1>1, <1>3 DEF OpenDatabase, StartStreamer, Restart, Crash, vars, streams
<1>4. CASE Send
  <2>1. PICK subject \in Subjects : feed' = Append(feed, subject)
    BY <1>4 DEF Send
  <2>2. UNCHANGED <<heard, saving, tables>>
    BY <1>4 DEF Send, streams
  <2>3. feed \in Seq(Subjects) /\ heard \in [Passes -> Nat]
    BY DEF SaveInv, RangeOK
  <2>4. /\ feed' \in Seq(Subjects) /\ Len(feed') = Len(feed) + 1
        /\ Len(feed) \in Nat
        /\ \A i \in 1..Len(feed) : feed'[i] = feed[i]
    BY <2>1, <2>3
  <2>5. RangeOK'
    BY <2>2, <2>3, <2>4 DEF SaveInv, RangeOK, tables
  <2>6. SavingOK'
    BY <2>2 DEF SaveInv, SavingOK
  <2>7. \A g \in Passes : heard[g] <= heard'[g]
    BY <2>2, <2>3
  <2> QED
    BY <2>2, <2>4, <2>5, <2>6, <2>7, QuietSave
<1>5. ASSUME NEW g \in Passes, Connect(g) PROVE SaveInv'
  <2>1. /\ heard' = [heard EXCEPT ![g] = Len(feed)]
        /\ UNCHANGED <<feed, saving, tables>>
    BY <1>5 DEF Connect
  <2>2. /\ Len(feed) \in Nat /\ heard \in [Passes -> Nat]
        /\ \A h \in Passes : heard[h] <= Len(feed)
    BY DEF SaveInv, RangeOK
  <2>3. RangeOK' /\ \A h \in Passes : heard[h] <= heard'[h]
    BY <2>1, <2>2 DEF SaveInv, RangeOK, tables
  <2>4. SavingOK'
    <3> SUFFICES ASSUME NEW task \in saving
                 PROVE  task \in Task /\ task.message \in 1..heard'[task.by]
      BY <2>1 DEF SavingOK
    <3>1. task \in Task /\ task.message \in 1..heard[task.by]
      BY DEF SaveInv, SavingOK
    <3>2. task.by \in Passes
      BY <3>1 DEF Task
    <3> QED
      BY <2>2, <2>3, <3>1, <3>2 DEF RangeOK
  <2> QED
    BY <2>1, <2>3, <2>4, QuietSave
<1>6. ASSUME NEW g \in Passes, Disconnect(g) PROVE SaveInv'
  BY <1>1, <1>6 DEF Disconnect
<1>7. ASSUME NEW g \in Passes, Hear(g) PROVE SaveInv'
  BY <1>7, HearSave
<1>8. ASSUME NEW task \in saving, Save(task) PROVE SaveInv'
  BY <1>8, InsertSave
<1>9. ASSUME NEW task \in saving, SaveFails(task) PROVE SaveInv'
  BY <1>1, <1>9 DEF SaveFails, streams
<1> QED
  BY <1>2, <1>3, <1>4, <1>5, <1>6, <1>7, <1>8, <1>9 DEF Next

\* Whatever restarts, crashes, lost answers and other streamers do, a streamer
\* saves a message at most once, in the table of its kind and symbol.
THEOREM SavesAreSingle == Spec => []SavedAtMostOnce
<1>1. SaveInv => SavedAtMostOnce
  BY DEF SaveInv, TableOK, RowOK, SavedAtMostOnce
<1> QED
  BY <1>1, InitSave, NextSave, PTL DEF Spec

----------------------------------------------------------------------------
(* The buffer.  What it was filled with before its streamer started stands *)
(* in front of what the streamer has heard, and only ever gets shorter.    *)

\* Nothing has been heard in a pass before its buffers are filled.
PassOK ==
  /\ \A g \in Passes : g > pass => streamer[g] = "none"
  /\ ~Filled => streamer[pass] = "none"
  /\ streamer[pass] = "none" => \A s \in Symbols : told[s] = <<>>

BufferInv == SaveInv /\ TypeOK /\ PassOK /\ LatestPricesKept

\* The messages of a table are messages of the feed.
LEMMA MessagesType ==
  ASSUME SaveInv, NEW rows \in Seq(Task),
         \A i \in DOMAIN rows : \E kind, s : RowOK(rows[i], kind, s)
  PROVE  Messages(rows) \in Seq(1..Len(feed))
<1>1. DOMAIN rows = 1..Len(rows) /\ Len(rows) \in Nat
  OBVIOUS
<1>2. ASSUME NEW i \in DOMAIN rows PROVE rows[i].message \in 1..Len(feed)
  <2>1. /\ rows[i] \in Task /\ rows[i].message >= 1
        /\ rows[i].message <= heard[rows[i].by]
    BY DEF RowOK, IsRow
  <2>2. rows[i].by \in Passes /\ rows[i].message \in Nat
    BY <2>1 DEF Task
  <2>3. /\ heard[rows[i].by] \in Nat /\ heard[rows[i].by] <= Len(feed)
        /\ Len(feed) \in Nat
    BY <2>2 DEF SaveInv, RangeOK
  <2> QED
    BY <2>1, <2>2, <2>3
<1>3. Messages(rows) \in [1..Len(rows) -> 1..Len(feed)]
  BY <1>1, <1>2 DEF Messages
<1> QED
  BY <1>1, <1>3

LEMMA InitBuffer == Init => BufferInv
<1> SUFFICES ASSUME Init PROVE BufferInv
  OBVIOUS
<1>1. \A s \in Symbols : BufferSize[s] \in Nat
  BY SizeAssumption
<1>2. TypeOK
  BY <1>1, BoundsAssumption DEF Init, TypeOK, Passes, Task
<1>3. PassOK
  BY BoundsAssumption DEF Init, PassOK, Passes
<1>4. LatestPricesKept
  BY <1>1 DEF Init, LatestPricesKept
<1> QED
  BY <1>2, <1>3, <1>4, InitSave DEF BufferInv

\* Nothing is what nothing keeps.
LEMMA LatestNone ==
  ASSUME NEW b \in Seq(Nat)
  PROVE  Latest(b, 0) = <<>>
<1>1. Len(b) \in Nat /\ 0 \in Nat
  OBVIOUS
<1>2. /\ Latest(b, 0) \in Seq(Nat)
      /\ Len(Latest(b, 0)) = IF Len(b) <= 0 THEN Len(b) ELSE 0
  BY <1>1, LatestType
<1> QED
  BY <1>1, <1>2

\* A step that leaves the buffers and what was heard alone.
LEMMA BufferStays ==
  ASSUME LatestPricesKept, UNCHANGED <<buffer, told>>
  PROVE  LatestPricesKept'
BY DEF LatestPricesKept

\* Buffers of messages are buffers of numbers.
LEMMA BufferType ==
  ASSUME TypeOK, NEW s \in Symbols
  PROVE  /\ buffer[s] \in Seq(Nat) /\ told[s] \in Seq(Nat)
         /\ buffer[s] \in Seq(1..Len(feed)) /\ told[s] \in Seq(1..Len(feed))
         /\ BufferSize[s] \in Nat /\ Len(buffer[s]) <= BufferSize[s]
         /\ Len(feed) \in Nat
<1>1. /\ buffer[s] \in Seq(1..Len(feed)) /\ told[s] \in Seq(1..Len(feed))
      /\ Len(feed) \in Nat /\ Len(buffer[s]) <= BufferSize[s]
      /\ BufferSize[s] \in Nat
  BY SizeAssumption DEF TypeOK
<1>2. 1..Len(feed) \subseteq Nat
  BY <1>1
<1> QED
  BY <1>1, <1>2

LEMMA FillBuffer ==
  ASSUME BufferInv, NEW s \in Symbols, FillFromBars(s) \/ FillFromTrades(s)
  PROVE  TypeOK' /\ PassOK' /\ LatestPricesKept'
<1>1. /\ todo[s] # "done" /\ todo \in [Symbols -> {"bars", "trades", "done"}]
      /\ UNCHANGED <<feed, pass, database, streamer, since, heard, told, saving,
                     trades, bars>>
  BY DEF BufferInv, TypeOK, FillFromBars, FillFromTrades, streams, tables
<1>2. ~Filled /\ streamer[pass] = "none" /\ \A q \in Symbols : told[q] = <<>>
  BY <1>1 DEF BufferInv, PassOK, Filled
<1>3. ASSUME NEW rows, rows \in {bars[s], trades[s]}
      PROVE  Messages(rows) \in Seq(1..Len(feed))
  <2>1. /\ rows \in Seq(Task)
        /\ \A i \in DOMAIN rows : \E kind, q : RowOK(rows[i], kind, q)
    BY <1>3 DEF BufferInv, SaveInv, TableOK
  <2> QED
    BY <2>1, MessagesType DEF BufferInv
<1>4. /\ buffer \in [Symbols -> Seq(1..Len(feed))]
      /\ \A q \in Symbols : Len(buffer[q]) <= BufferSize[q]
      /\ BufferSize[s] \in Nat
  BY SizeAssumption DEF BufferInv, TypeOK
<1>5. ASSUME NEW rows, rows \in {bars[s], trades[s]}, Fill(s, rows)
      PROVE  /\ buffer' \in [Symbols -> Seq(1..Len(feed))]
             /\ \A q \in Symbols : Len(buffer'[q]) <= BufferSize[q]
             /\ todo' \in [Symbols -> {"bars", "trades", "done"}]
  <2> DEFINE new == Latest(Messages(rows), BufferSize[s])
  <2>1. /\ new \in Seq(1..Len(feed))
        /\ Len(new) = IF Len(Messages(rows)) <= BufferSize[s]
                        THEN Len(Messages(rows)) ELSE BufferSize[s]
        /\ Len(Messages(rows)) \in Nat
    BY <1>3, <1>4, <1>5, LatestType
  <2>2. Len(new) <= BufferSize[s]
    BY <1>4, <2>1
  <2>3. /\ buffer' = [buffer EXCEPT ![s] = new]
        /\ todo' = [todo EXCEPT ![s] = "done"]
    BY <1>5 DEF Fill
  <2> HIDE DEF new
  <2> QED
    BY <1>1, <1>4, <2>1, <2>2, <2>3
<1>6. /\ buffer' \in [Symbols -> Seq(1..Len(feed))]
      /\ \A q \in Symbols : Len(buffer'[q]) <= BufferSize[q]
      /\ todo' \in [Symbols -> {"bars", "trades", "done"}]
  <2>1. CASE FillFromBars(s)
    BY <1>1, <1>4, <1>5, <2>1 DEF FillFromBars
  <2>2. CASE FillFromTrades(s)
    BY <1>1, <1>4, <1>5, <2>2 DEF FillFromTrades
  <2> QED
    BY <2>1, <2>2
<1>7. TypeOK'
  BY <1>1, <1>6 DEF BufferInv, TypeOK
<1>8. PassOK'
  BY <1>1, <1>2 DEF BufferInv, PassOK
<1>9. LatestPricesKept'
  <2> SUFFICES ASSUME NEW q \in Symbols
               PROVE  Latest(buffer'[q], Shorter(told'[q], BufferSize[q]))
                        = Latest(told'[q], Shorter(told'[q], BufferSize[q]))
    BY DEF LatestPricesKept, Shorter
  <2>1. buffer'[q] \in Seq(Nat) /\ told'[q] = <<>> /\ BufferSize[q] \in Nat
    BY <1>1, <1>2, <1>7, BufferType, SizeAssumption DEF TypeOK
  <2>2. Shorter(<<>>, BufferSize[q]) = 0 /\ <<>> \in Seq(Nat)
    BY <2>1 DEF Shorter
  <2> QED
    BY <2>1, <2>2, LatestNone
<1> QED
  BY <1>7, <1>8, <1>9

LEMMA HearBuffer ==
  ASSUME BufferInv, NEW g \in Passes, Hear(g)
  PROVE  TypeOK' /\ PassOK' /\ LatestPricesKept'
<1> DEFINE m == heard[g] + 1
           q == feed[m].symbol
<1>1. /\ streamer[g] = "live" /\ heard[g] < Len(feed)
      /\ heard' = [heard EXCEPT ![g] = m]
      /\ saving' = saving \union {[by |-> g, message |-> m]}
      /\ UNCHANGED <<feed, pass, database, todo, streamer, since, trades, bars>>
      /\ IF g = pass
           THEN /\ buffer' = [buffer EXCEPT ![q] =
                                AddPrice(buffer[q], m, BufferSize[q])]
                /\ told' = [told EXCEPT ![q] = Append(told[q], m)]
           ELSE UNCHANGED <<buffer, told>>
  BY DEF Hear, tables
<1>2. /\ heard \in [Passes -> 0..Len(feed)] /\ feed \in Seq(Subjects)
      /\ Len(feed) \in Nat /\ saving \subseteq Task
      /\ buffer \in [Symbols -> Seq(1..Len(feed))]
      /\ told \in [Symbols -> Seq(1..Len(feed))]
      /\ \A s \in Symbols : Len(buffer[s]) <= BufferSize[s]
  BY DEF BufferInv, TypeOK
<1>3. m \in 1..Len(feed) /\ m \in Nat /\ q \in Symbols
  <2>1. m \in 1..Len(feed) /\ m \in Nat
    BY <1>1, <1>2
  <2>2. feed[m] \in Subjects
    BY <1>2, <2>1
  <2> QED
    BY <2>1, <2>2, SubjectsAssumption
<1> HIDE DEF m, q
<1>4. heard' \in [Passes -> 0..Len(feed)] /\ saving' \subseteq Task
  BY <1>1, <1>2, <1>3 DEF Task
<1>5. PassOK'
  <2>1. g = pass => streamer[pass] # "none"
    BY <1>1
  <2> QED
    BY <1>1, <2>1 DEF BufferInv, PassOK, Filled
<1>6. CASE g # pass
  <2>1. UNCHANGED <<buffer, told>>
    BY <1>1, <1>6
  <2>2. TypeOK'
    BY <1>1, <1>4, <2>1 DEF BufferInv, TypeOK
  <2> QED
    BY <1>5, <2>1, <2>2, BufferStays DEF BufferInv
<1>7. CASE g = pass
  <2> DEFINE b == AddPrice(buffer[q], m, BufferSize[q])
             h == Append(told[q], m)
  <2>1. buffer' = [buffer EXCEPT ![q] = b] /\ told' = [told EXCEPT ![q] = h]
    BY <1>1, <1>7
  <2>2. /\ buffer[q] \in Seq(1..Len(feed)) /\ told[q] \in Seq(1..Len(feed))
        /\ BufferSize[q] \in Nat /\ Len(buffer[q]) <= BufferSize[q]
        /\ buffer[q] \in Seq(Nat) /\ told[q] \in Seq(Nat)
    BY <1>3, BufferType DEF BufferInv
  <2>3. b \in Seq(1..Len(feed)) /\ Len(b) <= BufferSize[q]
    BY <1>3, <2>2, AddIsLatest
  <2>4. h \in Seq(1..Len(feed))
    BY <1>3, <2>2
  <2>5. Latest(b, Shorter(h, BufferSize[q])) = Latest(h, Shorter(h, BufferSize[q]))
    <3>1. Latest(buffer[q], Shorter(told[q], BufferSize[q]))
            = Latest(told[q], Shorter(told[q], BufferSize[q]))
      BY <1>3 DEF BufferInv, LatestPricesKept, Shorter
    <3> QED
      BY <1>3, <2>2, <3>1, AddKeepsEnd
  <2> HIDE DEF b, h
  <2>6. TypeOK'
    BY <1>1, <1>2, <1>3, <1>4, <2>1, <2>3, <2>4 DEF BufferInv, TypeOK
  <2>7. LatestPricesKept'
    <3> SUFFICES ASSUME NEW s \in Symbols
                 PROVE  Latest(buffer'[s], Shorter(told'[s], BufferSize[s]))
                          = Latest(told'[s], Shorter(told'[s], BufferSize[s]))
      BY DEF LatestPricesKept, Shorter
    <3>1. CASE s = q
      BY <1>2, <1>3, <2>1, <2>5, <3>1
    <3>2. CASE s # q
      <4>1. buffer'[s] = buffer[s] /\ told'[s] = told[s]
        BY <1>2, <2>1, <3>2
      <4> QED
        BY <4>1 DEF BufferInv, LatestPricesKept, Shorter
    <3> QED
      BY <3>1, <3>2
  <2> QED
    BY <1>5, <2>6, <2>7
<1> QED
  BY <1>6, <1>7

LEMMA NewPassBuffer ==
  ASSUME BufferInv, Restart \/ Crash
  PROVE  TypeOK' /\ PassOK' /\ LatestPricesKept'
<1>1. /\ pass < MaxPasses /\ pass' = pass + 1
      /\ todo' = [s \in Symbols |-> "bars"]
      /\ buffer' = [s \in Symbols |-> <<>>]
      /\ told' = [s \in Symbols |-> <<>>]
      /\ saving' \subseteq saving
      /\ UNCHANGED <<feed, database, since, heard, trades, bars>>
  BY DEF Restart, Crash, NewPass, streams, tables
<1>2. /\ streamer \in [Passes -> {"none", "connecting", "live", "ended"}]
      /\ pass \in Passes /\ pass' \in Passes
      /\ saving \subseteq Task
  BY <1>1, BoundsAssumption DEF BufferInv, TypeOK, Passes
<1>3. /\ streamer' \in [Passes -> {"none", "connecting", "live", "ended"}]
      /\ \A g \in Passes : streamer[g] = "none" => streamer'[g] = "none"
  <2>1. CASE Restart
    BY <1>2, <2>1 DEF Restart, streams
  <2>2. CASE Crash
    BY <1>2, <2>2 DEF Crash
  <2> QED
    BY <2>1, <2>2
<1>4. TypeOK'
  <2>1. \A s \in Symbols : BufferSize[s] \in Nat
    BY SizeAssumption
  <2> QED
    BY <1>1, <1>2, <1>3, <2>1 DEF BufferInv, TypeOK
<1>5. PassOK'
  <2>1. \A g \in Passes : g > pass => streamer[g] = "none"
    BY DEF BufferInv, PassOK
  <2>2. \A g \in Passes : g > pass' => g > pass
    BY <1>1, <1>2 DEF Passes
  <2>3. pass' > pass
    BY <1>1, <1>2 DEF Passes
  <2> QED
    BY <1>1, <1>2, <1>3, <2>1, <2>2, <2>3 DEF PassOK
<1>6. LatestPricesKept'
  BY <1>1 DEF LatestPricesKept
<1> QED
  BY <1>4, <1>5, <1>6

\* Steps of the market, the streamers and the save tasks that touch no buffer.
LEMMA OtherBuffer ==
  ASSUME BufferInv, SaveInv',
         \/ OpenDatabase \/ StartStreamer \/ Send \/ UNCHANGED vars
         \/ \E g \in Passes : Connect(g) \/ Disconnect(g)
         \/ \E task \in saving : Save(task) \/ SaveFails(task)
  PROVE  TypeOK' /\ PassOK' /\ LatestPricesKept'
<1>1. /\ TypeOK /\ PassOK /\ LatestPricesKept /\ SaveInv
      /\ feed \in Seq(Subjects) /\ Len(feed) \in Nat /\ pass \in Passes
  BY DEF BufferInv, TypeOK
<1>2. ASSUME UNCHANGED <<buffer, told, todo, pass>>,
             \A g \in Passes : streamer[g] = "none" /\ g # pass => streamer'[g] = "none",
             streamer[pass] = "none" => streamer'[pass] = "none" \/ Filled,
             streamer'[pass] = "none" => streamer[pass] = "none"
      PROVE  PassOK' /\ LatestPricesKept'
  <2>1. pass \in Nat /\ \A g \in Passes : g > pass => g # pass
    BY <1>1 DEF Passes
  <2>2. PassOK'
    BY <1>1, <1>2, <2>1 DEF PassOK, Filled
  <2> QED
    BY <1>1, <1>2, <2>2, BufferStays
<1>3. CASE OpenDatabase
  <2>1. /\ database' \in [Passes -> {"closed", "open", "dummy"}]
        /\ UNCHANGED <<feed, pass, todo, buffer, streamer, since, heard, told,
                       saving, trades, bars>>
    BY <1>1, <1>3 DEF TypeOK, OpenDatabase, streams, tables
  <2>2. TypeOK'
    BY <1>1, <2>1 DEF TypeOK
  <2> QED
    BY <1>2, <2>1, <2>2
<1>4. CASE StartStreamer
  <2>1. /\ Filled /\ streamer' = [streamer EXCEPT ![pass] = "connecting"]
        /\ UNCHANGED <<feed, pass, database, todo, buffer, since, heard, told,
                       saving, trades, bars>>
    BY <1>4 DEF StartStreamer, tables
  <2>2. TypeOK'
    BY <1>1, <2>1 DEF TypeOK
  <2>3. /\ \A g \in Passes : g # pass => streamer'[g] = streamer[g]
        /\ streamer'[pass] = "connecting"
    BY <1>1, <2>1 DEF TypeOK
  <2> QED
    BY <1>2, <2>1, <2>2, <2>3
<1>5. CASE Send
  <2>1. PICK subject \in Subjects : feed' = Append(feed, subject)
    BY <1>5 DEF Send
  <2>2. UNCHANGED <<pass, database, todo, buffer, streamer, since, heard, told,
                    saving, trades, bars>>
    BY <1>5 DEF Send, streams, tables
  <2>3. feed' \in Seq(Subjects) /\ Len(feed') = Len(feed) + 1
    BY <1>1, <2>1
  <2>4. 0..Len(feed) \subseteq 0..Len(feed') /\ 1..Len(feed) \subseteq 1..Len(feed')
    BY <1>1, <2>3
  <2>5. /\ since' \in [Passes -> 0..Len(feed')]
        /\ heard' \in [Passes -> 0..Len(feed')]
    BY <1>1, <2>2, <2>4 DEF TypeOK
  <2>6. /\ buffer' \in [Symbols -> Seq(1..Len(feed'))]
        /\ told' \in [Symbols -> Seq(1..Len(feed'))]
    <3>1. ASSUME NEW S, NEW T, S \subseteq T, NEW f \in [Symbols -> Seq(S)]
          PROVE  f \in [Symbols -> Seq(T)]
      BY <3>1
    <3>2. /\ buffer \in [Symbols -> Seq(1..Len(feed))]
          /\ told \in [Symbols -> Seq(1..Len(feed))]
      BY <1>1 DEF TypeOK
    <3> QED
      BY <2>2, <2>4, <3>1, <3>2
  <2>7. TypeOK'
    BY <1>1, <2>2, <2>3, <2>5, <2>6 DEF TypeOK
  <2> QED
    BY <1>2, <2>2, <2>7
<1>6. ASSUME NEW g \in Passes, Connect(g) PROVE TypeOK' /\ PassOK' /\ LatestPricesKept'
  <2>1. /\ streamer[g] # "none"
        /\ streamer' = [streamer EXCEPT ![g] = "live"]
        /\ since' = [since EXCEPT ![g] = Len(feed)]
        /\ heard' = [heard EXCEPT ![g] = Len(feed)]
        /\ UNCHANGED <<feed, pass, database, todo, buffer, told, saving, trades,
                       bars>>
    BY <1>6 DEF Connect, tables
  <2>2. Len(feed) \in 0..Len(feed)
    BY <1>1
  <2>3. TypeOK'
    BY <1>1, <2>1, <2>2 DEF TypeOK
  <2>4. \A h \in Passes : streamer'[h] = "none" <=> streamer[h] = "none"
    BY <1>1, <2>1 DEF TypeOK
  <2> QED
    BY <1>1, <1>2, <2>1, <2>3, <2>4
<1>7. ASSUME NEW g \in Passes, Disconnect(g) PROVE TypeOK' /\ PassOK' /\ LatestPricesKept'
  <2>1. /\ streamer[g] # "none"
        /\ streamer' = [streamer EXCEPT ![g] = "ended"]
        /\ UNCHANGED <<feed, pass, database, todo, buffer, since, heard, told,
                       saving, trades, bars>>
    BY <1>7 DEF Disconnect, tables
  <2>2. TypeOK'
    BY <1>1, <2>1 DEF TypeOK
  <2>3. \A h \in Passes : streamer'[h] = "none" <=> streamer[h] = "none"
    BY <1>1, <2>1 DEF TypeOK
  <2> QED
    BY <1>1, <1>2, <2>1, <2>2, <2>3
<1>8. ASSUME NEW task \in saving, Save(task) \/ SaveFails(task)
      PROVE  TypeOK' /\ PassOK' /\ LatestPricesKept'
  <2>1. /\ saving' = saving \ {task}
        /\ UNCHANGED <<feed, pass, database, todo, buffer, streamer, since, heard,
                       told>>
        /\ Insert(task) \/ UNCHANGED <<trades, bars>>
    BY <1>8 DEF Save, SaveFails, streams, tables
  <2>2. trades' \in [Symbols -> Seq(Task)] /\ bars' \in [Symbols -> Seq(Task)]
    <3>1. CASE Insert(task)
      <4>1. task \in Task /\ task.message \in 1..heard[task.by] /\ task.by \in Passes
        BY <1>1 DEF SaveInv, SavingOK, Task
      <4>2. task.message \in 1..Len(feed)
        BY <1>1, <4>1 DEF SaveInv, RangeOK
      <4>3. feed[task.message].symbol \in Symbols
        <5>1. feed[task.message] \in Subjects
          BY <1>1, <4>2
        <5> QED
          BY <5>1, SubjectsAssumption
      <4> DEFINE q == feed[task.message].symbol
      <4>4. \/ trades' = [trades EXCEPT ![q] = Append(trades[q], task)]
               /\ bars' = bars
            \/ bars' = [bars EXCEPT ![q] = Append(bars[q], task)]
               /\ trades' = trades
        BY <3>1 DEF Insert
      <4>5. trades \in [Symbols -> Seq(Task)] /\ bars \in [Symbols -> Seq(Task)]
        BY <1>1 DEF TypeOK
      <4>6. q \in Symbols
        BY <4>3
      <4> HIDE DEF q
      <4>7. Append(trades[q], task) \in Seq(Task) /\ Append(bars[q], task) \in Seq(Task)
        BY <4>1, <4>5, <4>6
      <4> QED
        BY <4>4, <4>5, <4>7
    <3>2. CASE UNCHANGED <<trades, bars>>
      BY <1>1, <3>2 DEF TypeOK
    <3> QED
      BY <2>1, <3>1, <3>2
  <2>3. TypeOK'
    BY <1>1, <2>1, <2>2 DEF TypeOK
  <2> QED
    BY <1>1, <1>2, <2>1, <2>3
<1>9. CASE UNCHANGED vars
  <2>1. UNCHANGED <<feed, pass, database, todo, buffer, streamer, since, heard,
                    told, saving, trades, bars>>
    BY <1>9 DEF vars, streams, tables
  <2>2. TypeOK'
    BY <1>1, <2>1 DEF TypeOK
  <2> QED
    BY <1>2, <2>1, <2>2
<1> QED
  BY <1>3, <1>4, <1>5, <1>6, <1>7, <1>8, <1>9

LEMMA NextBuffer == BufferInv /\ [Next]_vars => BufferInv'
<1> SUFFICES ASSUME BufferInv, [Next]_vars PROVE BufferInv'
  OBVIOUS
<1>1. SaveInv'
  BY NextSave DEF BufferInv
<1>2. ASSUME NEW s \in Symbols, FillFromBars(s) \/ FillFromTrades(s)
      PROVE  BufferInv'
  BY <1>1, <1>2, FillBuffer DEF BufferInv
<1>3. ASSUME NEW g \in Passes, Hear(g) PROVE BufferInv'
  BY <1>1, <1>3, HearBuffer DEF BufferInv
<1>4. CASE Restart \/ Crash
  BY <1>1, <1>4, NewPassBuffer DEF BufferInv
<1>5. CASE \/ OpenDatabase \/ StartStreamer \/ Send \/ UNCHANGED vars
           \/ \E g \in Passes : Connect(g) \/ Disconnect(g)
           \/ \E task \in saving : Save(task) \/ SaveFails(task)
  BY <1>1, <1>5, OtherBuffer DEF BufferInv
<1> QED
  BY <1>2, <1>3, <1>4, <1>5 DEF Next

LEMMA AlwaysBuffer == Spec => []BufferInv
<1> QED
  BY InitBuffer, NextBuffer, PTL DEF Spec

\* A buffer never holds more than its size, whatever it is filled with and
\* whoever adds to it (data_buffer.rs:36-47, 90-143).
THEOREM MarketDataTypeOK == Spec => []TypeOK
<1>1. BufferInv => TypeOK
  BY DEF BufferInv
<1> QED
  BY <1>1, AlwaysBuffer, PTL

\* The buffer ends with the latest prices its streamer has heard, for all
\* symbols, sizes and feeds, whatever restarts, crashes and failed queries do
\* (data_buffer.rs:36-47, 90-143).
THEOREM BufferKeepsLatest == Spec => []LatestPricesKept
<1>1. BufferInv => LatestPricesKept
  BY DEF BufferInv
<1> QED
  BY <1>1, AlwaysBuffer, PTL

============================================================================
