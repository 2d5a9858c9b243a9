---------------------------- MODULE MarketData ----------------------------
(***************************************************************************)
(* Market data: the streamer (src/src/trader/streamer.rs), the price buffer*)
(* (src/src/data/data_buffer.rs) and the tables of trades and bars         *)
(* (src/src/data/db.rs).                                                   *)
(*                                                                         *)
(* A message of the market is known by its place in the feed, which stands *)
(* for its price.  Every connected streamer hears every message, in order, *)
(* adds its price to the buffer of its own pass and saves it in a task of  *)
(* its own.  A new pass begins with an empty buffer, which it fills from   *)
(* the tables; the streamers and save tasks of earlier passes go on.       *)
(*                                                                         *)
(* The database is the same in every pass, and its tables return their rows*)
(* in the order they were inserted, though no query asks for it.  A pass   *)
(* that cannot open it works with a pool that never connects.  A change of *)
(* the symbols is not followed: every pass has the same buffers and the    *)
(* same subscriptions.  Messages that are neither trades nor bars, or that *)
(* name a symbol without a buffer, change nothing but the tables and are   *)
(* left out.                                                               *)
(***************************************************************************)
EXTENDS PriceBuffer

CONSTANTS
  Symbols,
  BufferSize,   \* buffer_size of each symbol
  Subjects,     \* kind and symbol of the messages subscribed to
  MaxMessages,  \* bound: messages the market sends
  MaxPasses     \* bound: passes of the main loop, over all runs of the process

ASSUME SizeAssumption == BufferSize \in [Symbols -> Nat]
ASSUME SubjectsAssumption ==
  Subjects \subseteq [kind : {"trade", "bar"}, symbol : Symbols]
ASSUME BoundsAssumption == MaxMessages \in Nat /\ MaxPasses \in Nat \ {0}

Passes == 1..MaxPasses

VARIABLES
  feed,      \* what the market has sent
  pass,      \* the latest pass of the main loop
  database,  \* what each pass has for a database
  todo,      \* where the pass has got to with filling each buffer
  buffer,    \* the prices of the latest pass, for each symbol
  streamer,  \* the streamer of each pass
  since,     \* length of the feed when it connected
  heard,     \* the last message it has heard
  told,      \* history: what the latest streamer has heard of each symbol
  saving,    \* save tasks under way: the streamer and the message
  trades,    \* the tables, for each symbol
  bars

streams == <<streamer, since, heard>>
tables == <<trades, bars>>
vars == <<feed, pass, database, todo, buffer, streams, told, saving, tables>>

Filled == \A s \in Symbols : todo[s] = "done"

----------------------------------------------------------------------------
(* The main loop: fill the buffer, start the streamer, begin again.        *)

\* The connection, the database or one of its tables may fail to come about.
OpenDatabase ==
  /\ database[pass] = "closed"
  /\ \E outcome \in {"open", "dummy"} :
       database' = [database EXCEPT ![pass] = outcome]
  /\ UNCHANGED <<feed, pass, todo, buffer, streams, told, saving, tables>>

Messages(rows) == [i \in DOMAIN rows |-> rows[i].message]

\* The last rows of a table, oldest first.
Fill(s, rows) ==
  /\ database[pass] = "open"
  /\ rows # <<>>
  /\ buffer' = [buffer EXCEPT ![s] = Latest(Messages(rows), BufferSize[s])]
  /\ todo' = [todo EXCEPT ![s] = "done"]

\* One symbol after the other; no bars, and a query that fails, lead to trades.
FillFromBars(s) ==
  /\ database[pass] # "closed"
  /\ todo[s] = "bars"
  /\ \A q \in Symbols : todo[q] # "trades"
  /\ \/ Fill(s, bars[s])
     \/ todo' = [todo EXCEPT ![s] = "trades"] /\ UNCHANGED buffer
  /\ UNCHANGED <<feed, pass, database, streams, told, saving, tables>>

\* No trades, and a query that fails, leave the buffer empty.
FillFromTrades(s) ==
  /\ todo[s] = "trades"
  /\ \/ Fill(s, trades[s])
     \/ todo' = [todo EXCEPT ![s] = "done"] /\ UNCHANGED buffer
  /\ UNCHANGED <<feed, pass, database, streams, told, saving, tables>>

StartStreamer ==
  /\ Filled
  /\ streamer[pass] = "none"
  /\ streamer' = [streamer EXCEPT ![pass] = "connecting"]
  /\ UNCHANGED <<feed, pass, database, todo, buffer, since, heard, told, saving,
                 tables>>

NewPass ==
  /\ pass < MaxPasses
  /\ pass' = pass + 1
  /\ todo' = [s \in Symbols |-> "bars"]
  /\ buffer' = [s \in Symbols |-> <<>>]
  /\ told' = [s \in Symbols |-> <<>>]

\* A change of the configuration: the streamer and the save tasks go on.
Restart ==
  /\ streamer[pass] # "none"
  /\ NewPass
  /\ UNCHANGED <<feed, database, streams, saving, tables>>

\* The process ends, at any moment, and is started again: what was to be saved
\* is lost.
Crash ==
  /\ NewPass
  /\ streamer' = [g \in Passes |-> IF streamer[g] = "none" THEN "none" ELSE "ended"]
  /\ saving' = {}
  /\ UNCHANGED <<feed, database, since, heard, tables>>

----------------------------------------------------------------------------
(* The streamers.                                                          *)

Send ==
  /\ Len(feed) < MaxMessages
  /\ \E subject \in Subjects : feed' = Append(feed, subject)
  /\ UNCHANGED <<pass, database, todo, buffer, streams, told, saving, tables>>

Connect(g) ==
  /\ streamer[g] = "connecting"
  /\ streamer' = [streamer EXCEPT ![g] = "live"]
  /\ since' = [since EXCEPT ![g] = Len(feed)]
  /\ heard' = [heard EXCEPT ![g] = Len(feed)]
  /\ UNCHANGED <<feed, pass, database, todo, buffer, told, saving, tables>>

\* The connection fails or closes; nobody connects again.
Disconnect(g) ==
  /\ streamer[g] \in {"connecting", "live"}
  /\ streamer' = [streamer EXCEPT ![g] = "ended"]
  /\ UNCHANGED <<feed, pass, database, todo, buffer, since, heard, told, saving,
                 tables>>

\* A streamer of an earlier pass adds to a buffer that nobody reads any more.
Hear(g) ==
  /\ streamer[g] = "live"
  /\ heard[g] < Len(feed)
  /\ heard' = [heard EXCEPT ![g] = @ + 1]
  /\ LET message == heard[g] + 1
         s == feed[message].symbol
     IN  /\ IF g = pass
              THEN /\ buffer' = [buffer EXCEPT ![s] =
                                   AddPrice(@, message, BufferSize[s])]
                   /\ told' = [told EXCEPT ![s] = Append(@, message)]
              ELSE UNCHANGED <<buffer, told>>
         /\ saving' = saving \union {[by |-> g, message |-> message]}
  /\ UNCHANGED <<feed, pass, database, todo, streamer, since, tables>>

----------------------------------------------------------------------------
(* The save tasks.                                                         *)

Insert(task) ==
  LET subject == feed[task.message]
  IN  IF subject.kind = "trade"
        THEN /\ trades' = [trades EXCEPT ![subject.symbol] = Append(@, task)]
             /\ UNCHANGED bars
        ELSE /\ bars' = [bars EXCEPT ![subject.symbol] = Append(@, task)]
             /\ UNCHANGED trades

\* Mutated form of Save: an answer that got lost makes the task try again.
SaveUntilAnswered(task) ==
  /\ database[task.by] = "open"
  /\ Insert(task)
  /\ saving' \in {saving, saving \ {task}}
  /\ UNCHANGED <<feed, pass, database, todo, buffer, streams, told>>

\* The row is inserted, whether or not the database's answer arrives.
Save(task) ==
  /\ database[task.by] = "open"
  /\ Insert(task)
  /\ saving' = saving \ {task}
  /\ UNCHANGED <<feed, pass, database, todo, buffer, streams, told>>

SaveFails(task) ==
  /\ saving' = saving \ {task}
  /\ UNCHANGED <<feed, pass, database, todo, buffer, streams, told, tables>>

----------------------------------------------------------------------------
Init ==
  /\ feed = <<>>
  /\ pass = 1
  /\ database = [g \in Passes |-> "closed"]
  /\ todo = [s \in Symbols |-> "bars"]
  /\ buffer = [s \in Symbols |-> <<>>]
  /\ streamer = [g \in Passes |-> "none"]
  /\ since = [g \in Passes |-> 0]
  /\ heard = [g \in Passes |-> 0]
  /\ told = [s \in Symbols |-> <<>>]
  /\ saving = {}
  /\ trades = [s \in Symbols |-> <<>>]
  /\ bars = [s \in Symbols |-> <<>>]

Next ==
  \/ OpenDatabase
  \/ \E s \in Symbols : FillFromBars(s) \/ FillFromTrades(s)
  \/ StartStreamer
  \/ Restart
  \/ Crash
  \/ Send
  \/ \E g \in Passes : Connect(g) \/ Disconnect(g) \/ Hear(g)
  \/ \E task \in saving : Save(task) \/ SaveFails(task)

Spec == Init /\ [][Next]_vars

----------------------------------------------------------------------------
(* What the market data promise.                                           *)

Task == [by : Passes, message : Nat]

\* Type invariant: every variable stays in its range, and a buffer within its
\* size (data_buffer.rs:42-45).
TypeOK ==
  /\ feed \in Seq(Subjects)
  /\ pass \in Passes
  /\ database \in [Passes -> {"closed", "open", "dummy"}]
  /\ todo \in [Symbols -> {"bars", "trades", "done"}]
  /\ buffer \in [Symbols -> Seq(1..Len(feed))]
  /\ \A s \in Symbols : Len(buffer[s]) <= BufferSize[s]
  /\ streamer \in [Passes -> {"none", "connecting", "live", "ended"}]
  /\ since \in [Passes -> 0..Len(feed)]
  /\ heard \in [Passes -> 0..Len(feed)]
  /\ told \in [Symbols -> Seq(1..Len(feed))]
  /\ saving \subseteq Task
  /\ trades \in [Symbols -> Seq(Task)]
  /\ bars \in [Symbols -> Seq(Task)]

\* The trader's buffer ends with the latest prices its streamer has heard, in
\* order and without a gap, as many as fit, whatever it was filled with before
\* and while some of the prefill is still there (data_buffer.rs:36-47, 90-143).
\* Older streamers have buffers of their own, which nobody reads any more
\* (main.rs:101, 136).
LatestPricesKept ==
  \A s \in Symbols :
    LET n == IF Len(told[s]) <= BufferSize[s] THEN Len(told[s]) ELSE BufferSize[s]
    IN  Latest(buffer[s], n) = Latest(told[s], n)

Distinct(rows) == \A i, j \in DOMAIN rows : rows[i] = rows[j] => i = j

\* A row of a message that its streamer has heard and is not saving any more.
IsRow(row, kind, s) ==
  /\ row \notin saving
  /\ feed[row.message] = [kind |-> kind, symbol |-> s]
  /\ row.message <= heard[row.by]

\* However often the services restart, queries fail and answers get lost, a
\* streamer saves a message at most once, in the table of its kind and symbol
\* (streamer.rs:42-49, db.rs:155-179).
SavedAtMostOnce ==
  \A s \in Symbols :
    /\ Distinct(trades[s]) /\ Distinct(bars[s])
    /\ \A i \in DOMAIN trades[s] : IsRow(trades[s][i], "trade", s)
    /\ \A i \in DOMAIN bars[s] : IsRow(bars[s][i], "bar", s)

============================================================================
