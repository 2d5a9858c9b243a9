---------------------------- MODULE Aggregation ----------------------------
(***************************************************************************)
(* The aggregation of one symbol (src/src/aggregator.rs and the aggregate  *)
(* queries of src/src/data/db.rs): at once and then once in an interval, a *)
(* task groups the rows of the last interval by their day and replaces the *)
(* row of each of those days, first for the trades, then for the bars.     *)
(*                                                                         *)
(* Time passes in hours, at any point, so every query may come late.  Each *)
(* query is one statement of the database, with one NOW().  An aggregated  *)
(* row is kept as the set of the rows it was computed from: its average,   *)
(* sum and count, or its open, high, low, close and volume, follow from    *)
(* them.  The clock of the database and that of the ticker are the same.   *)
(***************************************************************************)
EXTENDS Integers, Sequences, FiniteSets

CONSTANTS
  Day,        \* hours of a day
  Intervals,  \* values of aggregation_interval_hours
  MaxTime,    \* bound: hours
  MaxRows,    \* bound: rows of each table (trades, bars)
  MaxStops    \* bound: times the task is aborted or the process ends

ASSUME DayAssumption == Day \in Nat \ {0}
ASSUME IntervalsAssumption == Intervals \subseteq Nat
ASSUME BoundsAssumption == MaxTime \in Nat /\ MaxStops \in Nat

Tables == {"trades", "bars"}

VARIABLES
  configured,  \* aggregation_interval_hours of the symbol
  now,         \* hours since some midnight
  rows,        \* the timestamps of each table's rows
  days,        \* for each table, the aggregated row of each day
  pc,          \* where the task stands
  due,         \* when the ticker ticks next
  orphan,      \* the query an aborted task has left with the database
  stops,       \* times the task was stopped
  last,        \* history: when a table was aggregated last, or -1
  counted,     \* history: the rows that have been in an aggregated row
  course       \* history: for each table, the unbroken course of its queries

task == <<pc, due>>
tables == <<rows, days, last, counted>>
vars == <<configured, now, tables, task, orphan, stops, course>>

Interval == IF configured > 1 THEN configured ELSE 1

DayOf(time) == time \div Day

Days == 0..DayOf(MaxTime)

----------------------------------------------------------------------------
(* The query.                                                              *)

\* Mutated form of Window: the hour an interval ago is left out.
WindowOpen(table) ==
  {i \in DOMAIN rows[table] : rows[table][i] > now - Interval}

\* WHERE timestamp >= DATE_SUB(NOW(), INTERVAL ... HOUR)
Window(table) ==
  {i \in DOMAIN rows[table] : rows[table][i] >= now - Interval}

\* Mutated form of GroupOf: what is new belongs to today.
GroupOfToday(table, day) ==
  IF day = DayOf(now) THEN Window(table) ELSE {}

\* GROUP BY symbol, DATE(timestamp)
GroupOf(table, day) ==
  {i \in Window(table) : DayOf(rows[table][i]) = day}

\* Mutated form of Replace: INSERT IGNORE, a day that has a row keeps it.
ReplaceUnlessThere(old, group) == IF old = {} THEN group ELSE old

\* ON DUPLICATE KEY UPDATE: a day without rows in the window keeps its row.
Replace(old, group) == IF group = {} THEN old ELSE group

Aggregate(table) ==
  /\ days' = [days EXCEPT ![table] =
                [d \in Days |-> Replace(days[table][d], GroupOf(table, d))]]
  /\ counted' = [counted EXCEPT ![table] =
                   @ \union UNION {GroupOf(table, d) : d \in Days}]
  /\ last' = [last EXCEPT ![table] = now]
  /\ UNCHANGED rows

----------------------------------------------------------------------------
(* The courses.  The queries of a table make a course as long as one task  *)
(* sends them, none of them fails and none comes later after its tick than *)
(* the one before came after its own.  A course is known by the times of   *)
(* its first and its last query and by the delay of the last one.          *)

NoCourse == [since |-> -1, upto |-> -1, delay |-> 0]

\* A query runs now, for the tick an interval before the next one.
Continued(table) ==
  LET delay == now - (due - Interval)
      before == course[table]
  IN  IF before.since >= 0 /\ delay <= before.delay
        THEN [since |-> before.since, upto |-> now, delay |-> delay]
        ELSE [since |-> now, upto |-> now, delay |-> delay]

----------------------------------------------------------------------------
(* The task.                                                               *)

\* The first tick of an interval is immediate.
Start ==
  /\ pc = "stopped"
  /\ pc' = "waiting"
  /\ due' = now
  /\ UNCHANGED <<configured, now, tables, orphan, stops, course>>

\* Mutated form of Tick: a tick that comes late moves the following ones.
TickAnew ==
  /\ pc = "waiting"
  /\ now >= due
  /\ pc' = "trades"
  /\ due' = now + Interval
  /\ UNCHANGED <<configured, now, tables, orphan, stops, course>>

\* A tick that comes late does not move the following ones.
Tick ==
  /\ pc = "waiting"
  /\ now >= due
  /\ pc' = "trades"
  /\ due' = due + Interval
  /\ UNCHANGED <<configured, now, tables, orphan, stops, course>>

After(table) == IF table = "trades" THEN "bars" ELSE "waiting"

\* The database runs the query, whether or not its answer arrives.
Query ==
  /\ pc \in Tables
  /\ Aggregate(pc)
  /\ course' = [course EXCEPT ![pc] = Continued(pc)]
  /\ pc' = After(pc)
  /\ UNCHANGED <<configured, now, due, orphan, stops>>

\* The error is logged, and the next query or tick awaited.
QueryFails ==
  /\ pc \in Tables
  /\ course' = [course EXCEPT ![pc] = NoCourse]
  /\ pc' = After(pc)
  /\ UNCHANGED <<configured, now, due, tables, orphan, stops>>

\* The task is aborted or the process ends; a query that it waits for may stay
\* with the database.
Stop ==
  /\ pc # "stopped"
  /\ stops < MaxStops
  /\ stops' = stops + 1
  /\ pc' = "stopped"
  /\ orphan' \in {orphan} \union ({pc} \intersect Tables)
  /\ course' = [t \in Tables |-> NoCourse]
  /\ UNCHANGED <<configured, now, due, tables>>

OrphanRuns ==
  /\ orphan \in Tables
  /\ Aggregate(orphan)
  /\ orphan' = "none"
  /\ UNCHANGED <<configured, now, task, stops, course>>

----------------------------------------------------------------------------
(* The clock, and the save tasks of the streamers.                         *)

HourPasses ==
  /\ now < MaxTime
  /\ now' = now + 1
  /\ UNCHANGED <<configured, tables, task, orphan, stops, course>>

\* timestamp DATETIME DEFAULT CURRENT_TIMESTAMP
Insert(table) ==
  /\ Len(rows[table]) < MaxRows[table]
  /\ rows' = [rows EXCEPT ![table] = Append(@, now)]
  /\ UNCHANGED <<configured, now, days, last, counted, task, orphan, stops,
                 course>>

Init ==
  /\ configured \in Intervals
  /\ now = 0
  /\ rows = [t \in Tables |-> <<>>]
  /\ days = [t \in Tables |-> [d \in Days |-> {}]]
  /\ pc = "stopped"
  /\ due = 0
  /\ orphan = "none"
  /\ stops = 0
  /\ last = [t \in Tables |-> -1]
  /\ counted = [t \in Tables |-> {}]
  /\ course = [t \in Tables |-> NoCourse]

Next ==
  \/ Start
  \/ Tick
  \/ Query
  \/ QueryFails
  \/ Stop
  \/ OrphanRuns
  \/ HourPasses
  \/ \E t \in Tables : Insert(t)

Spec == Init /\ [][Next]_vars

----------------------------------------------------------------------------
(* What the aggregation promises.                                          *)

\* Type invariant: every variable stays in its range, and the row of a day is
\* made of rows of that day (db.rs:220-234, 246-264).
TypeOK ==
  /\ configured \in Intervals
  /\ now \in 0..MaxTime
  /\ rows \in [Tables -> Seq(0..now)]
  /\ pc \in Tables \union {"stopped", "waiting"}
  /\ due \in Nat
  /\ orphan \in Tables \union {"none"}
  /\ stops \in 0..MaxStops
  /\ days \in [Tables -> [Days -> SUBSET Nat]]
  /\ last \in [Tables -> -1..now]
  /\ counted \in [Tables -> SUBSET Nat]
  /\ course \in [Tables -> [since : -1..now, upto : -1..now, delay : Int]]
  /\ \A t \in Tables :
       /\ counted[t] \subseteq DOMAIN rows[t]
       /\ \A d \in Days : days[t][d] \subseteq
            {i \in DOMAIN rows[t] : DayOf(rows[t][i]) = d}

\* A window of a day or more: the aggregated row of the day of the last query
\* holds everything that was saved on that day before the hour of the query,
\* however often the day's row was replaced, queries failed, came late or were
\* left behind by an aborted task (db.rs:227-234, aggregator.rs:27-56).
TodayComplete ==
  Interval >= Day =>
    \A t \in Tables :
      last[t] >= 0 =>
        {i \in DOMAIN rows[t] :
           DayOf(rows[t][i]) = DayOf(last[t]) /\ rows[t][i] < last[t]}
          \subseteq days[t][DayOf(last[t])]

\* The windows of a course leave no gap: everything that was saved from an
\* interval before its first query on and before the hour of its last one has been
\* in an aggregated row, however late the ticks and the queries came.  A query
\* that is late does not move those after it, and the ticker and the window count
\* the same hours (aggregator.rs:24-30, db.rs:229, 257).
NothingFallsBetween ==
  \A t \in Tables :
    course[t].since >= 0 =>
      \A i \in DOMAIN rows[t] :
        /\ rows[t][i] >= course[t].since - Interval
        /\ rows[t][i] < course[t].upto
        => i \in counted[t]

============================================================================
