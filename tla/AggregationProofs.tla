------------------------- MODULE AggregationProofs -------------------------
(***************************************************************************)
(* What the aggregated rows hold, for days and intervals of any length,    *)
(* any number of rows, of failures and of restarts.                        *)
(***************************************************************************)
EXTENDS Aggregation, TLAPS

----------------------------------------------------------------------------
(* Days.                                                                   *)

LEMMA DayType ==
  ASSUME NEW a \in Nat
  PROVE  DayOf(a) \in Nat
BY DayAssumption DEF DayOf

LEMMA DayGrows ==
  ASSUME NEW a \in Nat, NEW b \in Nat, a <= b
  PROVE  DayOf(a) <= DayOf(b)
BY DayAssumption DEF DayOf

\* Two times of one day are less than a day apart.
LEMMA SameDay ==
  ASSUME NEW a \in Nat, NEW b \in Nat, DayOf(a) = DayOf(b)
  PROVE  b - a < Day
BY DayAssumption DEF DayOf

----------------------------------------------------------------------------
(* The query.                                                              *)

\* The present tick has not come to the table's query yet.
Pending(t) == pc = t \/ (pc = "trades" /\ t = "bars")

\* The last query of a course came, by its delay, after the tick it belongs to.
CourseOK ==
  \A t \in Tables :
    course[t].since >= 0 =>
      /\ pc # "stopped"
      /\ course[t].upto = (due - (IF Pending(t) THEN 2 * Interval ELSE Interval))
                            + course[t].delay

IInv == TypeOK /\ TodayComplete /\ NothingFallsBetween /\ CourseOK

LEMMA IntervalType ==
  ASSUME configured \in Intervals
  PROVE  Interval \in Nat \ {0}
BY IntervalsAssumption DEF Interval

\* The time of a row.
LEMMA RowType ==
  ASSUME TypeOK, NEW t \in Tables, NEW i \in DOMAIN rows[t]
  PROVE  /\ rows[t][i] \in Nat /\ rows[t][i] <= now /\ now \in Nat
         /\ DayOf(rows[t][i]) \in Days /\ i \in Nat
<1>1. now \in Nat /\ now <= MaxTime /\ MaxTime \in Nat /\ rows[t] \in Seq(0..now)
  BY BoundsAssumption DEF TypeOK
<1>2. rows[t][i] \in 0..now /\ i \in Nat
  BY <1>1
<1>3. rows[t][i] \in Nat /\ rows[t][i] <= now /\ rows[t][i] <= MaxTime
  BY <1>1, <1>2
<1>4. DayOf(rows[t][i]) \in Nat /\ DayOf(MaxTime) \in Nat
      /\ DayOf(rows[t][i]) <= DayOf(MaxTime)
  BY <1>1, <1>3, DayType, DayGrows
<1> QED
  BY <1>1, <1>2, <1>3, <1>4 DEF Days

\* The day it is.
LEMMA TodayType ==
  ASSUME TypeOK
  PROVE  DayOf(now) \in Days
<1>1. now \in Nat /\ now <= MaxTime /\ MaxTime \in Nat
  BY BoundsAssumption DEF TypeOK
<1>2. DayOf(now) \in Nat /\ DayOf(MaxTime) \in Nat /\ DayOf(now) <= DayOf(MaxTime)
  BY <1>1, DayType, DayGrows
<1> QED
  BY <1>2 DEF Days

\* A query, of whichever task, keeps the promise for the table it aggregates,
\* counts what is in its window and leaves the other table alone.
LEMMA AggregateKeeps ==
  ASSUME IInv, NEW table \in Tables, Aggregate(table),
         UNCHANGED <<configured, now>>
  PROVE  /\ TodayComplete'
         /\ days' \in [Tables -> [Days -> SUBSET Nat]]
         /\ last' \in [Tables -> -1..now]
         /\ counted' \in [Tables -> SUBSET Nat]
         /\ rows' = rows
         /\ \A i \in DOMAIN rows[table] :
              rows[table][i] >= now - Interval => i \in counted'[table]
         /\ \A t \in Tables : counted[t] \subseteq counted'[t]
         /\ \A t \in Tables :
              /\ counted'[t] \subseteq DOMAIN rows[t]
              /\ \A d \in Days : days'[t][d] \subseteq
                   {i \in DOMAIN rows[t] : DayOf(rows[t][i]) = d}
<1> DEFINE group == [d \in Days |-> Replace(days[table][d], GroupOf(table, d))]
           all == UNION {GroupOf(table, d) : d \in Days}
<1>1. /\ days \in [Tables -> [Days -> SUBSET Nat]]
      /\ last \in [Tables -> -1..now]
      /\ counted \in [Tables -> SUBSET Nat]
      /\ now \in Nat /\ configured \in Intervals
      /\ \A t \in Tables :
           /\ counted[t] \subseteq DOMAIN rows[t]
           /\ \A d \in Days : days[t][d] \subseteq
                {i \in DOMAIN rows[t] : DayOf(rows[t][i]) = d}
  <2>1. /\ days \in [Tables -> [Days -> SUBSET Nat]]
        /\ last \in [Tables -> -1..now]
        /\ counted \in [Tables -> SUBSET Nat]
        /\ configured \in Intervals
    BY DEF IInv, TypeOK
  <2>3. now \in Nat
    BY BoundsAssumption DEF IInv, TypeOK
  <2>2. \A t \in Tables :
          /\ counted[t] \subseteq DOMAIN rows[t]
          /\ \A d \in Days : days[t][d] \subseteq
               {i \in DOMAIN rows[t] : DayOf(rows[t][i]) = d}
    BY DEF IInv, TypeOK
  <2> QED
    BY <2>1, <2>2, <2>3
<1>2. Interval \in Nat \ {0} /\ Interval' = Interval
  BY <1>1, IntervalType DEF Interval
<1>3. /\ days' = [days EXCEPT ![table] = group]
      /\ counted' = [counted EXCEPT ![table] = counted[table] \union all]
      /\ last' = [last EXCEPT ![table] = now]
      /\ rows' = rows
  BY DEF Aggregate
<1>4. \A i \in DOMAIN rows[table] :
        /\ rows[table][i] \in Nat /\ rows[table][i] <= now
        /\ DayOf(rows[table][i]) \in Days /\ i \in Nat
  BY RowType DEF IInv
<1>5. /\ \A d \in Days : GroupOf(table, d) \subseteq
           {i \in DOMAIN rows[table] : DayOf(rows[table][i]) = d}
      /\ all \subseteq DOMAIN rows[table]
  BY DEF GroupOf, Window
<1>6. DOMAIN rows[table] \subseteq Nat
  BY <1>4
<1>7. group \in [Days -> SUBSET Nat]
  BY <1>1, <1>5, <1>6 DEF Replace
<1>8. \A i \in DOMAIN rows[table] : rows[table][i] >= now - Interval => i \in all
  BY <1>4 DEF GroupOf, Window
<1> HIDE DEF group, all
<1>9. \A d \in Days : group[d] \subseteq
        {i \in DOMAIN rows[table] : DayOf(rows[table][i]) = d}
  BY <1>1, <1>5 DEF group, Replace
<1>10. /\ days' \in [Tables -> [Days -> SUBSET Nat]]
       /\ last' \in [Tables -> -1..now]
       /\ counted' \in [Tables -> SUBSET Nat]
  <2>1. all \subseteq Nat /\ now \in -1..now
    BY <1>1, <1>5, <1>6
  <2> QED
    BY <1>1, <1>3, <1>7, <2>1
<1>11. /\ days'[table] = group
       /\ counted'[table] = counted[table] \union all
       /\ last'[table] = now
       /\ \A t \in Tables \ {table} :
            /\ days'[t] = days[t] /\ counted'[t] = counted[t]
            /\ last'[t] = last[t]
  BY <1>1, <1>3
<1>12. \A t \in Tables :
         /\ counted'[t] \subseteq DOMAIN rows[t]
         /\ \A d \in Days : days'[t][d] \subseteq
              {i \in DOMAIN rows[t] : DayOf(rows[t][i]) = d}
  <2> TAKE t \in Tables
  <2>1. CASE t = table
    BY <1>1, <1>5, <1>9, <1>11, <2>1
  <2>2. CASE t # table
    BY <1>1, <1>11, <2>2
  <2> QED
    BY <2>1, <2>2
<1>13. ASSUME Interval >= Day
       PROVE  {i \in DOMAIN rows[table] :
                 DayOf(rows[table][i]) = DayOf(now) /\ rows[table][i] < now}
                \subseteq group[DayOf(now)]
  <2>1. DayOf(now) \in Days
    BY TodayType DEF IInv
  <2>2. ASSUME NEW i \in DOMAIN rows[table],
               DayOf(rows[table][i]) = DayOf(now)
        PROVE  i \in GroupOf(table, DayOf(now))
    <3>1. now - rows[table][i] < Day /\ rows[table][i] \in Nat
      BY <1>1, <1>4, <2>2, SameDay
    <3>2. rows[table][i] >= now - Interval
      BY <1>1, <1>2, <1>13, <3>1, DayAssumption
    <3> QED
      BY <2>2, <3>2 DEF GroupOf, Window
  <2> QED
    BY <2>1, <2>2 DEF group, Replace
<1>14. TodayComplete'
  <2> SUFFICES ASSUME Interval >= Day, NEW t \in Tables, last'[t] >= 0
               PROVE  {i \in DOMAIN rows[t] :
                         DayOf(rows[t][i]) = DayOf(last'[t])
                           /\ rows[t][i] < last'[t]}
                        \subseteq days'[t][DayOf(last'[t])]
    BY <1>2, <1>3 DEF TodayComplete, DayOf
  <2>1. CASE t = table
    BY <1>11, <1>13, <2>1
  <2>2. CASE t # table
    BY <1>11, <2>2 DEF IInv, TodayComplete
  <2> QED
    BY <2>1, <2>2
<1>15. /\ \A i \in DOMAIN rows[table] :
            rows[table][i] >= now - Interval => i \in counted'[table]
       /\ \A t \in Tables : counted[t] \subseteq counted'[t]
  BY <1>8, <1>11
<1> QED
  BY <1>3, <1>10, <1>12, <1>14, <1>15

----------------------------------------------------------------------------
(* The steps.                                                              *)

LEMMA Initially == Init => IInv
<1> SUFFICES ASSUME Init PROVE IInv
  OBVIOUS
<1>1. TypeOK
  BY IntervalsAssumption, BoundsAssumption DEF Init, TypeOK, NoCourse
<1>2. \A t \in Tables : ~(course[t].since >= 0)
  BY DEF Init, NoCourse
<1>3. TodayComplete /\ NothingFallsBetween /\ CourseOK
  BY <1>2 DEF Init, TodayComplete, NothingFallsBetween, CourseOK
<1> QED
  BY <1>1, <1>3 DEF IInv

\* Steps that leave the tables and the courses alone keep the promises about them.
LEMMA TablesStay ==
  ASSUME IInv, UNCHANGED <<configured, rows, days, last, counted, course>>
  PROVE  TodayComplete' /\ NothingFallsBetween'
BY DEF IInv, TodayComplete, NothingFallsBetween, Interval, DayOf

\* A query that is not later after its tick than the one before it reaches back
\* to that one; any other begins a course, and reaches back an interval.
LEMMA QueryKeeps ==
  ASSUME IInv, Query
  PROVE  IInv'
<1> DEFINE delay == now - (due - Interval)
           before == course[pc]
           next == Continued(pc)
<1>1. /\ pc \in Tables /\ Aggregate(pc) /\ pc' = After(pc)
      /\ course' = [course EXCEPT ![pc] = next]
      /\ UNCHANGED <<configured, now, due, orphan, stops>>
  BY DEF Query
<1>2. /\ now \in Nat /\ due \in Nat /\ Interval \in Nat \ {0}
      /\ Interval' = Interval
      /\ course \in [Tables -> [since : -1..now, upto : -1..now, delay : Int]]
  BY <1>1, IntervalType DEF IInv, TypeOK, Interval
<1>3. /\ before.since \in -1..now /\ before.upto \in -1..now
      /\ before.delay \in Int /\ delay \in Int /\ now \in -1..now
  BY <1>1, <1>2
<1>4. /\ next = IF before.since >= 0 /\ delay <= before.delay
                  THEN [since |-> before.since, upto |-> now, delay |-> delay]
                  ELSE [since |-> now, upto |-> now, delay |-> delay]
      /\ next \in [since : -1..now, upto : -1..now, delay : Int]
      /\ next.upto = now /\ next.delay = delay
  <2> HIDE DEF before, delay
  <2>1. next = IF before.since >= 0 /\ delay <= before.delay
                 THEN [since |-> before.since, upto |-> now, delay |-> delay]
                 ELSE [since |-> now, upto |-> now, delay |-> delay]
    BY DEF Continued, before, delay
  <2> HIDE DEF next
  <2> QED
    BY <1>3, <2>1
<1> HIDE DEF next
<1>5. /\ course' \in [Tables -> [since : -1..now, upto : -1..now, delay : Int]]
      /\ course'[pc] = next
      /\ \A t \in Tables \ {pc} : course'[t] = course[t]
  BY <1>1, <1>2, <1>4
<1>6. TypeOK'
  <2>1. pc' \in Tables \union {"stopped", "waiting"}
    BY <1>1 DEF After, Tables
  <2>2. /\ days' \in [Tables -> [Days -> SUBSET Nat]]
        /\ last' \in [Tables -> -1..now]
        /\ counted' \in [Tables -> SUBSET Nat]
        /\ rows' = rows
        /\ \A t \in Tables :
             /\ counted'[t] \subseteq DOMAIN rows[t]
             /\ \A d \in Days : days'[t][d] \subseteq
                  {i \in DOMAIN rows[t] : DayOf(rows[t][i]) = d}
    BY <1>1, AggregateKeeps
  <2>3. /\ configured \in Intervals /\ now \in 0..MaxTime
        /\ rows \in [Tables -> Seq(0..now)] /\ due \in Nat
        /\ orphan \in Tables \union {"none"} /\ stops \in 0..MaxStops
    BY DEF IInv, TypeOK
  <2> HIDE DEF delay, before
  <2>4. /\ UNCHANGED <<configured, now, due, orphan, stops>>
        /\ course' \in [Tables -> [since : -1..now, upto : -1..now, delay : Int]]
    BY <1>1, <1>5
  <2> QED
    BY <2>1, <2>2, <2>3, <2>4 DEF TypeOK
<1>7. /\ rows' = rows
      /\ \A i \in DOMAIN rows[pc] :
           rows[pc][i] >= now - Interval => i \in counted'[pc]
      /\ \A t \in Tables : counted[t] \subseteq counted'[t]
      /\ TodayComplete'
  BY <1>1, AggregateKeeps
<1>8. ASSUME NEW i \in DOMAIN rows[pc],
             rows[pc][i] >= next.since - Interval, rows[pc][i] < now
      PROVE  i \in counted'[pc]
  <2>1. rows[pc][i] \in Nat
    BY <1>1, RowType DEF IInv
  <2>2. CASE before.since >= 0 /\ delay <= before.delay
    <3>1. next.since = before.since
      BY <1>4, <2>2
    <3>2. before.upto = (due - 2 * Interval) + before.delay
      BY <1>1, <2>2 DEF IInv, CourseOK, Pending
    <3>3. now <= before.upto + Interval
      <4> HIDE DEF before
      <4> QED
        BY <1>2, <1>3, <2>2, <3>2
    <3>4. CASE rows[pc][i] < before.upto
      <4>1. i \in counted[pc]
        BY <1>1, <1>8, <2>2, <3>1, <3>4 DEF IInv, NothingFallsBetween
      <4> QED
        BY <1>1, <1>7, <4>1
    <3>5. CASE ~(rows[pc][i] < before.upto)
      <4>1. rows[pc][i] >= now - Interval
        <5> HIDE DEF before, delay
        <5> QED
          BY <1>2, <1>3, <2>1, <3>3, <3>5
      <4> QED
        BY <1>7, <4>1
    <3> QED
      BY <3>4, <3>5
  <2>3. CASE ~(before.since >= 0 /\ delay <= before.delay)
    <3>1. next.since = now
      BY <1>4, <2>3
    <3> QED
      BY <1>7, <1>8, <3>1
  <2> QED
    BY <2>2, <2>3
<1>9. NothingFallsBetween'
  <2> SUFFICES ASSUME NEW t \in Tables, course'[t].since >= 0,
                      NEW i \in DOMAIN rows[t],
                      rows[t][i] >= course'[t].since - Interval,
                      rows[t][i] < course'[t].upto
               PROVE  i \in counted'[t]
    BY <1>2, <1>7 DEF NothingFallsBetween
  <2>1. CASE t = pc
    BY <1>4, <1>5, <1>8, <2>1
  <2>2. CASE t # pc
    BY <1>5, <1>7, <2>2 DEF IInv, NothingFallsBetween
  <2> QED
    BY <2>1, <2>2
<1>10. CourseOK'
  <2> SUFFICES ASSUME NEW t \in Tables, course'[t].since >= 0
               PROVE  /\ pc' # "stopped"
                      /\ course'[t].upto
                           = (due - (IF Pending(t)' THEN 2 * Interval
                                                    ELSE Interval))
                              + course'[t].delay
    BY <1>1, <1>2 DEF CourseOK
  <2>1. pc' # "stopped"
    BY <1>1 DEF After, Tables
  <2>2. CASE t = pc
    <3>1. ~Pending(t)'
      BY <1>1, <2>2 DEF Pending, After, Tables
    <3>2. now = (due - Interval) + delay
      BY <1>2
    <3> QED
      BY <1>4, <1>5, <2>1, <2>2, <3>1, <3>2
  <2>3. CASE t # pc
    <3>1. Pending(t)' <=> Pending(t)
      BY <1>1, <2>3 DEF Pending, After, Tables
    <3> QED
      BY <1>5, <2>1, <2>3, <3>1 DEF IInv, CourseOK
  <2> QED
    BY <2>2, <2>3
<1> QED
  BY <1>6, <1>7, <1>9, <1>10 DEF IInv

LEMMA OrphanRunsKeeps ==
  ASSUME IInv, OrphanRuns
  PROVE  IInv'
<1>1. /\ orphan \in Tables /\ Aggregate(orphan) /\ orphan' = "none"
      /\ UNCHANGED <<configured, now, pc, due, stops, course>>
  BY DEF OrphanRuns, task
<1>2. TypeOK'
  <2>1. orphan' \in Tables \union {"none"}
    BY <1>1
  <2>2. /\ days' \in [Tables -> [Days -> SUBSET Nat]]
        /\ last' \in [Tables -> -1..now]
        /\ counted' \in [Tables -> SUBSET Nat]
        /\ rows' = rows
        /\ \A t \in Tables :
             /\ counted'[t] \subseteq DOMAIN rows[t]
             /\ \A d \in Days : days'[t][d] \subseteq
                  {i \in DOMAIN rows[t] : DayOf(rows[t][i]) = d}
    BY <1>1, AggregateKeeps
  <2> QED
    BY <1>1, <2>1, <2>2 DEF IInv, TypeOK
<1>3. /\ rows' = rows /\ TodayComplete'
      /\ \A t \in Tables : counted[t] \subseteq counted'[t]
  BY <1>1, AggregateKeeps
<1>4. NothingFallsBetween'
  BY <1>1, <1>3 DEF IInv, NothingFallsBetween, Interval
<1>5. CourseOK'
  BY <1>1 DEF IInv, CourseOK, Pending, Interval
<1> QED
  BY <1>2, <1>3, <1>4, <1>5 DEF IInv

LEMMA HourPassesKeeps ==
  ASSUME IInv, HourPasses
  PROVE  IInv'
<1>1. /\ now < MaxTime /\ now' = now + 1 /\ now \in Nat
      /\ UNCHANGED <<configured, rows, days, last, counted, course, pc, due,
                     orphan, stops>>
  BY DEF IInv, TypeOK, HourPasses, tables, task
<1>2. now' \in 0..MaxTime /\ 0..now \subseteq 0..now' /\ -1..now \subseteq -1..now'
  BY <1>1, BoundsAssumption
<1>3. rows' \in [Tables -> Seq(0..now')]
  BY <1>1, <1>2 DEF IInv, TypeOK
<1>4. last' \in [Tables -> -1..now']
  BY <1>1, <1>2 DEF IInv, TypeOK
<1>5. course' \in [Tables -> [since : -1..now', upto : -1..now', delay : Int]]
  <2>1. \A t \in Tables : course[t] \in [since : -1..now, upto : -1..now, delay : Int]
    BY DEF IInv, TypeOK
  <2>2. \A t \in Tables :
          course[t] \in [since : -1..now', upto : -1..now', delay : Int]
    BY <1>2, <2>1
  <2>3. course = [t \in Tables |-> course[t]]
    BY DEF IInv, TypeOK
  <2> QED
    BY <1>1, <2>2, <2>3
<1>6. TypeOK'
  BY <1>1, <1>2, <1>3, <1>4, <1>5 DEF IInv, TypeOK, DayOf
<1>7. CourseOK'
  BY <1>1 DEF IInv, CourseOK, Pending, Interval
<1> QED
  BY <1>1, <1>6, <1>7, TablesStay DEF IInv

\* A new row is as old as the clock: no query has come after it.
LEMMA InsertKeeps ==
  ASSUME IInv, NEW table \in Tables, Insert(table)
  PROVE  IInv'
<1>1. /\ rows' = [rows EXCEPT ![table] = Append(rows[table], now)]
      /\ UNCHANGED <<configured, now, days, last, counted, course, pc, due,
                     orphan, stops>>
      /\ now \in Nat /\ rows \in [Tables -> Seq(0..now)]
      /\ last \in [Tables -> -1..now]
  <2>1. /\ rows' = [rows EXCEPT ![table] = Append(rows[table], now)]
        /\ UNCHANGED <<configured, now, days, last, counted, course, pc, due,
                       orphan, stops>>
    BY DEF Insert, task
  <2>2. /\ rows \in [Tables -> Seq(0..now)]
        /\ last \in [Tables -> -1..now]
    BY DEF IInv, TypeOK
  <2>3. now \in Nat
    BY BoundsAssumption DEF IInv, TypeOK
  <2> QED
    BY <2>1, <2>2, <2>3
<1>2. now \in 0..now
  BY <1>1
<1>3. /\ rows' \in [Tables -> Seq(0..now)]
      /\ \A t \in Tables \ {table} : rows'[t] = rows[t]
      /\ rows'[table] = Append(rows[table], now)
  BY <1>1, <1>2
<1>4. /\ DOMAIN rows[table] = 1..Len(rows[table]) /\ Len(rows[table]) \in Nat
      /\ DOMAIN rows'[table] = 1..(Len(rows[table]) + 1)
      /\ rows'[table][Len(rows[table]) + 1] = now
      /\ \A i \in DOMAIN rows[table] : rows'[table][i] = rows[table][i]
  BY <1>1, <1>2, <1>3
<1>5. \A t \in Tables : \A i \in DOMAIN rows'[t] :
        \/ i \in DOMAIN rows[t] /\ rows'[t][i] = rows[t][i]
        \/ rows'[t][i] = now
  <2> TAKE t \in Tables
  <2>1. CASE t = table
    BY <1>4, <2>1
  <2>2. CASE t # table
    BY <1>3, <2>2
  <2> QED
    BY <2>1, <2>2
<1>6. \A t \in Tables : \A i \in DOMAIN rows[t] :
        i \in DOMAIN rows'[t] /\ rows'[t][i] = rows[t][i]
  <2> TAKE t \in Tables
  <2>1. CASE t = table
    BY <1>4, <2>1
  <2>2. CASE t # table
    BY <1>3, <2>2
  <2> QED
    BY <2>1, <2>2
<1>7. TypeOK'
  <2>1. \A t \in Tables :
          /\ counted[t] \subseteq DOMAIN rows[t]
          /\ \A d \in Days : days[t][d] \subseteq
               {i \in DOMAIN rows[t] : DayOf(rows[t][i]) = d}
    BY DEF IInv, TypeOK
  <2>2. \A t \in Tables :
          /\ counted[t] \subseteq DOMAIN rows'[t]
          /\ \A d \in Days : days[t][d] \subseteq
               {i \in DOMAIN rows'[t] : DayOf(rows'[t][i]) = d}
    BY <1>6, <2>1
  <2> QED
    BY <1>1, <1>3, <2>2 DEF IInv, TypeOK, DayOf
<1>8. \A t \in Tables : \A i \in DOMAIN rows'[t] :
        rows'[t][i] < last[t] => i \in DOMAIN rows[t] /\ rows'[t][i] = rows[t][i]
  <2>1. \A t \in Tables : ~(now < last[t])
    BY <1>1
  <2> QED
    BY <1>5, <2>1
<1>9. TodayComplete'
  <2> SUFFICES ASSUME Interval' >= Day, NEW t \in Tables, last[t] >= 0,
                      NEW i \in DOMAIN rows'[t],
                      DayOf(rows'[t][i]) = DayOf(last[t]), rows'[t][i] < last[t]
               PROVE  i \in days[t][DayOf(last[t])]
    BY <1>1 DEF TodayComplete, DayOf
  <2>1. i \in DOMAIN rows[t] /\ rows'[t][i] = rows[t][i]
    BY <1>8
  <2>2. Interval >= Day
    BY <1>1 DEF Interval
  <2> QED
    BY <2>1, <2>2 DEF IInv, TodayComplete
<1>10. NothingFallsBetween'
  <2> SUFFICES ASSUME NEW t \in Tables, course[t].since >= 0,
                      NEW i \in DOMAIN rows'[t],
                      rows'[t][i] >= course[t].since - Interval,
                      rows'[t][i] < course[t].upto
               PROVE  i \in counted[t]
    BY <1>1 DEF NothingFallsBetween, Interval
  <2>1. course[t].upto \in -1..now
    BY DEF IInv, TypeOK
  <2>2. ~(now < course[t].upto)
    BY <1>1, <2>1
  <2>3. i \in DOMAIN rows[t] /\ rows'[t][i] = rows[t][i]
    BY <1>5, <2>2
  <2> QED
    BY <2>3 DEF IInv, NothingFallsBetween
<1>11. CourseOK'
  BY <1>1 DEF IInv, CourseOK, Pending, Interval
<1> QED
  BY <1>7, <1>9, <1>10, <1>11 DEF IInv

\* The steps of the task that leave the courses alone, and those that end them.
LEMMA TaskKeeps ==
  ASSUME IInv, Start \/ Tick \/ QueryFails \/ Stop
  PROVE  IInv'
<1>1. UNCHANGED <<configured, now, rows, days, last, counted>>
  BY DEF Start, Tick, QueryFails, Stop, tables
<1>2. /\ now \in Nat /\ due \in Nat /\ Interval \in Nat \ {0}
      /\ Interval' = Interval /\ stops \in 0..MaxStops
      /\ course \in [Tables -> [since : -1..now, upto : -1..now, delay : Int]]
      /\ NoCourse \in [since : -1..now, upto : -1..now, delay : Int]
      /\ ~(NoCourse.since >= 0)
  BY <1>1, IntervalType DEF IInv, TypeOK, Interval, NoCourse
<1>3. /\ pc' \in Tables \union {"stopped", "waiting"} /\ due' \in Nat
      /\ orphan' \in Tables \union {"none"} /\ stops' \in 0..MaxStops
  <2>1. CASE Start
    BY <1>2, <2>1 DEF Start, IInv, TypeOK
  <2>2. CASE Tick
    BY <1>2, <2>2 DEF Tick, Tables, IInv, TypeOK
  <2>3. CASE QueryFails
    BY <2>3 DEF QueryFails, After, Tables, IInv, TypeOK
  <2>4. CASE Stop
    BY <1>2, <2>4, BoundsAssumption DEF Stop, IInv, TypeOK
  <2> QED
    BY <2>1, <2>2, <2>3, <2>4
<1>4. /\ course' \in [Tables -> [since : -1..now, upto : -1..now, delay : Int]]
      /\ \A t \in Tables : course'[t] = course[t] \/ course'[t] = NoCourse
  <2>1. CASE Start \/ Tick
    BY <1>2, <2>1 DEF Start, Tick
  <2>2. CASE QueryFails
    <3>1. course' = [course EXCEPT ![pc] = NoCourse] /\ pc \in Tables
      BY <2>2 DEF QueryFails
    <3> QED
      BY <1>2, <3>1
  <2>3. CASE Stop
    BY <1>2, <2>3 DEF Stop
  <2> QED
    BY <2>1, <2>2, <2>3
<1>5. TypeOK'
  BY <1>1, <1>3, <1>4 DEF IInv, TypeOK
<1>6. TodayComplete'
  BY <1>1 DEF IInv, TodayComplete, Interval, DayOf
<1>7. NothingFallsBetween'
  BY <1>1, <1>2, <1>4 DEF IInv, NothingFallsBetween
<1>8. CourseOK'
  <2> SUFFICES ASSUME NEW t \in Tables, course'[t].since >= 0
               PROVE  /\ pc' # "stopped"
                      /\ course'[t].upto
                           = (due' - (IF Pending(t)' THEN 2 * Interval
                                                     ELSE Interval))
                              + course'[t].delay
    BY <1>2 DEF CourseOK
  <2>1. /\ course'[t] = course[t]
        /\ pc # "stopped"
        /\ course[t].upto = (due - (IF Pending(t) THEN 2 * Interval ELSE Interval))
                              + course[t].delay
    BY <1>2, <1>4 DEF IInv, CourseOK
  <2>2. ~Start /\ ~Stop
    <3>1. ~Start
      BY <2>1 DEF Start
    <3>2. ~Stop
      <4>1. Stop => course'[t] = NoCourse
        BY DEF Stop
      <4> QED
        BY <1>2, <4>1
    <3> QED
      BY <3>1, <3>2
  <2>3. CASE Tick
    <3>1. pc = "waiting" /\ pc' = "trades" /\ due' = due + Interval
      BY <2>3 DEF Tick
    <3>2. ~Pending(t) /\ Pending(t)'
      BY <3>1 DEF Pending, Tables
    <3>3. due' - 2 * Interval = due - Interval
      BY <1>2, <3>1
    <3> QED
      BY <2>1, <3>1, <3>2, <3>3
  <2>4. CASE QueryFails
    <3>1. /\ pc \in Tables /\ pc' = After(pc) /\ due' = due
          /\ course' = [course EXCEPT ![pc] = NoCourse]
      BY <2>4 DEF QueryFails
    <3>2. t # pc
      <4>1. course'[pc] = NoCourse
        BY <1>2, <3>1
      <4> QED
        BY <1>2, <4>1
    <3>3. pc' # "stopped" /\ (Pending(t)' <=> Pending(t))
      BY <3>1, <3>2 DEF Pending, After, Tables
    <3> QED
      BY <2>1, <3>1, <3>3
  <2> QED
    BY <2>2, <2>3, <2>4
<1> QED
  BY <1>5, <1>6, <1>7, <1>8 DEF IInv

LEMMA Inductive == IInv /\ [Next]_vars => IInv'
<1> SUFFICES ASSUME IInv, [Next]_vars PROVE IInv'
  OBVIOUS
<1>1. CASE Start \/ Tick \/ QueryFails \/ Stop
  BY <1>1, TaskKeeps
<1>2. CASE Query
  BY <1>2, QueryKeeps
<1>3. CASE OrphanRuns
  BY <1>3, OrphanRunsKeeps
<1>4. CASE HourPasses
  BY <1>4, HourPassesKeeps
<1>5. ASSUME NEW t \in Tables, Insert(t) PROVE IInv'
  BY <1>5, InsertKeeps
<1>6. CASE UNCHANGED vars
  <2>1. UNCHANGED <<configured, now, rows, days, last, counted, course, pc, due,
                    orphan, stops>>
    BY <1>6 DEF vars, tables, task
  <2>2. TypeOK'
    BY <2>1 DEF IInv, TypeOK
  <2>3. CourseOK'
    BY <2>1 DEF IInv, CourseOK, Pending, Interval
  <2> QED
    BY <2>1, <2>2, <2>3, TablesStay DEF IInv
<1> QED
  BY <1>1, <1>2, <1>3, <1>4, <1>5, <1>6 DEF Next

LEMMA Always == Spec => []IInv
<1> QED
  BY Initially, Inductive, PTL DEF Spec

\* Every variable stays in its range, and an aggregated row is made of rows of
\* its day only (db.rs:221-235, 244-264).
THEOREM AggregationTypeOK == Spec => []TypeOK
<1>1. IInv => TypeOK
  BY DEF IInv
<1> QED
  BY <1>1, Always, PTL

\* With a window of a day or more the row of the day of the last query is
\* complete, for every length of the day and of the interval and any number of
\* rows, failures, restarts and queries left behind (db.rs:232-237,
\* aggregator.rs:28-57).
THEOREM TodayIsComplete == Spec => []TodayComplete
<1>1. IInv => TodayComplete
  BY DEF IInv
<1> QED
  BY <1>1, Always, PTL

\* The windows of an unbroken course of queries leave no gap, for every interval,
\* however late the ticks and the queries come, and whatever an aborted task has
\* left with the database (aggregator.rs:24-30, db.rs:229, 257).
THEOREM CoursesLeaveNoGap == Spec => []NothingFallsBetween
<1>1. IInv => NothingFallsBetween
  BY DEF IInv
<1> QED
  BY <1>1, Always, PTL

============================================================================
