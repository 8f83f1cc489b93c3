------------------------ MODULE UsageAccounting_proofs ------------------------
(***************************************************************************)
(* Proofs about UsageAccounting, for any processes, usage gap, retention   *)
(* and length of time: the interval tables stay in order and disjoint,     *)
(* what nobody saw is never recorded (Inv); the row, the tables and the    *)
(* totals tell the same story, across the deletion of old rows (Books);    *)
(* and the tables implement GpuLedger.                                     *)
(***************************************************************************)
EXTENDS UsageAccounting, FiniteSetTheorems, TLAPS

(* In the order of id, every row ends before the next one starts.          *)
Ordered(table) ==
  /\ \A i \in DOMAIN table : table[i].from < table[i].to
  /\ \A i, j \in DOMAIN table : i < j => table[i].to <= table[j].from

Until(table, t) == \A i \in DOMAIN table : table[i].to <= t

Intervals(S) == \A r \in S : r.from \in Int /\ r.to \in Int

-------------------------------------------------------------------------------
(* The tables.                                                             *)

(* In an ordered table the latest row is the last one.                     *)
LEMMA LatestIsLast ==
  ASSUME NEW S, Intervals(S), NEW table \in Seq(S), table # <<>>, Ordered(table)
  PROVE  /\ Latest(table) = Len(table)
         /\ Len(table) \in DOMAIN table
<1> DEFINE P(i) == \A j \in DOMAIN table : \/ table[j].to < table[i].to
                                           \/ table[j].to = table[i].to /\ j <= i
<1>1. Len(table) \in Nat \ {0} /\ DOMAIN table = 1 .. Len(table)
  OBVIOUS
<1>2. \A i \in DOMAIN table : table[i].from \in Int /\ table[i].to \in Int
  BY <1>1 DEF Intervals
<1>3. \A i, j \in DOMAIN table : i < j => table[i].to < table[j].to
  BY <1>1, <1>2 DEF Ordered
<1>4. P(Len(table))
  BY <1>1, <1>2, <1>3
<1>5. \A i \in DOMAIN table : P(i) => i = Len(table)
  BY <1>1, <1>2, <1>3
<1>6. Latest(table) = CHOOSE i \in DOMAIN table : P(i)
  BY DEF Latest
<1>7. Latest(table) \in DOMAIN table /\ P(Latest(table))
  <2> HIDE DEF P
  <2> QED BY <1>1, <1>4, <1>6
<1> QED BY <1>1, <1>5, <1>7

(* Moving the end of the last row, or adding a row behind all the others,  *)
(* keeps a table ordered.                                                  *)
LEMMA ExtendOrdered ==
  ASSUME NEW S, Intervals(S), NEW table \in Seq(S), table # <<>>, Ordered(table),
         NEW t \in Int, Until(table, t),
         NEW new, new = [table EXCEPT ![Len(table)].to = t]
  PROVE  Ordered(new) /\ Until(new, t)
<1>1. Len(table) \in DOMAIN table /\ DOMAIN table = 1 .. Len(table) /\ Len(table) \in Nat
  OBVIOUS
<1>2. \A i \in DOMAIN table : table[i] \in S /\ table[i].from \in Int /\ table[i].to \in Int
  BY <1>1 DEF Intervals
<1>3. DOMAIN new = DOMAIN table
  OBVIOUS
<1>4. \A i \in DOMAIN table : i # Len(table) => new[i] = table[i]
  OBVIOUS
<1>5. new[Len(table)].from = table[Len(table)].from
  BY <1>1
<1>6. new[Len(table)].to = t \/ new[Len(table)].to = table[Len(table)].to
  BY <1>1
<1>7. Until(new, t)
  BY <1>1, <1>2, <1>3, <1>4, <1>6 DEF Until
<1>8. table[Len(table)].to <= new[Len(table)].to
  BY <1>1, <1>2, <1>6 DEF Until
<1>9. Ordered(new)
  BY <1>1, <1>2, <1>3, <1>4, <1>5, <1>6, <1>8 DEF Ordered
<1> QED BY <1>7, <1>9

LEMMA AppendOrdered ==
  ASSUME NEW S, Intervals(S), NEW table \in Seq(S), Ordered(table),
         NEW row \in S, row.from < row.to, Until(table, row.from)
  PROVE  Ordered(Append(table, row)) /\ Until(Append(table, row), row.to)
<1>1. \A i \in DOMAIN table : table[i].from \in Int /\ table[i].to \in Int
  BY DEF Intervals
<1>2. row.from \in Int /\ row.to \in Int
  BY DEF Intervals
<1>3. /\ Len(table) \in Nat
      /\ DOMAIN table = 1 .. Len(table)
      /\ DOMAIN Append(table, row) = 1 .. Len(table) + 1
      /\ \A i \in DOMAIN table : Append(table, row)[i] = table[i]
      /\ Append(table, row)[Len(table) + 1] = row
  OBVIOUS
<1> QED BY <1>1, <1>2, <1>3 DEF Ordered, Until

LEMMA RowsAreIntervals == Intervals(UsageRows) /\ Intervals(CapacityRows)
BY DEF Intervals, UsageRows, CapacityRows

(* Recording a period that starts where the table ends, or later.          *)
LEMMA RecordBusyKeeps ==
  ASSUME NEW table \in Seq(UsageRows), Ordered(table),
         NEW row \in UsageRows, row.from <= row.to, Until(table, row.from)
  PROVE  LET new == RecordBusy(table, row)
         IN  new \in Seq(UsageRows) /\ Ordered(new) /\ Until(new, row.to)
<1>1. row.from \in Int /\ row.to \in Int
  BY DEF UsageRows
<1>2. Until(table, row.to)
  <2>1. \A i \in DOMAIN table : table[i].to \in Int
    BY RowsAreIntervals DEF Intervals
  <2> QED BY <1>1, <2>1 DEF Until
<1>3. CASE RecordBusy(table, row) = table
  BY <1>2, <1>3
<1>4. CASE /\ row.from < row.to
           /\ RecordBusy(table, row) = Append(table, row)
  BY <1>4, RowsAreIntervals, AppendOrdered
<1>5. CASE /\ table # <<>>
           /\ RecordBusy(table, row) = [table EXCEPT ![Latest(table)].to = row.to]
  <2>1. Latest(table) = Len(table) /\ Len(table) \in DOMAIN table
    BY <1>5, RowsAreIntervals, LatestIsLast
  <2>2. RecordBusy(table, row) = [table EXCEPT ![Len(table)].to = row.to]
    BY <1>5, <2>1
  <2>3. Ordered(RecordBusy(table, row)) /\ Until(RecordBusy(table, row), row.to)
    <3>1. Intervals(UsageRows) /\ table # <<>> /\ row.to \in Int
      BY <1>1, <1>5, RowsAreIntervals
    <3> QED BY <1>2, <2>2, <3>1, ExtendOrdered
  <2>4. table[Len(table)] \in UsageRows
    BY <2>1
  <2>5. [table[Len(table)] EXCEPT !.to = row.to] \in UsageRows
    BY <1>1, <2>4 DEF UsageRows
  <2>6. RecordBusy(table, row) \in Seq(UsageRows)
    BY <2>1, <2>2, <2>5
  <2> QED BY <2>3, <2>6
<1> QED
  BY <1>1, <1>3, <1>4, <1>5 DEF RecordBusy

LEMMA RecordCapacityKeeps ==
  ASSUME NEW table \in Seq(CapacityRows), Ordered(table),
         NEW row \in CapacityRows, row.from <= row.to, Until(table, row.from)
  PROVE  LET new == RecordCapacity(table, row)
         IN  new \in Seq(CapacityRows) /\ Ordered(new) /\ Until(new, row.to)
<1>1. row.from \in Int /\ row.to \in Int
  BY DEF CapacityRows
<1>2. Until(table, row.to)
  <2>1. \A i \in DOMAIN table : table[i].to \in Int
    BY RowsAreIntervals DEF Intervals
  <2> QED BY <1>1, <2>1 DEF Until
<1>3. CASE RecordCapacity(table, row) = table
  BY <1>2, <1>3
<1>4. CASE /\ row.from < row.to
           /\ RecordCapacity(table, row) = Append(table, row)
  BY <1>4, RowsAreIntervals, AppendOrdered
<1>5. CASE /\ table # <<>>
           /\ RecordCapacity(table, row) = [table EXCEPT ![Latest(table)].to = row.to]
  <2>1. Latest(table) = Len(table) /\ Len(table) \in DOMAIN table
    BY <1>5, RowsAreIntervals, LatestIsLast
  <2>2. RecordCapacity(table, row) = [table EXCEPT ![Len(table)].to = row.to]
    BY <1>5, <2>1
  <2>3. Ordered(RecordCapacity(table, row)) /\ Until(RecordCapacity(table, row), row.to)
    <3>1. Intervals(CapacityRows) /\ table # <<>> /\ row.to \in Int
      BY <1>1, <1>5, RowsAreIntervals
    <3> QED BY <1>2, <2>2, <3>1, ExtendOrdered
  <2>4. table[Len(table)] \in CapacityRows
    BY <2>1
  <2>5. [table[Len(table)] EXCEPT !.to = row.to] \in CapacityRows
    BY <1>1, <2>4 DEF CapacityRows
  <2>6. RecordCapacity(table, row) \in Seq(CapacityRows)
    BY <2>1, <2>2, <2>5
  <2> QED BY <2>3, <2>6
<1> QED
  BY <1>1, <1>3, <1>4, <1>5 DEF RecordCapacity

-------------------------------------------------------------------------------
(* Type correctness.                                                       *)

LEMMA CohortFacts ==
  /\ \A c \in Cohorts : c \in [DOMAIN c -> BOOLEAN] /\ DOMAIN c \subseteq Processes
  /\ \A running \in SUBSET Processes : [running -> BOOLEAN] \subseteq Cohorts
BY DEF Cohorts

LEMMA ConfirmedType ==
  ASSUME NEW c \in Cohorts
  PROVE  Confirmed(c) \subseteq Users /\ Attributable(c) \subseteq Users
BY CohortFacts DEF Confirmed, Attributable, Users

LEMMA CarryOwnersType ==
  ASSUME NEW old \in Cohorts, NEW new \in Cohorts
  PROVE  CarryOwners(old, new) \in Cohorts
<1>1. CarryOwners(old, new) \in [DOMAIN new -> BOOLEAN]
  BY CohortFacts DEF CarryOwners
<1> QED BY <1>1, CohortFacts

LEMMA SampleType ==
  ASSUME NEW s \in Samples
  PROVE  s.procs \in Cohorts /\ s.busy \in BOOLEAN /\ s.memory \in Memory
BY DEF Samples

LEMMA FirstRowType ==
  ASSUME NEW s \in Samples, clock \in Instants
  PROVE  FirstRow(s) \in Rows
<1>1. (IF s.busy THEN Confirmed(s.procs) ELSE {}) \in SUBSET Users
  BY SampleType, ConfirmedType
<1>2. clock \in Int
  BY TimesAssumption DEF Instants
<1> QED BY <1>1, <1>2, SampleType DEF FirstRow, Rows

LEMMA NextRowType ==
  ASSUME NEW s \in Samples, NEW counted \in BOOLEAN, clock \in Instants, gpu \in Rows
  PROVE  NextRow(s, counted) \in Rows
<1>1. clock \in Int
  BY TimesAssumption DEF Instants
<1>2. /\ gpu.seen \in Int /\ gpu.busy \in BOOLEAN /\ gpu.since \in Int
      /\ gpu.procs \in Cohorts /\ gpu.last_user \in SUBSET Users
      /\ gpu.observed_seconds \in Nat /\ gpu.busy_seconds \in Nat
      /\ gpu.user_seconds \in Nat
  BY DEF Rows
<1>3. Elapsed \in Nat
  BY <1>1, <1>2 DEF Elapsed
<1> DEFINE procs == IF s.busy THEN CarryOwners(gpu.procs, s.procs) ELSE s.procs
<1>4. procs \in Cohorts
  BY <1>2, SampleType, CarryOwnersType
<1>5. \A shown \in SUBSET Users : OwnerStillBusy(gpu.procs, procs, shown) \in SUBSET Users
  BY <1>4, ConfirmedType DEF OwnerStillBusy
<1>6. LastUser(s, procs, counted) \in SUBSET Users
  <2> HIDE DEF procs
  <2>1. Confirmed(procs) \in SUBSET Users
    BY <1>4, ConfirmedType
  <2>2. (IF counted THEN gpu.last_user ELSE Confirmed(procs)) \in SUBSET Users
    BY <1>2, <2>1
  <2> QED BY <1>2, <1>5, <2>1, <2>2, SampleType DEF LastUser
<1>7. Since(s, counted) \in Int
  BY <1>1, <1>2 DEF Since
<1> DEFINE add == IF counted THEN Elapsed ELSE 0
           charge == IF gpu.busy /\ Attributable(gpu.procs) # {} THEN add ELSE 0
<1>8. /\ gpu.observed_seconds + add \in Nat
      /\ gpu.busy_seconds + (IF gpu.busy THEN add ELSE 0) \in Nat
      /\ gpu.user_seconds + charge \in Nat
  BY <1>2, <1>3
<1>9. NextRow(s, counted) =
        [seen |-> clock, busy |-> s.busy, since |-> Since(s, counted), procs |-> procs,
         memory |-> s.memory, last_user |-> LastUser(s, procs, counted),
         observed_seconds |-> gpu.observed_seconds + add,
         busy_seconds |-> gpu.busy_seconds + (IF gpu.busy THEN add ELSE 0),
         user_seconds |-> gpu.user_seconds + charge]
  BY DEF NextRow
<1> HIDE DEF procs, add, charge
<1> QED BY <1>1, <1>4, <1>6, <1>7, <1>8, <1>9, SampleType DEF Rows

-------------------------------------------------------------------------------
(* What a table covers.                                                    *)

LEMMA CoveredHolds ==
  ASSUME NEW table, NEW t
  PROVE  t \in Covered(table) <=> t \in Instants /\ Holds(table, t)
BY DEF Covered, CoveredBy, Holds, Span

Covers(row, t) == row.from <= t /\ t < row.to

(* A table takes a period: a row of its own, or the last row is extended   *)
(* from the very instant at which the period starts.                       *)
Grows(table, row, new) ==
  \/ new = Append(table, row)
  \/ /\ table # <<>>
     /\ table[Len(table)].to = row.from
     /\ new = [table EXCEPT ![Len(table)].to = row.to]

(* What that makes of the table: it covers the period beside what it       *)
(* covered, each instant in the row that did or in the last one.           *)
Gains(table, row, new) ==
  /\ new # <<>> /\ Len(new) \in DOMAIN new /\ new[Len(new)].to = row.to
  /\ DOMAIN new = DOMAIN table \union {Len(new)}
  /\ \A t \in Int, i \in DOMAIN new :
       Covers(new[i], t) => (i \in DOMAIN table /\ Covers(table[i], t))
                            \/ (i = Len(new) /\ Covers(row, t))
  /\ \A t \in Int, i \in DOMAIN table : Covers(table[i], t) => Covers(new[i], t)
  /\ \A t \in Int : Covers(row, t) => Covers(new[Len(new)], t)

LEMMA GrowsCovers ==
  ASSUME NEW S, Intervals(S), \A r \in S : {"from", "to"} \subseteq DOMAIN r,
         NEW table \in Seq(S), Ordered(table), NEW row \in S, row.from < row.to,
         NEW new, Grows(table, row, new)
  PROVE  Gains(table, row, new)
<1>1. row.from \in Int /\ row.to \in Int
  BY DEF Intervals
<1>2. \A i \in DOMAIN table : table[i].from \in Int /\ table[i].to \in Int
  BY DEF Intervals
<1>3. Len(table) \in Nat /\ DOMAIN table = 1 .. Len(table)
  OBVIOUS
<1>4. CASE new = Append(table, row)
  <2>1. /\ DOMAIN new = 1 .. Len(table) + 1
        /\ Len(new) = Len(table) + 1
        /\ \A i \in DOMAIN table : new[i] = table[i]
        /\ new[Len(table) + 1] = row
        /\ new # <<>>
    BY <1>4
  <2> QED BY <1>3, <2>1 DEF Gains
<1>5. CASE /\ table # <<>>
           /\ table[Len(table)].to = row.from
           /\ new = [table EXCEPT ![Len(table)].to = row.to]
  <2>1. Len(table) \in DOMAIN table
    BY <1>5
  <2>2. /\ DOMAIN new = DOMAIN table
        /\ \A i \in DOMAIN table : i # Len(table) => new[i] = table[i]
    BY <1>5
  <2>3. table[Len(table)] \in S
    BY <2>1
  <2>4. new[Len(table)].from = table[Len(table)].from /\ new[Len(table)].to = row.to
    BY <1>5, <2>1, <2>3
  <2>5. Len(new) = Len(table)
    BY <1>3, <1>5
  <2>6. new # <<>>
    BY <1>3, <2>1, <2>2
  <2>7. table[Len(table)].from < table[Len(table)].to
    BY <2>1 DEF Ordered
  <2>8. ASSUME NEW t \in Int, NEW i \in DOMAIN new
        PROVE  /\ Covers(new[i], t) => Covers(table[i], t) \/ (i = Len(new) /\ Covers(row, t))
               /\ Covers(table[i], t) => Covers(new[i], t)
    <3>1. CASE i # Len(table)
      BY <2>2, <3>1
    <3>2. CASE i = Len(table)
      BY <1>1, <1>2, <1>5, <2>1, <2>4, <2>5, <3>2 DEF Covers
    <3> QED BY <3>1, <3>2
  <2>9. ASSUME NEW t \in Int, Covers(row, t) PROVE Covers(new[Len(new)], t)
    BY <1>1, <1>2, <1>5, <2>1, <2>4, <2>5, <2>7, <2>9 DEF Covers
  <2>10. Len(new) \in DOMAIN new /\ new[Len(new)].to = row.to
    BY <2>1, <2>2, <2>4, <2>5
  <2> QED BY ONLY <2>1, <2>2, <2>5, <2>6, <2>8, <2>9, <2>10 DEF Gains
<1> QED BY <1>4, <1>5 DEF Grows

(* What a table says of an instant, by the state or the users of the row.  *)
CoversAs(table, busy, t)   == \E i \in DOMAIN table : table[i].busy = busy /\ Covers(table[i], t)
CoversFor(table, users, t) == \E i \in DOMAIN table : table[i].users = users /\ Covers(table[i], t)

(* A table that ends where the period starts, or so long before that the   *)
(* two cannot be joined.                                                   *)
Joins(table, t) ==
  table # <<>> => \/ table[Len(table)].to = t
                  \/ t - table[Len(table)].to > MergeSlack

(* Such a table comes to cover the period, in its state, and nothing else. *)
LEMMA RecordCapacityCovers ==
  ASSUME NEW table \in Seq(CapacityRows), Ordered(table),
         NEW row \in CapacityRows, row.from < row.to, Until(table, row.from),
         Joins(table, row.from),
         NEW new, new = RecordCapacity(table, row)
  PROVE  /\ Joins(new, row.to)
         /\ \A t \in Int : Holds(new, t) <=> Holds(table, t) \/ Covers(row, t)
         /\ \A t \in Int, busy \in BOOLEAN :
              CoversAs(new, busy, t) <=>
                CoversAs(table, busy, t) \/ (row.busy = busy /\ Covers(row, t))
<1>1. row.from \in Int /\ row.to \in Int
  BY DEF CapacityRows
<1>2. \A i \in DOMAIN table : table[i].from \in Int /\ table[i].to \in Int
  BY RowsAreIntervals DEF Intervals
<1>3. \/ new = Append(table, row)
      \/ /\ table # <<>>
         /\ table[Latest(table)].busy = row.busy
         /\ Near(table[Latest(table)].to, row.from)
         /\ new = [table EXCEPT ![Latest(table)].to = row.to]
  BY <1>1 DEF RecordCapacity
<1>4. table # <<>> => Latest(table) = Len(table) /\ Len(table) \in DOMAIN table
  BY RowsAreIntervals, LatestIsLast
<1>5. /\ Grows(table, row, new)
      /\ \/ new = Append(table, row)
         \/ table # <<>> /\ table[Len(table)].busy = row.busy /\ Len(new) = Len(table)
            /\ new = [table EXCEPT ![Len(table)].to = row.to]
  <2>1. CASE new = Append(table, row)
    BY <2>1 DEF Grows
  <2>2. CASE new # Append(table, row)
    <3>1. /\ table # <<>> /\ table[Len(table)].busy = row.busy
          /\ new = [table EXCEPT ![Len(table)].to = row.to]
      BY <1>3, <1>4, <2>2
    <3>2. table[Len(table)].to = row.from
      BY <1>1, <1>2, <1>3, <1>4, <2>2, TimesAssumption DEF Near, Joins
    <3>3. Len(new) = Len(table)
      BY <3>1
    <3> QED BY <3>1, <3>2, <3>3 DEF Grows
  <2> QED BY <2>1, <2>2
<1>6. \A r \in CapacityRows : {"from", "to"} \subseteq DOMAIN r
  BY DEF CapacityRows
<1>7. Gains(table, row, new)
  <2>1. Intervals(CapacityRows)
    BY RowsAreIntervals
  <2> QED BY <1>5, <1>6, <2>1, GrowsCovers
<1>8. /\ \A i \in DOMAIN table : new[i].busy = table[i].busy
      /\ new[Len(new)].busy = row.busy
  <2>1. CASE new = Append(table, row)
    BY <2>1
  <2>2. CASE /\ table # <<>> /\ table[Len(table)].busy = row.busy /\ Len(new) = Len(table)
             /\ new = [table EXCEPT ![Len(table)].to = row.to]
    <3>1. Len(table) \in DOMAIN table /\ table[Len(table)] \in CapacityRows
      BY <2>2
    <3>2. new[Len(table)].busy = table[Len(table)].busy
      BY <2>2, <3>1 DEF CapacityRows
    <3> QED BY <2>2, <3>1, <3>2
  <2> QED BY <1>5, <2>1, <2>2
<1>9. \A t \in Int : Holds(new, t) <=> Holds(table, t) \/ Covers(row, t)
  <2>1. \A any, t : Holds(any, t) <=> \E i \in DOMAIN any : Covers(any[i], t)
    BY DEF Holds, Covers
  <2> QED BY <1>7, <2>1 DEF Gains
<1>10. \A t \in Int, busy \in BOOLEAN :
         CoversAs(new, busy, t) <=> CoversAs(table, busy, t) \/ (row.busy = busy /\ Covers(row, t))
  BY <1>7, <1>8 DEF CoversAs, Gains
<1>11. Joins(new, row.to)
  BY <1>7 DEF Joins, Gains
<1> QED BY <1>9, <1>10, <1>11

(* The same of the other table, where the users take the place of the state. *)
LEMMA RecordBusyCovers ==
  ASSUME NEW table \in Seq(UsageRows), Ordered(table),
         NEW row \in UsageRows, row.from < row.to, Until(table, row.from),
         Joins(table, row.from),
         NEW new, new = RecordBusy(table, row)
  PROVE  /\ Joins(new, row.to)
         /\ new[Len(new)].users = row.users
         /\ \A t \in Int : Holds(new, t) <=> Holds(table, t) \/ Covers(row, t)
         /\ \A t \in Int, users \in SUBSET Users :
              CoversFor(new, users, t) <=>
                CoversFor(table, users, t) \/ (row.users = users /\ Covers(row, t))
<1>1. row.from \in Int /\ row.to \in Int
  BY DEF UsageRows
<1>2. \A i \in DOMAIN table : table[i].from \in Int /\ table[i].to \in Int
  BY RowsAreIntervals DEF Intervals
<1>3. \/ new = Append(table, row)
      \/ /\ table # <<>>
         /\ table[Latest(table)].users = row.users
         /\ Near(table[Latest(table)].to, row.from)
         /\ new = [table EXCEPT ![Latest(table)].to = row.to]
  BY <1>1, <1>2 DEF RecordBusy, Until
<1>4. table # <<>> => Latest(table) = Len(table) /\ Len(table) \in DOMAIN table
  BY RowsAreIntervals, LatestIsLast
<1>5. /\ Grows(table, row, new)
      /\ \/ new = Append(table, row)
         \/ table # <<>> /\ table[Len(table)].users = row.users /\ Len(new) = Len(table)
            /\ new = [table EXCEPT ![Len(table)].to = row.to]
  <2>1. CASE new = Append(table, row)
    BY <2>1 DEF Grows
  <2>2. CASE new # Append(table, row)
    <3>1. /\ table # <<>> /\ table[Len(table)].users = row.users
          /\ new = [table EXCEPT ![Len(table)].to = row.to]
      BY <1>3, <1>4, <2>2
    <3>2. table[Len(table)].to = row.from
      BY <1>1, <1>2, <1>3, <1>4, <2>2, TimesAssumption DEF Near, Joins
    <3>3. Len(new) = Len(table)
      BY <3>1
    <3> QED BY <3>1, <3>2, <3>3 DEF Grows
  <2> QED BY <2>1, <2>2
<1>6. \A r \in UsageRows : {"from", "to"} \subseteq DOMAIN r
  BY DEF UsageRows
<1>7. Gains(table, row, new)
  <2>1. Intervals(UsageRows)
    BY RowsAreIntervals
  <2> QED BY <1>5, <1>6, <2>1, GrowsCovers
<1>8. /\ \A i \in DOMAIN table : new[i].users = table[i].users
      /\ new[Len(new)].users = row.users
  <2>1. CASE new = Append(table, row)
    BY <2>1
  <2>2. CASE /\ table # <<>> /\ table[Len(table)].users = row.users /\ Len(new) = Len(table)
             /\ new = [table EXCEPT ![Len(table)].to = row.to]
    <3>1. Len(table) \in DOMAIN table /\ table[Len(table)] \in UsageRows
      BY <2>2
    <3>2. new[Len(table)].users = table[Len(table)].users
      BY <2>2, <3>1 DEF UsageRows
    <3> QED BY <2>2, <3>1, <3>2
  <2> QED BY <1>5, <2>1, <2>2
<1>9. \A t \in Int : Holds(new, t) <=> Holds(table, t) \/ Covers(row, t)
  <2>1. \A any, t : Holds(any, t) <=> \E i \in DOMAIN any : Covers(any[i], t)
    BY DEF Holds, Covers
  <2> QED BY <1>7, <2>1 DEF Gains
<1>10. \A t \in Int, users \in SUBSET Users :
         CoversFor(new, users, t) <=> CoversFor(table, users, t) \/ (row.users = users /\ Covers(row, t))
  BY <1>7, <1>8 DEF CoversFor, Gains
<1>11. Joins(new, row.to)
  BY <1>7 DEF Joins, Gains
<1> QED BY <1>8, <1>9, <1>10, <1>11

(* Places in a table of m rows and in what is left of it without n.        *)
LEMMA Places ==
  ASSUME NEW m \in Nat, NEW n \in 0 .. m
  PROVE  /\ n \in Nat /\ m - n \in Nat
         /\ \A i \in 1 .. m - n : i \in Int /\ i + n \in 1 .. m
         /\ \A i \in 1 .. m : i > n => i - n \in 1 .. m - n /\ (i - n) + n = i
         /\ m - n # 0 => m - n \in 1 .. m - n /\ (m - n) + n = m /\ m # 0
OBVIOUS

(* What is left of a table when its first n rows are deleted.              *)
Leaves(table, n, new) ==
  /\ Len(new) = Len(table) - n
  /\ \A i \in DOMAIN new : i + n \in DOMAIN table /\ new[i] = table[i + n]
  /\ \A i \in DOMAIN table : i > n => i - n \in DOMAIN new /\ new[i - n] = table[i]

LEMMA SubSeqLeaves ==
  ASSUME NEW S, NEW table \in Seq(S), NEW n \in 0 .. Len(table),
         NEW new, new = SubSeq(table, n + 1, Len(table))
  PROVE  new \in Seq(S) /\ Leaves(table, n, new)
<1>1. Len(table) \in Nat /\ DOMAIN table = 1 .. Len(table)
  OBVIOUS
<1>2. /\ new \in Seq(S) /\ Len(new) = Len(table) - n
      /\ \A i \in 1 .. Len(table) - n : new[i] = table[i + n]
  OBVIOUS
<1>3. DOMAIN new = 1 .. Len(table) - n
  BY <1>2
<1>4. \A i \in DOMAIN new : i + n \in DOMAIN table /\ new[i] = table[i + n]
  BY ONLY <1>1, <1>2, <1>3, Places, n \in 0 .. Len(table)
<1>5. \A i \in DOMAIN table : i > n => i - n \in DOMAIN new /\ new[i - n] = table[i]
  <2> SUFFICES ASSUME NEW i \in DOMAIN table, i > n
               PROVE  i - n \in DOMAIN new /\ new[i - n] = table[i]
    OBVIOUS
  <2>1. i - n \in 1 .. Len(table) - n /\ (i - n) + n = i
    BY <1>1, Places
  <2> QED BY <1>2, <1>3, <2>1
<1> QED BY <1>2, <1>4, <1>5 DEF Leaves

(* It is an ordered table that ends as the table did.                      *)
LEMMA Shortened ==
  ASSUME NEW S, NEW table \in Seq(S), Ordered(table), NEW n \in 0 .. Len(table),
         NEW new \in Seq(S), Leaves(table, n, new)
  PROVE  /\ Ordered(new)
         /\ \A t : Until(table, t) => Until(new, t)
         /\ \A t : Joins(table, t) => Joins(new, t)
<1>1. /\ Len(table) \in Nat /\ DOMAIN table = 1 .. Len(table) /\ n \in Nat
      /\ Len(new) \in Nat /\ DOMAIN new = 1 .. Len(new) /\ Len(new) = Len(table) - n
      /\ \A i \in DOMAIN new : i + n \in DOMAIN table /\ new[i] = table[i + n]
  BY DEF Leaves
<1>2. Ordered(new)
  <2>1. \A i, j \in DOMAIN new : i < j => i + n < j + n
    <3>1. \A i \in DOMAIN new : i \in Int
      BY ONLY <1>1
    <3> QED BY ONLY <1>1, <3>1
  <2> QED BY ONLY <1>1, <2>1, Ordered(table) DEF Ordered
<1>3. ASSUME NEW t, Until(table, t) PROVE Until(new, t)
  BY <1>1, <1>3 DEF Until
<1>4. ASSUME NEW t, Joins(table, t) PROVE Joins(new, t)
  <2> SUFFICES ASSUME new # <<>>
               PROVE  table # <<>> /\ new[Len(new)] = table[Len(table)]
    BY <1>4 DEF Joins
  <2>1. Len(new) # 0
    OBVIOUS
  <2>2. Len(new) \in DOMAIN new /\ Len(new) + n = Len(table)
    <3> DEFINE m == Len(new)
               k == Len(table)
    <3>1. m \in Nat /\ k \in Nat /\ n \in Nat /\ m = k - n /\ m # 0 /\ DOMAIN new = 1 .. m
      BY <1>1, <2>1
    <3> HIDE DEF m, k
    <3>2. m \in DOMAIN new /\ m + n = k
      BY ONLY <3>1
    <3> QED BY <3>2 DEF m, k
  <2>3. new[Len(new)] = table[Len(table)] /\ Len(table) \in DOMAIN table
    BY <1>1, <2>2
  <2> QED BY <2>3
<1> QED BY <1>2, <1>3, <1>4

(* When the rows that go have expired, it says of every instant that is    *)
(* not older than they are what the table said, and of the others nothing  *)
(* new.                                                                    *)
LEMMA ShortenedHolds ==
  ASSUME NEW S, Intervals(S), NEW table \in Seq(S), NEW cutoff \in Int,
         NEW n \in 0 .. Len(table), ExpiredRows(table, n, cutoff),
         NEW new, Leaves(table, n, new)
  PROVE  /\ \A t \in Int : Holds(new, t) => Holds(table, t)
         /\ \A t \in Int : t >= cutoff => (Holds(new, t) <=> Holds(table, t))
         /\ \A t \in Int : \A busy :
              t >= cutoff => (CoversAs(new, busy, t) <=> CoversAs(table, busy, t))
<1>1. /\ \A i \in DOMAIN new : i + n \in DOMAIN table /\ new[i] = table[i + n]
      /\ \A i \in DOMAIN table : i > n => i - n \in DOMAIN new /\ new[i - n] = table[i]
  BY DEF Leaves
<1>2. ASSUME NEW t \in Int, t >= cutoff, NEW i \in DOMAIN table, Covers(table[i], t)
      PROVE  i > n
  <2>1. table[i].to \in Int /\ i \in Int /\ n \in Int
    BY DEF Intervals
  <2>2. ~(table[i].to < cutoff)
    BY <1>2, <2>1 DEF Covers
  <2> QED BY <2>1, <2>2 DEF ExpiredRows, Expired
<1>3. ASSUME NEW t, Holds(new, t) PROVE Holds(table, t)
  BY <1>1, <1>3 DEF Holds
<1>4. ASSUME NEW t \in Int, t >= cutoff, Holds(table, t) PROVE Holds(new, t)
  <2>1. PICK i \in DOMAIN table : Covers(table[i], t)
    BY <1>4 DEF Holds, Covers
  <2> QED BY <1>1, <1>2, <1>4, <2>1 DEF Holds, Covers
<1>5. ASSUME NEW t, NEW busy, CoversAs(new, busy, t) PROVE CoversAs(table, busy, t)
  BY <1>1, <1>5 DEF CoversAs
<1>6. ASSUME NEW t \in Int, NEW busy, t >= cutoff, CoversAs(table, busy, t)
      PROVE  CoversAs(new, busy, t)
  BY <1>1, <1>2, <1>6 DEF CoversAs
<1> QED BY <1>3, <1>4, <1>5, <1>6

(* Some rows of the table (all of them, or those that are charged) are     *)
(* parted into those that went and those that are left: together they      *)
(* cover what they did.                                                    *)
Parted(table, n, new, old, went, left) ==
  /\ went \subseteq old /\ old \subseteq DOMAIN table /\ left \subseteq DOMAIN new
  /\ \A i \in old : i \in went \/ (i > n /\ i - n \in left)
  /\ \A i \in left : i + n \in old

LEMMA ShortenedCovers ==
  ASSUME NEW table, NEW n, NEW new, Leaves(table, n, new),
         NEW old, NEW went, NEW left, Parted(table, n, new, old, went, left)
  PROVE  CoveredBy(table, went) \union CoveredBy(new, left) = CoveredBy(table, old)
BY DEF CoveredBy, Leaves, Parted

-------------------------------------------------------------------------------
(* The inductive invariant.                                                *)

(* Without a row of the GPU nothing has been recorded about it.            *)
NothingYet ==
  gpu = NoRow => usage = <<>> /\ capacity = <<>> /\ lost = {} /\ gone = NothingGone

(* The last sample is at least as old as the last result of the host.      *)
SampleAged == gpu # NoRow => gpu.seen + rest <= clock

(* The tables end at the last sample, or before.                           *)
TablesPast == gpu # NoRow => Until(usage, gpu.seen) /\ Until(capacity, gpu.seen)

(* A period that is missing in front of the last sample is longer than the *)
(* distance over which rows are joined.                                    *)
GapsWide == gpu # NoRow => Joins(usage, gpu.seen) /\ Joins(capacity, gpu.seen)

(* What is lost is over and, unless the host has failed since, lies before *)
(* the last sample.                                                        *)
LossesPast ==
  \A t \in lost : /\ t < clock
                  /\ gpu # NoRow /\ host # "failed" => t < gpu.seen

(* So does what was deleted from them.                                     *)
Before(S, t) == \A u \in S : u < t
GonePast ==
  gpu # NoRow =>
    /\ Before(gone.observed, gpu.seen)
    /\ Before(gone.busy, gpu.seen)
    /\ Before(gone.charged, gpu.seen)

Inv ==
  /\ TypeOK
  /\ Ordered(usage) /\ Ordered(capacity)
  /\ NothingYet
  /\ SampleAged
  /\ TablesPast
  /\ GapsWide
  /\ LossesPast
  /\ GonePast
  /\ LostNeverFilled

(* What becomes of the observer of deletions when a card appears.          *)
LEMMA NothingGoneFacts ==
  /\ NothingGone \in [observed : SUBSET Instants, busy : SUBSET Instants, charged : SUBSET Instants]
  /\ NothingGone.observed = {} /\ NothingGone.busy = {} /\ NothingGone.charged = {}
BY DEF NothingGone

LEMMA InitInv == Init => Inv
<1> SUFFICES ASSUME Init PROVE Inv
  OBVIOUS
<1>1. TypeOK
  BY TimesAssumption, NothingGoneFacts DEF Init, TypeOK, Instants
<1>2. Ordered(<<>>) /\ Covered(<<>>) = {}
  BY DEF Ordered, Covered, CoveredBy
<1> QED
  BY <1>1, <1>2 DEF Init, Inv, NothingYet, SampleAged, TablesPast, GapsWide,
                   LossesPast, GonePast, LostNeverFilled

(* The first sample of a GPU, or of the card that replaced it.             *)
LEMMA FirstRowInv ==
  ASSUME Inv, Observe, NEW s \in Samples, gpu' = FirstRow(s),
         usage' = <<>>, capacity' = <<>>, before' = {}, gone' = NothingGone,
         lost' \subseteq lost \union (IF gpu = NoRow THEN {} ELSE Span(gpu.seen, clock)),
         gpu = NoRow => lost' = {}
  PROVE  Inv'
<1>1. /\ clock \in Int /\ clock \in Instants /\ clock' = clock
      /\ rest' = 0 /\ host' = "observed" /\ cut' = cut /\ cut \in Instants
      /\ Spacing \in Nat /\ MergeSlack \in Nat
  BY TimesAssumption DEF Inv, TypeOK, Observe, Instants
<1>2. gpu' \in Rows /\ gpu' # NoRow /\ gpu'.seen = clock
  BY <1>1, FirstRowType, RowAssumption DEF FirstRow
<1>3. lost' \subseteq Instants
  BY DEF Inv, TypeOK, Span
<1>4. TypeOK'
  BY <1>1, <1>2, <1>3, NothingGoneFacts DEF TypeOK
<1>5. Ordered(usage)' /\ Ordered(capacity)' /\ (Covered(capacity))' = {}
  BY DEF Ordered, Covered, CoveredBy
<1>6. TablesPast' /\ GapsWide' /\ SampleAged' /\ NothingYet'
  BY <1>1, <1>2 DEF TablesPast, GapsWide, Joins, SampleAged, NothingYet, Until
<1>7. LossesPast'
  <2> SUFFICES ASSUME NEW t \in lost' PROVE t < clock
    BY <1>1, <1>2 DEF LossesPast
  <2>1. CASE gpu = NoRow
    BY <2>1
  <2>2. CASE gpu # NoRow
    <3>1. t \in lost \/ t < clock
      BY <2>2 DEF Span
    <3>2. t \in lost => t < clock
      BY DEF Inv, LossesPast
    <3> QED BY <3>1, <3>2
  <2> QED BY <2>1, <2>2
<1>8. LostNeverFilled'
  BY <1>5 DEF LostNeverFilled
<1>9. GonePast'
  BY NothingGoneFacts DEF GonePast, Before
<1> QED BY <1>4, <1>5, <1>6, <1>7, <1>8, <1>9 DEF Inv

(* The period between two samples of the same card; counted tells whether  *)
(* it is recorded, and otherwise it is lost.                               *)
Period(s, counted) ==
  /\ gpu' = NextRow(s, counted)
  /\ capacity' = IF counted THEN RecordCapacity(capacity, CapacityRow) ELSE capacity
  /\ usage' = IF counted /\ gpu.busy THEN RecordBusy(usage, UsageRow) ELSE usage
  /\ before' = DOMAIN gpu.procs
  /\ lost' = IF counted THEN lost ELSE lost \union Span(gpu.seen, clock)
  /\ gone' = gone
  /\ counted => host # "failed"

LEMMA Clocks ==
  ASSUME Inv, Observe
  PROVE  /\ clock \in Int /\ clock \in Instants /\ clock' = clock
         /\ rest = Spacing /\ rest' = 0 /\ host' = "observed"
         /\ cut' = cut /\ cut \in Instants
         /\ Spacing \in Nat /\ MergeSlack \in Nat /\ MergeSlack < Spacing
BY TimesAssumption DEF Inv, TypeOK, Observe, Instants

LEMMA SampleBefore ==
  ASSUME Inv, Observe, gpu # NoRow
  PROVE  /\ gpu \in Rows
         /\ gpu.seen \in Int /\ gpu.since \in Int /\ gpu.busy \in BOOLEAN
         /\ gpu.memory \in Memory /\ gpu.procs \in Cohorts /\ gpu.last_user \in SUBSET Users
         /\ gpu.seen + Spacing <= clock /\ gpu.seen < clock
<1>1. /\ gpu \in Rows
      /\ gpu.seen \in Int /\ gpu.since \in Int /\ gpu.busy \in BOOLEAN
      /\ gpu.memory \in Memory /\ gpu.procs \in Cohorts /\ gpu.last_user \in SUBSET Users
  BY DEF Inv, TypeOK, Rows
<1>2. gpu.seen + Spacing <= clock /\ gpu.seen < clock
  BY <1>1, Clocks DEF Inv, SampleAged
<1> QED BY <1>1, <1>2

LEMMA PeriodFacts ==
  ASSUME Inv, Observe, NEW s \in Samples, NEW retried \in BOOLEAN, ObserveAgain(s, retried)
  PROVE  gpu # NoRow /\ \E counted \in BOOLEAN : Period(s, counted)
<1> DEFINE counted == Elapsed <= GapLimit(retried)
<1>1. gpu # NoRow
  BY DEF ObserveAgain
<1>2. counted <=> ~Unseen(retried)
  BY <1>1, Clocks, SampleBefore, TimesAssumption DEF Elapsed, GapLimit, Unseen
<1>3. counted => host # "failed"
  BY <1>1, Clocks, SampleBefore DEF Elapsed, GapLimit
<1>4. counted \in BOOLEAN
  OBVIOUS
<1>5. /\ gpu' = NextRow(s, counted)
      /\ capacity' = IF counted THEN RecordCapacity(capacity, CapacityRow) ELSE capacity
      /\ usage' = IF counted /\ gpu.busy THEN RecordBusy(usage, UsageRow) ELSE usage
      /\ before' = DOMAIN gpu.procs /\ gone' = gone
  BY DEF ObserveAgain
<1> HIDE DEF counted
<1>6. lost' = IF Unseen(retried) THEN lost \union Span(gpu.seen, clock) ELSE lost
  BY DEF ObserveAgain
<1>7. Period(s, counted)
  BY <1>2, <1>3, <1>5, <1>6 DEF Period
<1> QED BY <1>1, <1>4, <1>7

(* What is added to the tables.                                            *)
LEMMA NewRows ==
  ASSUME Inv, Observe, gpu # NoRow
  PROVE  /\ CapacityRow \in CapacityRows
         /\ CapacityRow.from = gpu.seen /\ CapacityRow.to = clock
         /\ CapacityRow.busy = gpu.busy
         /\ UsageRow \in UsageRows
         /\ UsageRow.from = gpu.seen /\ UsageRow.to = clock
         /\ UsageRow.users = Attributable(gpu.procs)
<1>1. Attributable(gpu.procs) \in SUBSET Users
  BY SampleBefore, ConfirmedType
<1> QED BY <1>1, Clocks, SampleBefore DEF CapacityRow, CapacityRows, UsageRow, UsageRows

LEMMA Tables ==
  ASSUME Inv, gpu # NoRow
  PROVE  /\ capacity \in Seq(CapacityRows) /\ Ordered(capacity) /\ Until(capacity, gpu.seen)
         /\ Joins(capacity, gpu.seen)
         /\ usage \in Seq(UsageRows) /\ Ordered(usage) /\ Until(usage, gpu.seen)
         /\ Joins(usage, gpu.seen)
BY DEF Inv, TypeOK, TablesPast, GapsWide

(* A table that is left alone ends even longer before the next sample.     *)
LEMMA LeftAlone ==
  ASSUME NEW S, Intervals(S), NEW table \in Seq(S), NEW t \in Int, Until(table, t),
         NEW next \in Int, t + Spacing <= next
  PROVE  Until(table, next) /\ Joins(table, next)
<1>1. Spacing \in Nat /\ MergeSlack \in Nat /\ MergeSlack < Spacing
  BY TimesAssumption
<1>2. \A i \in DOMAIN table : table[i].to \in Int /\ table[i].to <= t
  BY DEF Intervals, Until
<1>3. table # <<>> => Len(table) \in DOMAIN table
  OBVIOUS
<1> QED BY <1>1, <1>2, <1>3 DEF Until, Joins

(* A later sample of the same card.                                        *)
LEMMA ObserveAgainInv ==
  ASSUME Inv, Observe, NEW s \in Samples, NEW retried \in BOOLEAN, ObserveAgain(s, retried)
  PROVE  Inv'
<1>1. PICK counted \in BOOLEAN : Period(s, counted)
  BY PeriodFacts
<1>2. gpu # NoRow
  BY PeriodFacts
<1>3. /\ gpu.seen \in Int /\ gpu.busy \in BOOLEAN /\ gpu.procs \in Cohorts
      /\ gpu.seen + Spacing <= clock /\ gpu.seen < clock /\ gpu.seen <= clock
      /\ clock \in Int /\ clock' = clock /\ rest' = 0 /\ host' = "observed"
  BY <1>2, SampleBefore, Clocks
<1>4. gpu' \in Rows /\ gpu' # NoRow /\ gpu'.seen = clock
  <2>1. NextRow(s, counted) \in Rows
    BY <1>2, Clocks, SampleBefore, NextRowType
  <2>2. NextRow(s, counted).seen = clock
    BY DEF NextRow
  <2>3. gpu' = NextRow(s, counted)
    BY <1>1 DEF Period
  <2> QED BY <2>1, <2>2, <2>3, RowAssumption
<1>5. capacity' \in Seq(CapacityRows) /\ Ordered(capacity') /\ Until(capacity', clock)
      /\ Joins(capacity', clock)
  <2>1. CASE counted
    <3>1. capacity' = RecordCapacity(capacity, CapacityRow)
      BY <1>1, <2>1 DEF Period
    <3>2. capacity' \in Seq(CapacityRows) /\ Ordered(capacity') /\ Until(capacity', clock)
      BY <1>2, <1>3, <3>1, NewRows, Tables, RecordCapacityKeeps
    <3>3. Joins(capacity', clock)
      BY <1>2, <1>3, <3>1, NewRows, Tables, RecordCapacityCovers
    <3> QED BY <3>2, <3>3
  <2>2. CASE ~counted
    <3>1. capacity' = capacity
      BY <1>1, <2>2 DEF Period
    <3> QED BY <1>2, <1>3, <3>1, Tables, RowsAreIntervals, LeftAlone
  <2> QED BY <2>1, <2>2
<1>6. usage' \in Seq(UsageRows) /\ Ordered(usage') /\ Until(usage', clock)
      /\ Joins(usage', clock)
  <2>1. CASE counted /\ gpu.busy
    <3>1. usage' = RecordBusy(usage, UsageRow)
      BY <1>1, <2>1 DEF Period
    <3>2. usage' \in Seq(UsageRows) /\ Ordered(usage') /\ Until(usage', clock)
      BY <1>2, <1>3, <3>1, NewRows, Tables, RecordBusyKeeps
    <3>3. Joins(usage', clock)
      BY <1>2, <1>3, <3>1, NewRows, Tables, RecordBusyCovers
    <3> QED BY <3>2, <3>3
  <2>2. CASE ~(counted /\ gpu.busy)
    <3>1. usage' = usage
      BY <1>1, <2>2 DEF Period
    <3> QED BY <1>2, <1>3, <3>1, Tables, RowsAreIntervals, LeftAlone
  <2> QED BY <2>1, <2>2
<1>7. lost' \subseteq lost \union Span(gpu.seen, clock)
  BY <1>1 DEF Period
<1>8. TypeOK'
  <2>1. lost' \subseteq Instants
    BY <1>7 DEF Inv, TypeOK, Span
  <2>2. before' \subseteq Processes
    BY <1>1, <1>3, CohortFacts DEF Period
  <2>3. gone' = gone /\ cut' = cut
    BY <1>1, Clocks DEF Period
  <2> QED BY <1>4, <1>5, <1>6, <2>1, <2>2, <2>3, Clocks DEF Inv, TypeOK
<1>9. TablesPast' /\ SampleAged' /\ NothingYet' /\ GapsWide'
  BY <1>3, <1>4, <1>5, <1>6 DEF TablesPast, SampleAged, NothingYet, GapsWide
<1>10. LossesPast'
  <2> SUFFICES ASSUME NEW t \in lost' PROVE t < clock
    BY <1>3, <1>4 DEF LossesPast
  <2> QED BY <1>3, <1>7 DEF Inv, LossesPast, Span
<1>11. LostNeverFilled'
  <2>1. CASE ~counted
    <3>1. capacity' = capacity
      BY <1>1, <2>1 DEF Period
    <3>2. \A i \in DOMAIN capacity : capacity[i].to \in Int /\ capacity[i].to <= gpu.seen
      BY <1>2, Tables, RowsAreIntervals DEF Intervals, Until
    <3> SUFFICES ASSUME NEW t \in lost', t \in Covered(capacity) PROVE FALSE
      BY <3>1 DEF LostNeverFilled, Covered, CoveredBy, Span
    <3>3. t \notin lost
      BY DEF Inv, LostNeverFilled
    <3>4. gpu.seen <= t
      BY <1>7, <3>3 DEF Span
    <3>5. t \in Instants /\ Holds(capacity, t)
      BY CoveredHolds
    <3> QED BY <1>3, <3>2, <3>4, <3>5, TimesAssumption DEF Holds, Instants
  <2>2. CASE counted
    <3>1. capacity' = RecordCapacity(capacity, CapacityRow) /\ lost' = lost /\ host # "failed"
      BY <1>1, <2>2 DEF Period
    <3>2. \A t \in Int : Holds(capacity', t) <=> Holds(capacity, t) \/ Covers(CapacityRow, t)
      BY <1>2, <1>3, <3>1, NewRows, Tables, RecordCapacityCovers
    <3> SUFFICES ASSUME NEW t \in lost, t \in Covered(capacity') PROVE FALSE
      BY <3>1 DEF LostNeverFilled, Covered, CoveredBy, Span
    <3>3. t \in Instants /\ t \in Int /\ Holds(capacity', t)
      BY CoveredHolds, TimesAssumption DEF Instants
    <3>4. t < gpu.seen
      BY <1>2, <3>1 DEF Inv, LossesPast
    <3>5. ~Covers(CapacityRow, t)
      BY <1>2, <1>3, <3>3, <3>4, NewRows DEF Covers
    <3>6. t \in Covered(capacity)
      BY <3>2, <3>3, <3>5, CoveredHolds
    <3> QED BY <3>6 DEF Inv, LostNeverFilled
  <2> QED BY <2>1, <2>2
<1>12. GonePast'
  <2>1. gone' = gone
    BY <1>1 DEF Period
  <2>2. ASSUME NEW S \in SUBSET Instants, Before(S, gpu.seen) PROVE Before(S, clock)
    BY <1>3, <2>2, TimesAssumption DEF Before, Instants
  <2>3. /\ gone.observed \in SUBSET Instants /\ Before(gone.observed, gpu.seen)
        /\ gone.busy \in SUBSET Instants /\ Before(gone.busy, gpu.seen)
        /\ gone.charged \in SUBSET Instants /\ Before(gone.charged, gpu.seen)
    BY <1>2 DEF Inv, TypeOK, GonePast
  <2> QED BY <1>4, <2>1, <2>2, <2>3 DEF GonePast
<1> QED BY <1>5, <1>6, <1>8, <1>9, <1>10, <1>11, <1>12 DEF Inv

LEMMA ObserveInv == Inv /\ Observe => Inv'
<1> SUFFICES ASSUME Inv, Observe PROVE Inv'
  OBVIOUS
<1>1. PICK s \in Samples, retried \in BOOLEAN :
        ObserveFirst(s) \/ ObserveSwapped(s) \/ ObserveAgain(s, retried)
  BY DEF Observe
<1>2. CASE ObserveFirst(s)
  BY <1>2, FirstRowInv DEF ObserveFirst, Inv, NothingYet
<1>3. CASE ObserveSwapped(s)
  BY <1>3, FirstRowInv DEF ObserveSwapped
<1>4. CASE ObserveAgain(s, retried)
  BY <1>4, ObserveAgainInv
<1> QED BY <1>1, <1>2, <1>3, <1>4

LEMMA FailInv == Inv /\ Fail => Inv'
<1> SUFFICES ASSUME Inv, Fail PROVE Inv'
  OBVIOUS
<1>1. /\ clock' = clock /\ gpu' = gpu /\ usage' = usage /\ capacity' = capacity
      /\ before' = before /\ rest' = 0 /\ host' = "failed" /\ gone' = gone /\ cut' = cut
      /\ lost' = lost \union LostSince
      /\ rest \in Nat /\ rest = Spacing /\ Spacing \in Nat /\ clock \in Int
  BY TimesAssumption DEF Fail, Inv, TypeOK, Instants, deletions
<1>2. TypeOK'
  <2>1. lost \subseteq Instants /\ LostSince \subseteq Instants
    BY DEF Inv, TypeOK, LostSince, Span
  <2>2. lost' \subseteq Instants
    BY <1>1, <2>1
  <2>3. rest' \in 0 .. Spacing
    BY <1>1
  <2> QED BY <1>1, <2>2, <2>3 DEF Inv, TypeOK
<1>3. Ordered(usage)' /\ Ordered(capacity)'
  BY <1>1 DEF Inv, Ordered
<1>4. NothingYet' /\ TablesPast' /\ GapsWide' /\ GonePast'
  BY <1>1 DEF Inv, NothingYet, TablesPast, GapsWide, GonePast, LostSince
<1>5. SampleAged'
  <2>1. gpu # NoRow => gpu.seen \in Int
    BY DEF Inv, TypeOK, Rows
  <2> QED BY <1>1, <2>1 DEF Inv, SampleAged
<1>6. LossesPast'
  BY <1>1 DEF Inv, LossesPast, LostSince, Span
<1>7. LostNeverFilled'
  <2> SUFFICES ASSUME NEW t \in lost', t \in Covered(capacity) PROVE FALSE
    BY <1>1 DEF LostNeverFilled, Covered, CoveredBy, Span
  <2>1. t \notin lost
    BY DEF Inv, LostNeverFilled
  <2>2. gpu # NoRow /\ gpu.seen <= t /\ gpu.seen \in Int
    BY <1>1, <2>1 DEF LostSince, Span, Inv, TypeOK, Rows
  <2>3. t \in Int /\ Holds(capacity, t)
    BY CoveredHolds, TimesAssumption DEF Instants
  <2>4. Until(capacity, gpu.seen) /\ \A i \in DOMAIN capacity : capacity[i].to \in Int
    BY <2>2, RowsAreIntervals DEF Inv, TypeOK, TablesPast, Intervals
  <2> QED BY <2>2, <2>3, <2>4 DEF Until, Holds
<1> QED BY <1>2, <1>3, <1>4, <1>5, <1>6, <1>7 DEF Inv

LEMMA AdvanceInv == Inv /\ Advance => Inv'
<1> SUFFICES ASSUME Inv, Advance PROVE Inv'
  OBVIOUS
<1>1. /\ clock' = clock + 1 /\ clock < MaxTime /\ clock \in Nat /\ MaxTime \in Nat
      /\ Spacing \in Nat /\ rest \in 0 .. Spacing
      /\ rest' \in 0 .. Spacing /\ rest' <= rest + 1
      /\ UNCHANGED <<host, gpu, usage, capacity, lost, before, cut, gone>>
  BY TimesAssumption DEF Advance, Inv, TypeOK, Instants, deletions
<1>2. TypeOK'
  BY <1>1 DEF Inv, TypeOK, Instants
<1>3. Ordered(usage)' /\ Ordered(capacity)' /\ LostNeverFilled'
  BY <1>1 DEF Inv, Ordered, LostNeverFilled, Covered, CoveredBy, Span
<1>4. NothingYet' /\ TablesPast' /\ GapsWide' /\ GonePast'
  BY <1>1 DEF Inv, NothingYet, TablesPast, GapsWide, GonePast
<1>5. SampleAged'
  <2>1. gpu # NoRow => gpu.seen \in Int
    BY DEF Inv, TypeOK, Rows
  <2> QED BY <1>1, <2>1 DEF Inv, SampleAged
<1>6. LossesPast'
  <2>1. \A t \in lost : t \in Int
    BY TimesAssumption DEF Inv, TypeOK, Instants
  <2> QED BY <1>1, <2>1 DEF Inv, LossesPast
<1> QED BY <1>2, <1>3, <1>4, <1>5, <1>6 DEF Inv

(* What the maintenance deletes.                                           *)
Deletes(u, c) ==
  /\ ExpiredRows(usage, u, cut') /\ usage' \in Seq(UsageRows) /\ Leaves(usage, u, usage')
  /\ ExpiredRows(capacity, c, cut') /\ capacity' \in Seq(CapacityRows) /\ Leaves(capacity, c, capacity')
  /\ gone' = [observed |-> gone.observed \union CoveredBy(capacity, 1 .. c),
              busy     |-> gone.busy \union CoveredBy(usage, 1 .. u),
              charged  |-> gone.charged \union CoveredBy(usage, Charged(1 .. u))]

LEMMA ForgetFacts ==
  ASSUME Inv, Forget
  PROVE  /\ gpu # NoRow /\ gpu.seen \in Int
         /\ cut' \in Instants /\ cut' \in Int /\ cut \in Int /\ cut < cut'
         /\ UNCHANGED <<clock, rest, host, gpu, lost, before>>
         /\ \E u \in 0 .. Len(usage), c \in 0 .. Len(capacity) : Deletes(u, c)
<1>1. PICK u \in 0 .. Len(usage), c \in 0 .. Len(capacity) : u + c > 0 /\ Deletes(u, c)
  <2>1. PICK u \in 0 .. Len(usage), c \in 0 .. Len(capacity) :
          /\ u + c > 0
          /\ ExpiredRows(usage, u, cut') /\ ExpiredRows(capacity, c, cut')
          /\ usage' = SubSeq(usage, u + 1, Len(usage))
          /\ capacity' = SubSeq(capacity, c + 1, Len(capacity))
          /\ gone' = [observed |-> gone.observed \union CoveredBy(capacity, 1 .. c),
                      busy     |-> gone.busy \union CoveredBy(usage, 1 .. u),
                      charged  |-> gone.charged \union CoveredBy(usage, Charged(1 .. u))]
    BY DEF Forget
  <2>2. usage \in Seq(UsageRows) /\ capacity \in Seq(CapacityRows)
    BY DEF Inv, TypeOK
  <2>3. usage' \in Seq(UsageRows) /\ Leaves(usage, u, usage')
    BY ONLY <2>1, <2>2, SubSeqLeaves
  <2>4. capacity' \in Seq(CapacityRows) /\ Leaves(capacity, c, capacity')
    BY ONLY <2>1, <2>2, SubSeqLeaves
  <2> QED BY <2>1, <2>3, <2>4 DEF Deletes
<1>2. gpu # NoRow
  <2> SUFFICES ASSUME usage = <<>>, capacity = <<>> PROVE FALSE
    BY DEF Inv, NothingYet
  <2>1. Len(usage) = 0 /\ Len(capacity) = 0
    OBVIOUS
  <2> QED BY <1>1, <2>1
<1>3. gpu.seen \in Int
  BY <1>2 DEF Inv, TypeOK, Rows
<1>4. cut' \in Instants /\ cut' \in Int /\ cut \in Int /\ cut < cut'
  <2>1. cut' \in cut + 1 .. clock - Retention
    BY DEF Forget
  <2>2. clock \in 0 .. MaxTime /\ cut \in 0 .. MaxTime /\ Retention \in Nat /\ MaxTime \in Nat
    BY TimesAssumption DEF Inv, TypeOK, Instants
  <2> QED BY <2>1, <2>2 DEF Instants
<1> QED BY <1>1, <1>2, <1>3, <1>4 DEF Forget

LEMMA ForgetInv == Inv /\ Forget => Inv'
<1> SUFFICES ASSUME Inv, Forget PROVE Inv'
  OBVIOUS
<1>1. PICK u \in 0 .. Len(usage), c \in 0 .. Len(capacity) : Deletes(u, c)
  BY ForgetFacts
<1>2. /\ gpu # NoRow /\ gpu.seen \in Int /\ cut' \in Instants /\ cut' \in Int
      /\ UNCHANGED <<clock, rest, host, gpu, lost, before>>
  BY ForgetFacts
<1>3. /\ usage' \in Seq(UsageRows) /\ Ordered(usage') /\ Until(usage', gpu.seen)
      /\ Joins(usage', gpu.seen)
  BY ONLY <1>1, <1>2, Tables, RowsAreIntervals, Shortened, Inv DEF Deletes
<1>4. /\ capacity' \in Seq(CapacityRows) /\ Ordered(capacity') /\ Until(capacity', gpu.seen)
      /\ Joins(capacity', gpu.seen)
  BY ONLY <1>1, <1>2, Tables, RowsAreIntervals, Shortened, Inv DEF Deletes
<1>5. ASSUME NEW S, Intervals(S), NEW table \in Seq(S), Until(table, gpu.seen),
             NEW rows \in SUBSET DOMAIN table
      PROVE  CoveredBy(table, rows) \in SUBSET Instants /\ Before(CoveredBy(table, rows), gpu.seen)
  <2>1. \A i \in DOMAIN table : table[i].to \in Int /\ table[i].to <= gpu.seen
    BY <1>5 DEF Intervals, Until
  <2>2. \A t \in Instants : t \in Int
    BY TimesAssumption DEF Instants
  <2> SUFFICES ASSUME NEW t \in CoveredBy(table, rows) PROVE t \in Instants /\ t < gpu.seen
    BY DEF Before
  <2>3. PICK i \in rows : t \in Span(table[i].from, table[i].to)
    BY DEF CoveredBy
  <2>4. t \in Instants /\ t < table[i].to /\ i \in DOMAIN table
    BY <2>3 DEF Span
  <2> QED BY ONLY <1>2, <2>1, <2>2, <2>4
<1>6. /\ CoveredBy(capacity, 1 .. c) \in SUBSET Instants
      /\ Before(CoveredBy(capacity, 1 .. c), gpu.seen)
  <2>1. 1 .. c \in SUBSET DOMAIN capacity
    BY <1>2, Tables
  <2> QED BY <1>2, <1>5, <2>1, Tables, RowsAreIntervals
<1>7. /\ CoveredBy(usage, 1 .. u) \in SUBSET Instants
      /\ Before(CoveredBy(usage, 1 .. u), gpu.seen)
      /\ CoveredBy(usage, Charged(1 .. u)) \in SUBSET Instants
      /\ Before(CoveredBy(usage, Charged(1 .. u)), gpu.seen)
  <2>1. 1 .. u \in SUBSET DOMAIN usage /\ Charged(1 .. u) \in SUBSET DOMAIN usage
    BY <1>2, Tables DEF Charged
  <2> QED BY <1>2, <1>5, <2>1, Tables, RowsAreIntervals
<1>8. /\ gone.observed \in SUBSET Instants /\ Before(gone.observed, gpu.seen)
      /\ gone.busy \in SUBSET Instants /\ Before(gone.busy, gpu.seen)
      /\ gone.charged \in SUBSET Instants /\ Before(gone.charged, gpu.seen)
  BY <1>2 DEF Inv, TypeOK, GonePast
<1>9. TypeOK'
  <2>1. gone' \in [observed : SUBSET Instants, busy : SUBSET Instants, charged : SUBSET Instants]
    BY <1>1, <1>6, <1>7, <1>8 DEF Deletes
  <2> QED BY <1>2, <1>3, <1>4, <2>1 DEF Inv, TypeOK
<1>10. GonePast'
  BY <1>1, <1>2, <1>6, <1>7, <1>8 DEF Deletes, GonePast, Before
<1>11. NothingYet' /\ SampleAged' /\ TablesPast' /\ GapsWide' /\ LossesPast'
  BY <1>2, <1>3, <1>4 DEF Inv, NothingYet, SampleAged, TablesPast, GapsWide, LossesPast
<1>12. LostNeverFilled'
  <2> SUFFICES ASSUME NEW t \in lost, t \in Covered(capacity') PROVE FALSE
    BY <1>2 DEF LostNeverFilled, Covered, CoveredBy, Span
  <2>1. t \in Instants /\ t \in Int /\ Holds(capacity', t)
    BY CoveredHolds, TimesAssumption DEF Instants
  <2>2. Holds(capacity, t)
    BY <1>1, <1>2, <2>1, Tables, RowsAreIntervals, ShortenedHolds DEF Deletes
  <2> QED BY <2>1, <2>2, CoveredHolds DEF Inv, LostNeverFilled
<1> QED BY <1>3, <1>4, <1>9, <1>10, <1>11, <1>12 DEF Inv

LEMMA NextInv == Inv /\ [Next]_vars => Inv'
<1> SUFFICES ASSUME Inv, [Next]_vars PROVE Inv'
  OBVIOUS
<1>1. CASE UNCHANGED vars
  <2>1. UNCHANGED <<clock, rest, host, gpu, usage, capacity, lost, before, cut, gone>>
    BY <1>1 DEF vars, deletions
  <2>2. TypeOK'
    BY <2>1 DEF Inv, TypeOK
  <2>3. Ordered(usage)' /\ Ordered(capacity)' /\ LostNeverFilled'
    BY <2>1 DEF Inv, Ordered, LostNeverFilled, Covered, CoveredBy, Span
  <2>4. NothingYet' /\ SampleAged' /\ TablesPast' /\ GapsWide' /\ LossesPast' /\ GonePast'
    BY <2>1 DEF Inv, NothingYet, SampleAged, TablesPast, GapsWide, LossesPast, GonePast, Until
  <2> QED BY <2>2, <2>3, <2>4 DEF Inv
<1> QED BY <1>1, ObserveInv, FailInv, AdvanceInv, ForgetInv DEF Next

(* The invariant holds of every state the accounting can reach.            *)
THEOREM Invariance == Spec => []Inv
BY InitInv, NextInv, PTL DEF Spec

-------------------------------------------------------------------------------
(* The variables keep their types: the clock never runs past its bound and *)
(* the rows hold what the tables can hold.                                 *)
THEOREM TypeCorrectness == Spec => []TypeOK
<1>1. Inv => TypeOK
  BY DEF Inv
<1> QED BY <1>1, Invariance, PTL

(* Busy time is never counted twice: whatever was sampled, lost, retried   *)
(* or swapped, no two intervals of a table overlap.                        *)
THEOREM NoOverlap == Spec => []IntervalsDisjoint
<1>1. Inv => IntervalsDisjoint
  <2> SUFFICES ASSUME Inv PROVE IntervalsDisjoint
    OBVIOUS
  <2>1. /\ \A i \in DOMAIN usage : i \in Int
        /\ \A i \in DOMAIN capacity : i \in Int
    BY DEF Inv, TypeOK
  <2> QED BY <2>1 DEF Inv, IntervalsDisjoint, Disjoint, Ordered
<1> QED BY <1>1, Invariance, PTL

(* Time lost to a failure, to a retry or to too long a silence is never    *)
(* filled in, neither by a new row nor by extending an old one.            *)
THEOREM LossIsFinal == Spec => []LostNeverFilled
<1>1. Inv => LostNeverFilled
  BY DEF Inv
<1> QED BY <1>1, Invariance, PTL

-------------------------------------------------------------------------------
(* The books: what the row claims of the GPU is what the tables hold.      *)

(* The two tables agree on every instant of which rows are kept.           *)
TablesAgree == \A t \in Kept : Holds(usage, t) <=> CoversAs(capacity, TRUE, t)

(* The state that is shown was recorded from gpu.since on.                 *)
SinceRecorded ==
  gpu # NoRow =>
    /\ gpu.seen \in Instants /\ gpu.since \in Instants
    /\ \A t \in Kept : gpu.since <= t /\ t < gpu.seen => CoversAs(capacity, gpu.busy, t)

OwnersOf(procs) == {Owner[p] : p \in procs}

(* Who is shown has a process now; only while nothing runs any more is it  *)
(* somebody of the sample before.                                          *)
OwnerNow ==
  gpu # NoRow /\ gpu.busy =>
    gpu.last_user \subseteq OwnersOf(IF DOMAIN gpu.procs = {} THEN before ELSE DOMAIN gpu.procs)

Books == TablesAgree /\ SinceRecorded /\ OwnerNow /\ TotalsMatch

(* What the tables hold after a sample.                                    *)
LEMMA PeriodHeld ==
  ASSUME Inv, Observe, gpu # NoRow, NEW s \in Samples, NEW counted \in BOOLEAN, Period(s, counted)
  PROVE  \A t \in Int :
           LET during == counted /\ gpu.seen <= t /\ t < clock
           IN  /\ Holds(capacity', t) <=> Holds(capacity, t) \/ during
               /\ Holds(usage', t) <=> Holds(usage, t) \/ (during /\ gpu.busy)
               /\ \A busy \in BOOLEAN :
                    CoversAs(capacity', busy, t) <=>
                      CoversAs(capacity, busy, t) \/ (during /\ gpu.busy = busy)
               /\ \A users \in SUBSET Users :
                    CoversFor(usage', users, t) <=>
                      CoversFor(usage, users, t)
                        \/ (during /\ gpu.busy /\ Attributable(gpu.procs) = users)
<1> SUFFICES ASSUME NEW t \in Int
             PROVE  LET during == counted /\ gpu.seen <= t /\ t < clock
                    IN  /\ Holds(capacity', t) <=> Holds(capacity, t) \/ during
                        /\ Holds(usage', t) <=> Holds(usage, t) \/ (during /\ gpu.busy)
                        /\ \A busy \in BOOLEAN :
                             CoversAs(capacity', busy, t) <=>
                               CoversAs(capacity, busy, t) \/ (during /\ gpu.busy = busy)
                        /\ \A users \in SUBSET Users :
                             CoversFor(usage', users, t) <=>
                               CoversFor(usage, users, t)
                                 \/ (during /\ gpu.busy /\ Attributable(gpu.procs) = users)
  OBVIOUS
<1> DEFINE during == counted /\ gpu.seen <= t /\ t < clock
<1>1. gpu.seen \in Int /\ gpu.seen < clock /\ gpu.seen <= clock /\ clock \in Int
  BY SampleBefore, Clocks
<1>2. /\ Covers(CapacityRow, t) <=> gpu.seen <= t /\ t < clock
      /\ Covers(UsageRow, t) <=> gpu.seen <= t /\ t < clock
  BY NewRows DEF Covers
<1>3. CASE ~counted
  <2>1. capacity' = capacity /\ usage' = usage
    BY <1>3 DEF Period
  <2> QED BY <1>3, <2>1
<1>4. CASE counted
  <2>1. capacity' = RecordCapacity(capacity, CapacityRow)
    BY <1>4 DEF Period
  <2>2. /\ Holds(capacity', t) <=> Holds(capacity, t) \/ during
        /\ \A busy \in BOOLEAN :
             CoversAs(capacity', busy, t) <=>
               CoversAs(capacity, busy, t) \/ (during /\ gpu.busy = busy)
    <3>1. /\ Holds(capacity', t) <=> Holds(capacity, t) \/ Covers(CapacityRow, t)
          /\ \A busy \in BOOLEAN :
               CoversAs(capacity', busy, t) <=>
                 CoversAs(capacity, busy, t)
                   \/ (CapacityRow.busy = busy /\ Covers(CapacityRow, t))
      BY <1>1, <2>1, NewRows, Tables, RecordCapacityCovers
    <3>2. CapacityRow.busy = gpu.busy
      BY NewRows
    <3> QED BY ONLY <1>2, <1>4, <3>1, <3>2
  <2>3. CASE ~gpu.busy
    <3>1. usage' = usage
      BY <2>3 DEF Period
    <3> QED BY <2>2, <2>3, <3>1
  <2>4. CASE gpu.busy
    <3>1. usage' = RecordBusy(usage, UsageRow)
      BY <1>4, <2>4 DEF Period
    <3>2. /\ Holds(usage', t) <=> Holds(usage, t) \/ Covers(UsageRow, t)
          /\ \A users \in SUBSET Users :
               CoversFor(usage', users, t) <=>
                 CoversFor(usage, users, t) \/ (UsageRow.users = users /\ Covers(UsageRow, t))
      BY <1>1, <3>1, NewRows, Tables, RecordBusyCovers
    <3>3. UsageRow.users = Attributable(gpu.procs)
      BY NewRows
    <3> HIDE DEF during
    <3>4. during <=> gpu.seen <= t /\ t < clock
      BY <1>4 DEF during
    <3>5. /\ Holds(usage', t) <=> Holds(usage, t) \/ (during /\ gpu.busy)
          /\ \A users \in SUBSET Users :
               CoversFor(usage', users, t) <=>
                 CoversFor(usage, users, t)
                   \/ (during /\ gpu.busy /\ Attributable(gpu.procs) = users)
      BY ONLY <1>2, <2>4, <3>2, <3>3, <3>4
    <3> QED BY <2>2, <3>5 DEF during
  <2> QED BY <2>3, <2>4
<1> QED BY <1>3, <1>4


LEMMA AgreeStep ==
  ASSUME Inv, TablesAgree, Observe, gpu # NoRow,
         NEW s \in Samples, NEW counted \in BOOLEAN, Period(s, counted)
  PROVE  TablesAgree'
<1> SUFFICES ASSUME NEW t \in Kept
             PROVE  Holds(usage', t) <=> CoversAs(capacity', TRUE, t)
  BY Clocks DEF TablesAgree, Kept
<1> DEFINE during == counted /\ gpu.seen <= t /\ t < clock
<1>1. t \in Int
  BY TimesAssumption DEF Kept, Instants
<1>2. /\ Holds(usage', t) <=> Holds(usage, t) \/ (during /\ gpu.busy)
      /\ CoversAs(capacity', TRUE, t) <=> CoversAs(capacity, TRUE, t) \/ (during /\ gpu.busy = TRUE)
  BY <1>1, PeriodHeld
<1>3. Holds(usage, t) <=> CoversAs(capacity, TRUE, t)
  BY DEF TablesAgree
<1>4. gpu.busy <=> gpu.busy = TRUE
  BY SampleBefore
<1> HIDE DEF during
<1> QED BY <1>2, <1>3, <1>4

LEMMA SinceStep ==
  ASSUME Inv, SinceRecorded, Observe, gpu # NoRow,
         NEW s \in Samples, NEW counted \in BOOLEAN, Period(s, counted)
  PROVE  SinceRecorded'
<1>1. gpu'.seen = clock /\ gpu'.since = Since(s, counted) /\ gpu'.busy = s.busy
  BY DEF Period, NextRow
<1>2. clock \in Instants /\ gpu.since \in Instants
  BY Clocks DEF SinceRecorded
<1>3. gpu'.since \in Instants
  BY <1>1, <1>2 DEF Since
<1>4. ASSUME NEW t \in Kept, gpu'.since <= t, t < gpu'.seen
      PROVE  CoversAs(capacity', gpu'.busy, t)
  <2>1. t \in Int /\ clock \in Int /\ gpu.seen \in Int
    BY SampleBefore, Clocks, TimesAssumption DEF Kept, Instants
  <2>2. counted /\ s.busy = gpu.busy /\ gpu.since <= t
    BY <1>1, <1>4, <2>1 DEF Since
  <2>3. t < gpu.seen => CoversAs(capacity, gpu.busy, t)
    BY <2>2 DEF SinceRecorded
  <2>4. gpu.busy \in BOOLEAN
    BY SampleBefore
  <2>5. CoversAs(capacity', gpu.busy, t) <=>
          CoversAs(capacity, gpu.busy, t)
            \/ ((counted /\ gpu.seen <= t /\ t < clock) /\ gpu.busy = gpu.busy)
    BY <2>1, <2>4, PeriodHeld
  <2>6. t < clock /\ (t < gpu.seen \/ gpu.seen <= t)
    BY <1>1, <1>4, <2>1
  <2>7. CoversAs(capacity', gpu.busy, t)
    BY <2>2, <2>3, <2>5, <2>6, Zenon
  <2> QED BY <1>1, <2>2, <2>7
<1>5. Kept' = Kept
  BY Clocks DEF Kept
<1> QED BY <1>1, <1>2, <1>3, <1>4, <1>5 DEF SinceRecorded

LEMMA OwnerStep ==
  ASSUME Inv, OwnerNow, Observe, gpu # NoRow,
         NEW s \in Samples, NEW counted \in BOOLEAN, Period(s, counted)
  PROVE  OwnerNow'
<1> DEFINE procs == IF s.busy THEN CarryOwners(gpu.procs, s.procs) ELSE s.procs
<1>1. /\ gpu'.busy = s.busy /\ gpu'.procs = procs
      /\ gpu'.last_user = LastUser(s, procs, counted)
      /\ before' = DOMAIN gpu.procs
  BY DEF Period, NextRow
<1> HIDE DEF procs
<1>2. \A c : Confirmed(c) \subseteq OwnersOf(DOMAIN c)
  BY DEF Confirmed, OwnersOf
<1>3. ASSUME s.busy
      PROVE  LastUser(s, procs, counted) \subseteq
               OwnersOf(IF DOMAIN procs = {} THEN DOMAIN gpu.procs ELSE DOMAIN procs)
  <2>1. CASE ~gpu.busy \/ Confirmed(procs) # {} \/ ~counted
    <3>1. LastUser(s, procs, counted) \subseteq Confirmed(procs)
      BY <1>3, <2>1 DEF LastUser, OwnerStillBusy
    <3>2. DOMAIN procs = {} => Confirmed(procs) = {}
      BY DEF Confirmed
    <3> QED BY <1>2, <3>1, <3>2
  <2>2. CASE gpu.busy /\ Confirmed(procs) = {} /\ counted
    <3>1. LastUser(s, procs, counted) =
            IF SameCohort(gpu.procs, procs) \/ Grace(gpu.procs, procs, gpu.last_user)
            THEN gpu.last_user ELSE {}
      BY <1>3, <2>2 DEF LastUser, OwnerStillBusy
    <3>2. DOMAIN gpu.procs # {} => gpu.last_user \subseteq OwnersOf(DOMAIN gpu.procs)
      BY <2>2 DEF OwnerNow
    <3>3. CASE SameCohort(gpu.procs, procs)
      BY <3>1, <3>2, <3>3 DEF SameCohort
    <3>4. CASE Grace(gpu.procs, procs, gpu.last_user)
      <4>1. DOMAIN gpu.procs # {} /\ DOMAIN procs = {}
        BY <3>4 DEF Grace, Confirmed
      <4> QED BY <3>1, <3>2, <4>1
    <3> QED BY <3>1, <3>3, <3>4
  <2> QED BY <2>1, <2>2
<1>4. SUFFICES ASSUME s.busy
               PROVE  gpu'.last_user \subseteq
                        OwnersOf(IF DOMAIN gpu'.procs = {} THEN before' ELSE DOMAIN gpu'.procs)
  BY <1>1 DEF OwnerNow
<1> QED BY <1>1, <1>3, <1>4


(* Sets of instants, and how many there are.                               *)
LEMMA InstantsFinite ==
  /\ IsFiniteSet(Instants)
  /\ \A table, rows : CoveredBy(table, rows) \subseteq Instants
<1>1. IsFiniteSet(Instants)
  BY TimesAssumption, FS_Interval DEF Instants
<1> QED BY <1>1 DEF CoveredBy, Span

LEMMA SpanLength ==
  ASSUME NEW from \in Instants, NEW to \in Instants, from <= to
  PROVE  IsFiniteSet(Span(from, to)) /\ Cardinality(Span(from, to)) = to - from
<1>1. Span(from, to) = from .. (to - 1) /\ from \in Int /\ to - 1 \in Int
  BY TimesAssumption DEF Span, Instants
<1>2. /\ IsFiniteSet(from .. (to - 1))
      /\ Cardinality(from .. (to - 1)) = IF from > to - 1 THEN 0 ELSE (to - 1) - from + 1
  BY <1>1, FS_Interval
<1> QED BY <1>1, <1>2

(* Instants that follow all the others count once more.                    *)
LEMMA CountMore ==
  ASSUME NEW S \in SUBSET Instants, NEW from \in Instants, NEW to \in Instants, from <= to,
         \A t \in S : t < from
  PROVE  Cardinality(S \union Span(from, to)) = Cardinality(S) + (to - from)
<1>1. IsFiniteSet(S) /\ IsFiniteSet(Span(from, to))
  BY InstantsFinite, SpanLength, FS_Subset
<1>2. S \intersect Span(from, to) = {}
  BY TimesAssumption DEF Span, Instants
<1>3. Cardinality(S \intersect Span(from, to)) = 0
  BY <1>2, FS_EmptySet
<1>4. Cardinality(S \union Span(from, to)) =
        Cardinality(S) + Cardinality(Span(from, to)) - Cardinality(S \intersect Span(from, to))
  BY <1>1, FS_Union
<1>5. Cardinality(S) \in Nat /\ to - from \in Int
  BY <1>1, FS_CardinalityType, TimesAssumption DEF Instants
<1> QED BY <1>3, <1>4, <1>5, SpanLength

LEMMA ChargedHolds ==
  ASSUME NEW table \in Seq(UsageRows), NEW t \in Instants
  PROVE  t \in CoveredBy(table, {i \in DOMAIN table : table[i].users # {}}) <=>
           \E users \in SUBSET Users : users # {} /\ CoversFor(table, users, t)
<1>1. \A i \in DOMAIN table : table[i] \in UsageRows
  OBVIOUS
<1>2. \A i \in DOMAIN table : table[i].users \in SUBSET Users
  BY <1>1 DEF UsageRows
<1> QED BY <1>2 DEF CoveredBy, CoversFor, Covers, Span

LEMMA TotalsStep ==
  ASSUME Inv, SinceRecorded, TotalsMatch, Inv', Observe, gpu # NoRow,
         NEW s \in Samples, NEW counted \in BOOLEAN, Period(s, counted)
  PROVE  TotalsMatch'
<1> DEFINE during == IF counted THEN Span(gpu.seen, clock) ELSE {}
           add    == IF counted THEN Elapsed ELSE 0
<1>1. /\ gpu.seen \in Instants /\ clock \in Instants /\ gpu.seen <= clock
      /\ gpu.seen \in Int /\ clock \in Int /\ gpu.seen < clock
  BY SampleBefore, Clocks DEF SinceRecorded
<1>2. add = IF counted THEN clock - gpu.seen ELSE 0
  BY <1>1 DEF Elapsed
<1>3. \A t \in Instants : t \in Int /\ (t \in during <=> counted /\ gpu.seen <= t /\ t < clock)
  BY TimesAssumption DEF Span, Instants
<1>4. ASSUME NEW S \in SUBSET Instants, \A t \in S : t < gpu.seen
      PROVE  Cardinality(S \union during) = Cardinality(S) + add /\ Cardinality(S) \in Nat
  <2>1. Cardinality(S) \in Nat
    BY InstantsFinite, FS_Subset, FS_CardinalityType
  <2>2. counted => Cardinality(S \union during) = Cardinality(S) + (clock - gpu.seen)
    BY <1>1, <1>4, CountMore
  <2>3. ~counted => S \union during = S
    OBVIOUS
  <2> QED BY <1>2, <2>1, <2>2, <2>3
<1>5. /\ \A i \in DOMAIN capacity : capacity[i].to \in Int /\ capacity[i].to <= gpu.seen
      /\ \A i \in DOMAIN usage : usage[i].to \in Int /\ usage[i].to <= gpu.seen
  BY Tables, RowsAreIntervals DEF Intervals, Until
<1>6. /\ Covered(capacity) \in SUBSET Instants /\ \A t \in Covered(capacity) : t < gpu.seen
      /\ Covered(usage) \in SUBSET Instants /\ \A t \in Covered(usage) : t < gpu.seen
      /\ CoveredBy(usage, Charged(DOMAIN usage)) \in SUBSET Instants
      /\ \A t \in CoveredBy(usage, Charged(DOMAIN usage)) : t < gpu.seen
  <2>1. /\ Covered(capacity) \in SUBSET Instants /\ Covered(usage) \in SUBSET Instants
        /\ CoveredBy(usage, Charged(DOMAIN usage)) \in SUBSET Instants
    BY InstantsFinite DEF Covered
  <2>2. ASSUME NEW t \in Covered(capacity) PROVE t < gpu.seen
    <3>1. t \in Instants /\ t \in Int /\ Holds(capacity, t)
      BY <1>3, CoveredHolds
    <3> QED BY <1>1, <1>5, <3>1 DEF Holds
  <2>3. ASSUME NEW t \in Covered(usage) PROVE t < gpu.seen
    <3>1. t \in Instants /\ t \in Int /\ Holds(usage, t)
      BY <1>3, CoveredHolds
    <3> QED BY <1>1, <1>5, <3>1 DEF Holds
  <2>4. CoveredBy(usage, Charged(DOMAIN usage)) \subseteq Covered(usage)
    BY DEF Covered, CoveredBy, Charged
  <2> QED BY <2>1, <2>2, <2>3, <2>4
<1>g. /\ gone' = gone
      /\ gone.observed \in SUBSET Instants /\ \A t \in gone.observed : t < gpu.seen
      /\ gone.busy \in SUBSET Instants /\ \A t \in gone.busy : t < gpu.seen
      /\ gone.charged \in SUBSET Instants /\ \A t \in gone.charged : t < gpu.seen
  BY DEF Period, Inv, TypeOK, GonePast, Before
<1>7. /\ Covered(capacity)' \subseteq Instants /\ Covered(usage)' \subseteq Instants
      /\ CoveredBy(usage, Charged(DOMAIN usage))' \subseteq Instants
      /\ during \subseteq Instants
  BY DEF Covered, CoveredBy, Span
<1>8. Covered(capacity)' = Covered(capacity) \union during
  <2>1. ASSUME NEW t \in Instants
        PROVE  t \in Covered(capacity)' <=> t \in Covered(capacity) \union during
    <3>1. Holds(capacity', t) <=> Holds(capacity, t) \/ (counted /\ gpu.seen <= t /\ t < clock)
      BY <1>3, PeriodHeld
    <3>2. t \in Covered(capacity') <=> Holds(capacity', t)
      BY CoveredHolds
    <3>3. t \in Covered(capacity) <=> Holds(capacity, t)
      BY CoveredHolds
    <3> HIDE DEF during
    <3> QED BY <1>3, <3>1, <3>2, <3>3
  <2> QED BY <1>6, <1>7, <2>1
<1>9. Covered(usage)' = Covered(usage) \union (IF gpu.busy THEN during ELSE {})
  <2>1. ASSUME NEW t \in Instants
        PROVE  t \in Covered(usage)' <=> t \in Covered(usage) \/ (gpu.busy /\ t \in during)
    <3>1. Holds(usage', t) <=>
            Holds(usage, t) \/ ((counted /\ gpu.seen <= t /\ t < clock) /\ gpu.busy)
      BY <1>3, PeriodHeld
    <3>2. t \in Covered(usage') <=> Holds(usage', t)
      BY CoveredHolds
    <3>3. t \in Covered(usage) <=> Holds(usage, t)
      BY CoveredHolds
    <3> HIDE DEF during
    <3> QED BY <1>3, <3>1, <3>2, <3>3
  <2> QED BY <1>6, <1>7, <2>1
<1> DEFINE paying == gpu.busy /\ Attributable(gpu.procs) # {}
<1>10. CoveredBy(usage, Charged(DOMAIN usage))' =
         CoveredBy(usage, Charged(DOMAIN usage)) \union (IF paying THEN during ELSE {})
  <2>1. ASSUME NEW t \in Instants
        PROVE  t \in CoveredBy(usage, Charged(DOMAIN usage))' <=>
                 t \in CoveredBy(usage, Charged(DOMAIN usage)) \/ (paying /\ t \in during)
    <3>1. usage \in Seq(UsageRows) /\ usage' \in Seq(UsageRows)
      BY DEF Inv, TypeOK
    <3>2. \A users \in SUBSET Users :
             CoversFor(usage', users, t) <=>
               CoversFor(usage, users, t)
                 \/ ((counted /\ gpu.seen <= t /\ t < clock) /\ gpu.busy
                       /\ Attributable(gpu.procs) = users)
      BY <1>3, PeriodHeld
    <3>3. t \in CoveredBy(usage, Charged(DOMAIN usage)) <=>
            \E users \in SUBSET Users : users # {} /\ CoversFor(usage, users, t)
      BY <3>1, ChargedHolds DEF Charged
    <3>4. t \in CoveredBy(usage, Charged(DOMAIN usage))' <=>
            \E users \in SUBSET Users : users # {} /\ CoversFor(usage', users, t)
      BY <3>1, ChargedHolds DEF Charged
    <3>5. Attributable(gpu.procs) \in SUBSET Users
      BY SampleBefore, ConfirmedType
    <3>6. t \in during <=> counted /\ gpu.seen <= t /\ t < clock
      BY <1>3
    <3> HIDE DEF during
    <3> QED BY <3>2, <3>3, <3>4, <3>5, <3>6
  <2> QED BY <1>6, <1>7, <2>1
<1> DEFINE observed == Covered(capacity) \union gone.observed
           busy     == Covered(usage) \union gone.busy
           charged  == CoveredBy(usage, Charged(DOMAIN usage)) \union gone.charged
<1>11. /\ gpu.observed_seconds = Cardinality(observed)
       /\ gpu.busy_seconds = Cardinality(busy)
       /\ gpu.user_seconds = Cardinality(charged)
  BY DEF TotalsMatch
<1>12. /\ gpu'.observed_seconds = gpu.observed_seconds + add
       /\ gpu'.busy_seconds = gpu.busy_seconds + (IF gpu.busy THEN add ELSE 0)
       /\ gpu'.user_seconds = gpu.user_seconds + (IF paying THEN add ELSE 0)
  BY DEF Period, NextRow
<1>13. /\ observed \in SUBSET Instants /\ \A t \in observed : t < gpu.seen
       /\ busy \in SUBSET Instants /\ \A t \in busy : t < gpu.seen
       /\ charged \in SUBSET Instants /\ \A t \in charged : t < gpu.seen
  BY <1>6, <1>g
<1> HIDE DEF during, add, paying
<1>14. /\ observed' = observed \union during
       /\ busy' = busy \union (IF gpu.busy THEN during ELSE {})
       /\ charged' = charged \union (IF paying THEN during ELSE {})
  BY <1>8, <1>9, <1>10, <1>g
<1> HIDE DEF observed, busy, charged
<1>15. gpu'.observed_seconds = Cardinality(observed')
  BY <1>4, <1>11, <1>12, <1>13, <1>14
<1>16. gpu'.busy_seconds = Cardinality(busy')
  <2>1. CASE gpu.busy
    BY <1>4, <1>11, <1>12, <1>13, <1>14, <2>1
  <2>2. CASE ~gpu.busy
    <3>1. gpu.busy_seconds \in Nat
      BY SampleBefore DEF Rows
    <3>2. gpu'.busy_seconds = gpu.busy_seconds /\ busy' = busy
      BY ONLY <1>12, <1>14, <2>2, <3>1
    <3> QED BY ONLY <1>11, <3>2
  <2> QED BY <2>1, <2>2
<1>17. gpu'.user_seconds = Cardinality(charged')
  <2>1. CASE paying
    BY <1>4, <1>11, <1>12, <1>13, <1>14, <2>1
  <2>2. CASE ~paying
    <3>1. gpu.user_seconds \in Nat
      BY SampleBefore DEF Rows
    <3>2. gpu'.user_seconds = gpu.user_seconds /\ charged' = charged
      BY ONLY <1>12, <1>14, <2>2, <3>1
    <3> QED BY ONLY <1>11, <3>2
  <2> QED BY <2>1, <2>2
<1> QED BY <1>15, <1>16, <1>17 DEF TotalsMatch, observed, busy, charged


LEMMA FirstBooks ==
  ASSUME Inv, Observe, NEW s \in Samples, gpu' = FirstRow(s), usage' = <<>>, capacity' = <<>>,
         gone' = NothingGone
  PROVE  Books'
<1>1. /\ gpu'.seen = clock /\ gpu'.since = clock /\ gpu'.busy = s.busy /\ gpu'.procs = s.procs
      /\ gpu'.last_user = (IF s.busy THEN Confirmed(s.procs) ELSE {})
      /\ gpu'.observed_seconds = 0 /\ gpu'.busy_seconds = 0 /\ gpu'.user_seconds = 0
  BY DEF FirstRow
<1>2. clock \in Instants /\ clock \in Int /\ \A t \in Instants : t \in Int
  BY Clocks, TimesAssumption DEF Instants
<1>3. TablesAgree'
  BY DEF TablesAgree, Holds, CoversAs
<1>4. SinceRecorded'
  <2>1. \A t \in Kept' : t \in Int
    BY <1>2 DEF Kept
  <2> QED BY <1>1, <1>2, <2>1 DEF SinceRecorded
<1>5. OwnerNow'
  BY <1>1 DEF OwnerNow, OwnersOf, Confirmed
<1>6. TotalsMatch'
  <2>1. Covered(capacity)' = {} /\ Covered(usage)' = {} /\ CoveredBy(usage, Charged(DOMAIN usage))' = {}
    BY DEF Covered, CoveredBy, Charged
  <2> QED BY <1>1, <2>1, FS_EmptySet, NothingGoneFacts DEF TotalsMatch
<1> QED BY <1>3, <1>4, <1>5, <1>6 DEF Books

LEMMA InitBooks == Init => Books
<1> SUFFICES ASSUME Init PROVE Books
  OBVIOUS
<1>1. gpu = NoRow /\ usage = <<>> /\ capacity = <<>>
  BY DEF Init
<1> QED
  BY <1>1 DEF Books, TablesAgree, Holds, CoversAs, SinceRecorded, OwnerNow, TotalsMatch

(* The deletion of old rows leaves the books as they were for the time of  *)
(* which rows are kept, and the totals for all time.                       *)
LEMMA ForgetBooks ==
  ASSUME Inv, Books, Forget
  PROVE  Books'
<1>1. PICK u \in 0 .. Len(usage), c \in 0 .. Len(capacity) : Deletes(u, c)
  BY ForgetFacts
<1>2. /\ gpu # NoRow /\ cut' \in Int /\ cut \in Int /\ cut < cut'
      /\ UNCHANGED <<gpu, before>>
  BY ForgetFacts
<1>3. ASSUME NEW t \in Kept'
      PROVE  /\ t \in Kept
             /\ Holds(usage', t) <=> Holds(usage, t)
             /\ \A busy : CoversAs(capacity', busy, t) <=> CoversAs(capacity, busy, t)
  <2>1. t \in Instants /\ t \in Int /\ t >= cut'
    BY TimesAssumption DEF Kept, Instants
  <2>2. t \in Kept
    BY <1>2, <2>1 DEF Kept
  <2>3. Holds(usage', t) <=> Holds(usage, t)
    BY <1>1, <1>2, <2>1, Tables, RowsAreIntervals, ShortenedHolds DEF Deletes
  <2>4. \A busy : CoversAs(capacity', busy, t) <=> CoversAs(capacity, busy, t)
    BY <1>1, <1>2, <2>1, Tables, RowsAreIntervals, ShortenedHolds DEF Deletes
  <2> QED BY <2>2, <2>3, <2>4
<1>4. TablesAgree'
  BY <1>3 DEF Books, TablesAgree
<1>5. SinceRecorded'
  BY <1>2, <1>3 DEF Books, SinceRecorded
<1>6. OwnerNow'
  BY <1>2 DEF Books, OwnerNow
<1>7. /\ u \in Nat /\ Leaves(usage, u, usage') /\ DOMAIN usage = 1 .. Len(usage) /\ Len(usage) \in Nat
      /\ c \in Nat /\ Leaves(capacity, c, capacity') /\ DOMAIN capacity = 1 .. Len(capacity)
      /\ Len(capacity) \in Nat /\ 1 .. u \subseteq DOMAIN usage /\ 1 .. c \subseteq DOMAIN capacity
  BY <1>1, <1>2, Tables DEF Deletes
<1>8. Covered(capacity)' \union gone'.observed = Covered(capacity) \union gone.observed
  <2>1. CoveredBy(capacity, 1 .. c) \union CoveredBy(capacity', DOMAIN capacity')
        = CoveredBy(capacity, DOMAIN capacity)
    <3>1. Parted(capacity, c, capacity', DOMAIN capacity, 1 .. c, DOMAIN capacity')
      BY <1>7 DEF Leaves, Parted
    <3> QED BY <1>7, <3>1, ShortenedCovers
  <2>2. gone'.observed = gone.observed \union CoveredBy(capacity, 1 .. c)
    BY <1>1 DEF Deletes
  <2> QED BY <2>1, <2>2 DEF Covered
<1>9. Covered(usage)' \union gone'.busy = Covered(usage) \union gone.busy
  <2>1. CoveredBy(usage, 1 .. u) \union CoveredBy(usage', DOMAIN usage')
        = CoveredBy(usage, DOMAIN usage)
    <3>1. Parted(usage, u, usage', DOMAIN usage, 1 .. u, DOMAIN usage')
      BY <1>7 DEF Leaves, Parted
    <3> QED BY <1>7, <3>1, ShortenedCovers
  <2>2. gone'.busy = gone.busy \union CoveredBy(usage, 1 .. u)
    BY <1>1 DEF Deletes
  <2> QED BY <2>1, <2>2 DEF Covered
<1>10. CoveredBy(usage', Charged(DOMAIN usage)') \union gone'.charged
       = CoveredBy(usage, Charged(DOMAIN usage)) \union gone.charged
  <2> DEFINE went == Charged(1 .. u)
             old  == Charged(DOMAIN usage)
             left == Charged(DOMAIN usage)'
  <2>1. Parted(usage, u, usage', old, went, left)
    BY <1>7 DEF Leaves, Charged, Parted
  <2> HIDE DEF went, old, left
  <2>2. CoveredBy(usage, went) \union CoveredBy(usage', left) = CoveredBy(usage, old)
    BY ONLY <1>7, <2>1, ShortenedCovers
  <2>3. gone'.charged = gone.charged \union CoveredBy(usage, went)
    BY <1>1 DEF Deletes, went
  <2> QED BY <2>2, <2>3 DEF old, left
<1>11. TotalsMatch'
  <2>1. CoveredBy(usage, Charged(DOMAIN usage))' = CoveredBy(usage', Charged(DOMAIN usage)')
    OBVIOUS
  <2> QED BY <1>2, <1>8, <1>9, <1>10, <2>1 DEF Books, TotalsMatch
<1> QED BY <1>4, <1>5, <1>6, <1>11 DEF Books

LEMMA NextBooks == Inv /\ Inv' /\ Books /\ [Next]_vars => Books'
<1> SUFFICES ASSUME Inv, Inv', Books, [Next]_vars PROVE Books'
  OBVIOUS
<1>1. ASSUME UNCHANGED <<gpu, usage, capacity, before, cut, gone>> PROVE Books'
  BY <1>1 DEF Books, TablesAgree, Holds, CoversAs, SinceRecorded, OwnerNow, TotalsMatch,
              Covered, CoveredBy, Charged, Kept
<1>2. CASE Observe
  <2>1. PICK s \in Samples, retried \in BOOLEAN :
          ObserveFirst(s) \/ ObserveSwapped(s) \/ ObserveAgain(s, retried)
    BY <1>2 DEF Observe
  <2>2. CASE ObserveFirst(s)
    BY <1>2, <2>2, FirstBooks DEF ObserveFirst, Inv, NothingYet
  <2>3. CASE ObserveSwapped(s)
    BY <1>2, <2>3, FirstBooks DEF ObserveSwapped
  <2>4. CASE ObserveAgain(s, retried)
    <3>1. gpu # NoRow /\ \E counted \in BOOLEAN : Period(s, counted)
      BY <1>2, <2>4, PeriodFacts
    <3> QED BY <1>2, <3>1, AgreeStep, SinceStep, OwnerStep, TotalsStep DEF Books
  <2> QED BY <2>1, <2>2, <2>3, <2>4
<1>3. CASE Fail
  BY <1>1, <1>3 DEF Fail, deletions
<1>4. CASE Advance
  BY <1>1, <1>4 DEF Advance, deletions
<1>5. CASE UNCHANGED vars
  BY <1>1, <1>5 DEF vars, deletions
<1>6. CASE Forget
  BY <1>6, ForgetBooks
<1> QED BY <1>2, <1>3, <1>4, <1>5, <1>6 DEF Next

(* In every reachable state the row and the tables tell the same story.    *)
THEOREM BooksKept == Spec => []Books
BY Invariance, InitBooks, NextBooks, PTL DEF Spec

(* For as long as rows are kept, a GPU is charged for exactly the instants *)
(* at which its capacity is recorded as busy, however rows were joined and *)
(* whatever was lost or deleted.                                           *)
THEOREM ChargedWhileBusy == Spec => []UsageIsBusyCapacity
<1>1. Books => UsageIsBusyCapacity
  <2> SUFFICES ASSUME Books, NEW t \in Kept
               PROVE  t \in Covered(usage) <=> t \in CoveredBy(capacity, RowsAs(TRUE))
    BY DEF UsageIsBusyCapacity
  <2>0. t \in Instants
    BY DEF Kept
  <2>1. t \in Covered(usage) <=> Holds(usage, t)
    BY <2>0, CoveredHolds
  <2>2. t \in CoveredBy(capacity, RowsAs(TRUE)) <=> CoversAs(capacity, TRUE, t)
    BY <2>0 DEF CoveredBy, RowsAs, CoversAs, Covers, Span
  <2> QED BY <2>1, <2>2 DEF Books, TablesAgree
<1> QED BY <1>1, BooksKept, PTL

(* "Busy for" and "free for" reach back over recorded time only, and only  *)
(* over time recorded in the state they speak of, as far as rows are kept. *)
THEOREM DurationsHold == Spec => []DurationsProven
<1>1. Books => DurationsProven
  <2> SUFFICES ASSUME Books, gpu # NoRow, NEW t \in Kept, t \in Span(gpu.since, gpu.seen)
               PROVE  t \in CoveredBy(capacity, RowsAs(gpu.busy))
    BY DEF DurationsProven
  <2>1. t \in Instants /\ CoversAs(capacity, gpu.busy, t)
    BY DEF Span, Books, SinceRecorded
  <2> QED BY <2>1 DEF CoveredBy, RowsAs, CoversAs, Covers, Span
<1> QED BY <1>1, BooksKept, PTL

(* observed_seconds, busy_seconds and user_seconds count the seconds that  *)
(* the tables hold, and those they held before the maintenance deleted     *)
(* rows of this card, each once.                                           *)
THEOREM TotalsHold == Spec => []TotalsMatch
<1>1. Books => TotalsMatch
  BY DEF Books
<1> QED BY <1>1, BooksKept, PTL

(* Whom a busy GPU shows has a process on it, or had one in the sample     *)
(* before while nothing runs any more.                                     *)
THEOREM OwnerStaysCurrent == Spec => []OwnerIsCurrent
<1>1. Books => OwnerIsCurrent
  BY DEF Books, OwnerNow, OwnersOf, OwnerIsCurrent
<1> QED BY <1>1, BooksKept, PTL

(* Whenever a usage row is written it names everybody who had a process on *)
(* the GPU during the period, or nobody.                                   *)
THEOREM ChargedTogether == Spec => ChargedToAllOrNobody
<1>1. Inv /\ [Next]_vars =>
        [cut' = cut /\ usage' \notin {usage, <<>>} =>
           usage'[Len(usage')].users \in {{}, {Owner[p] : p \in DOMAIN gpu.procs}}]_vars
  <2> SUFFICES ASSUME Inv, [Next]_vars, cut' = cut, usage' \notin {usage, <<>>}
               PROVE  usage'[Len(usage')].users \in {{}, {Owner[p] : p \in DOMAIN gpu.procs}}
    OBVIOUS
  <2>1. Observe
    BY ForgetFacts DEF Next, Fail, Advance, vars
  <2>2. PICK s \in Samples, retried \in BOOLEAN : ObserveAgain(s, retried)
    BY <2>1 DEF Observe, ObserveFirst, ObserveSwapped
  <2>3. gpu # NoRow
    BY <2>1, <2>2, PeriodFacts
  <2>4. usage' = RecordBusy(usage, UsageRow)
    BY <2>2 DEF ObserveAgain
  <2>5. usage'[Len(usage')].users = Attributable(gpu.procs)
    BY <2>1, <2>3, <2>4, NewRows, Tables, SampleBefore, RecordBusyCovers
  <2> QED BY <2>5 DEF Attributable, Confirmed
<1> QED BY <1>1, Invariance, PTL DEF Spec, ChargedToAllOrNobody


-------------------------------------------------------------------------------
(* The ledger: the tables and what is lost implement GpuLedger.            *)

LEMMA VerdictValues ==
  ASSUME cut \in Int
  PROVE  \A t \in Int :
           /\ t < cut => Verdict(t) = "forgotten"
           /\ t >= cut /\ Holds(usage, t) => Verdict(t) = "busy"
           /\ t >= cut /\ ~Holds(usage, t) /\ Holds(capacity, t) => Verdict(t) = "free"
           /\ t >= cut /\ ~Holds(usage, t) /\ ~Holds(capacity, t) /\ t \in lost => Verdict(t) = "lost"
           /\ t >= cut /\ ~Holds(usage, t) /\ ~Holds(capacity, t) /\ t \notin lost => Verdict(t) = "blank"
BY DEF Verdict

LEMMA NextVerdictValues ==
  ASSUME cut' \in Int
  PROVE  \A t \in Int :
           /\ t < cut' => Verdict(t)' = "forgotten"
           /\ t >= cut' /\ Holds(usage', t) => Verdict(t)' = "busy"
           /\ t >= cut' /\ ~Holds(usage', t) /\ Holds(capacity', t) => Verdict(t)' = "free"
           /\ t >= cut' /\ ~Holds(usage', t) /\ ~Holds(capacity', t) /\ t \in lost' => Verdict(t)' = "lost"
           /\ t >= cut' /\ ~Holds(usage', t) /\ ~Holds(capacity', t) /\ t \notin lost' => Verdict(t)' = "blank"
BY DEF Verdict, Holds

(* The instants and the horizon are numbers, on both sides of a step.      *)
LEMMA Horizon ==
  ASSUME Inv
  PROVE  cut \in Int /\ \A t \in Instants : t \in Int
BY TimesAssumption DEF Inv, TypeOK, Instants

Judged(v) ==
  \A t \in Instants : Verdict(t)' = Verdict(t) \/ (Verdict(t) = "blank" /\ Verdict(t)' = v)

Wiped ==
  \A t \in Instants : \/ Verdict(t) = "forgotten" /\ Verdict(t)' = "forgotten"
                      \/ Verdict(t) # "forgotten" /\ Verdict(t)' = "lost"
                      \/ Verdict(t) \notin {"forgotten", "lost"} /\ Verdict(t)' = "blank"

Forgotten ==
  \E oldest \in Instants : \A t \in Instants :
    Verdict(t)' = IF t < oldest THEN "forgotten" ELSE Verdict(t)

LEMMA LedgerStep ==
  ASSUME Inv',
         \/ \E v \in {"free", "busy", "lost"} : Judged(v)
         \/ Wiped
         \/ Forgotten
  PROVE  Ledger!Next
<1> DEFINE old == [t \in Instants |-> Verdict(t)]
           new == [t \in Instants |-> Verdict(t)']
<1>1. \A t \in Instants : Verdict(t)' \in {"blank", "free", "busy", "lost", "forgotten"}
  <2>1. cut' \in Int /\ \A t \in Instants : t \in Int
    BY TimesAssumption DEF Inv, TypeOK, Instants
  <2> QED BY <2>1, NextVerdictValues
<1>2. new \in [Instants -> Ledger!Verdicts]
  BY <1>1 DEF Ledger!Verdicts
<1>3. ASSUME NEW v \in {"free", "busy", "lost"}, Judged(v) PROVE Ledger!Judge
  <2>1. \A t \in Instants : new[t] = old[t] \/ (old[t] = "blank" /\ new[t] = v)
    BY <1>3 DEF Judged
  <2> QED BY <2>1 DEF Ledger!Judge
<1>4. ASSUME Wiped PROVE Ledger!Swap
  <2>1. \A t \in Instants : \/ old[t] = "forgotten" /\ new[t] = "forgotten"
                            \/ old[t] # "forgotten" /\ new[t] = "lost"
                            \/ old[t] \notin {"forgotten", "lost"} /\ new[t] = "blank"
    BY <1>4 DEF Wiped
  <2> QED BY <2>1 DEF Ledger!Swap
<1>5. ASSUME Forgotten PROVE Ledger!Forget
  <2>1. PICK oldest \in Instants : \A t \in Instants :
          Verdict(t)' = IF t < oldest THEN "forgotten" ELSE Verdict(t)
    BY <1>5 DEF Forgotten
  <2>2. new = [t \in Instants |-> IF t < oldest THEN "forgotten" ELSE old[t]]
    BY <2>1
  <2> QED BY <2>2 DEF Ledger!Forget
<1> QED BY <1>2, <1>3, <1>4, <1>5 DEF Ledger!Next

(* What is over but was not recorded, and what nobody claimed of it.       *)
LEMMA NothingAfter ==
  ASSUME Inv, gpu # NoRow, NEW t \in Instants, gpu.seen <= t
  PROVE  ~Holds(usage, t) /\ ~Holds(capacity, t)
<1>1. t \in Int /\ gpu.seen \in Int
  BY TimesAssumption DEF Instants, Inv, TypeOK, Rows
<1>2. /\ \A i \in DOMAIN capacity : capacity[i].to \in Int /\ capacity[i].to <= gpu.seen
      /\ \A i \in DOMAIN usage : usage[i].to \in Int /\ usage[i].to <= gpu.seen
  BY Tables, RowsAreIntervals DEF Intervals, Until
<1> QED BY <1>1, <1>2 DEF Holds

(* A sample judges the period since the last one.                          *)
LEMMA SampleJudges ==
  ASSUME Inv, Observe, NEW s \in Samples, NEW retried \in BOOLEAN, ObserveAgain(s, retried)
  PROVE  \E v \in {"free", "busy", "lost"} : Judged(v)
<1>1. gpu # NoRow /\ gpu.busy \in BOOLEAN
  BY PeriodFacts, SampleBefore
<1>2. PICK counted \in BOOLEAN : Period(s, counted)
  BY PeriodFacts
<1> DEFINE v == IF ~counted THEN "lost" ELSE IF gpu.busy THEN "busy" ELSE "free"
           during(t) == gpu.seen <= t /\ t < clock
<1>3. ASSUME NEW t \in Instants
      PROVE  Verdict(t)' = Verdict(t) \/ (Verdict(t) = "blank" /\ Verdict(t)' = v)
  <2>1. t \in Int
    BY TimesAssumption DEF Instants
  <2>2. /\ Holds(capacity', t) <=> Holds(capacity, t) \/ (counted /\ during(t))
        /\ Holds(usage', t) <=> Holds(usage, t) \/ ((counted /\ during(t)) /\ gpu.busy)
    BY <1>1, <1>2, <2>1, PeriodHeld
  <2>3. t \in lost' <=> t \in lost \/ (~counted /\ during(t))
    BY <1>2 DEF Period, Span
  <2>4. during(t) => ~Holds(usage, t) /\ ~Holds(capacity, t)
    BY <1>1, NothingAfter
  <2>5. counted /\ during(t) => t \notin lost
    <3>1. counted => host # "failed"
      BY <1>2 DEF Period
    <3>2. gpu.seen \in Int
      BY <1>1, SampleBefore
    <3> QED BY <1>1, <2>1, <3>1, <3>2 DEF Inv, LossesPast
  <2>6. cut \in Int /\ cut' = cut
    BY Horizon, Clocks
  <2> HIDE DEF during
  <2> QED BY <2>1, <2>2, <2>3, <2>4, <2>5, <2>6, VerdictValues, NextVerdictValues
<1>4. v \in {"free", "busy", "lost"}
  OBVIOUS
<1> HIDE DEF v
<1> QED BY <1>3, <1>4 DEF Judged

(* A failure loses the time since the last sample.                         *)
LEMMA FailureJudges ==
  ASSUME Inv, Fail
  PROVE  \E v \in {"free", "busy", "lost"} : Judged(v)
<1>1. ASSUME NEW t \in Instants
      PROVE  Verdict(t)' = Verdict(t) \/ (Verdict(t) = "blank" /\ Verdict(t)' = "lost")
  <2>1. /\ Holds(usage', t) <=> Holds(usage, t)
        /\ Holds(capacity', t) <=> Holds(capacity, t)
        /\ t \in lost' <=> t \in lost \/ t \in LostSince
    BY DEF Fail, Holds
  <2>2. t \in LostSince => ~Holds(usage, t) /\ ~Holds(capacity, t)
    BY NothingAfter DEF LostSince, Span
  <2>3. t \in Int /\ cut \in Int /\ cut' = cut
    BY Horizon DEF Fail, deletions
  <2> QED BY <2>1, <2>2, <2>3, VerdictValues, NextVerdictValues
<1> QED BY <1>1 DEF Judged

(* Another card: the tables are wiped, and the time up to it is lost.      *)
LEMMA SwapWipes ==
  ASSUME Inv, Observe, NEW s \in Samples, ObserveSwapped(s)
  PROVE  Wiped
<1>1. usage' = <<>> /\ capacity' = <<>> /\ lost \subseteq lost'
  BY DEF ObserveSwapped
<1>2. \A t : ~Holds(usage', t) /\ ~Holds(capacity', t)
  BY <1>1 DEF Holds
<1> SUFFICES ASSUME NEW t \in Instants
             PROVE  \/ Verdict(t) = "forgotten" /\ Verdict(t)' = "forgotten"
                    \/ Verdict(t) # "forgotten" /\ Verdict(t)' = "lost"
                    \/ Verdict(t) \notin {"forgotten", "lost"} /\ Verdict(t)' = "blank"
  BY DEF Wiped
<1>3. t \in Int /\ cut \in Int /\ cut' = cut
  BY Horizon, Clocks
<1>4. CASE t < cut
  BY <1>3, <1>4, VerdictValues, NextVerdictValues
<1>5. CASE t >= cut /\ t \in lost'
  BY <1>2, <1>3, <1>5, VerdictValues, NextVerdictValues
<1>6. CASE t >= cut /\ t \notin lost'
  BY <1>1, <1>2, <1>3, <1>6, VerdictValues, NextVerdictValues
<1> QED BY <1>3, <1>4, <1>5, <1>6

(* The maintenance forgets what is older than the rows it leaves, and      *)
(* changes nothing else.                                                   *)
LEMMA ForgetForgets ==
  ASSUME Inv, Forget
  PROVE  Forgotten
<1>1. PICK u \in 0 .. Len(usage), c \in 0 .. Len(capacity) : Deletes(u, c)
  BY ForgetFacts
<1>2. /\ gpu # NoRow /\ cut' \in Instants /\ cut' \in Int /\ cut \in Int /\ cut < cut'
      /\ lost' = lost
  BY ForgetFacts
<1>3. ASSUME NEW t \in Instants
      PROVE  Verdict(t)' = IF t < cut' THEN "forgotten" ELSE Verdict(t)
  <2>1. t \in Int
    BY Horizon
  <2>2. CASE t < cut'
    BY <1>2, <2>1, <2>2, NextVerdictValues
  <2>3. CASE t >= cut'
    <3>1. Holds(usage', t) <=> Holds(usage, t)
      BY <1>1, <1>2, <2>1, <2>3, Tables, RowsAreIntervals, ShortenedHolds DEF Deletes
    <3>2. Holds(capacity', t) <=> Holds(capacity, t)
      BY <1>1, <1>2, <2>1, <2>3, Tables, RowsAreIntervals, ShortenedHolds DEF Deletes
    <3>3. t >= cut /\ ~(t < cut')
      BY <1>2, <2>1, <2>3
    <3>4. Verdict(t)' = Verdict(t)
      BY <1>2, <2>1, <2>3, <3>1, <3>2, <3>3, VerdictValues, NextVerdictValues
    <3> QED BY <3>3, <3>4
  <2> QED BY <1>2, <2>1, <2>2, <2>3
<1> QED BY <1>2, <1>3 DEF Forgotten

(* Whatever is sampled, lost, retried or swapped, the tables say of every  *)
(* instant what GpuLedger allows: one verdict, until the maintenance has   *)
(* gone past it, and nothing of an instant that was lost.                  *)
THEOREM LedgerImplemented == Spec => LedgerSpec
<1>1. Init => Ledger!Init
  <2> SUFFICES ASSUME Init PROVE [t \in Instants |-> Verdict(t)] = [t \in Instants |-> "blank"]
    BY DEF Ledger!Init
  <2>1. \A t \in Instants : t \in Int /\ t >= 0
    BY TimesAssumption DEF Instants
  <2>2. \A t \in Instants : Verdict(t) = "blank"
    BY <2>1, VerdictValues DEF Init, Holds
  <2> QED BY <2>2
<1>2. Inv /\ Inv' /\ [Next]_vars => [Ledger!Next]_([t \in Instants |-> Verdict(t)])
  <2> SUFFICES ASSUME Inv, Inv', [Next]_vars
               PROVE  Ledger!Next \/ UNCHANGED [t \in Instants |-> Verdict(t)]
    OBVIOUS
  <2>1. ASSUME UNCHANGED <<usage, capacity, lost, cut>>
        PROVE  UNCHANGED [t \in Instants |-> Verdict(t)]
    BY <2>1 DEF Verdict, Holds
  <2>2. CASE Observe
    <3>1. PICK s \in Samples, retried \in BOOLEAN :
            ObserveFirst(s) \/ ObserveSwapped(s) \/ ObserveAgain(s, retried)
      BY <2>2 DEF Observe
    <3>2. CASE ObserveFirst(s)
      BY <2>1, <2>2, <3>2 DEF ObserveFirst, Observe
    <3>3. CASE ObserveSwapped(s)
      BY <2>2, <3>3, SwapWipes, LedgerStep
    <3>4. CASE ObserveAgain(s, retried)
      BY <2>2, <3>4, SampleJudges, LedgerStep
    <3> QED BY <3>1, <3>2, <3>3, <3>4
  <2>3. CASE Fail
    BY <2>3, FailureJudges, LedgerStep
  <2>4. CASE Advance
    BY <2>1, <2>4 DEF Advance, deletions
  <2>5. CASE UNCHANGED vars
    BY <2>1, <2>5 DEF vars, deletions
  <2>6. CASE Forget
    BY <2>6, ForgetForgets, LedgerStep
  <2> QED BY <2>2, <2>3, <2>4, <2>5, <2>6 DEF Next
<1> QED BY <1>1, <1>2, Invariance, PTL DEF Spec, LedgerSpec, Ledger!Spec


===============================================================================
