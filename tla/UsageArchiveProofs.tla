------------------------- MODULE UsageArchiveProofs -------------------------
(***************************************************************************)
(* For any requests, any number of days and any queries: the types of      *)
(* UsageArchive, that the two tables count each request once, that a day   *)
(* is archived on the day after it or excused, that the statistics are     *)
(* those of the rows as they were written, and what a query that reads     *)
(* while a day is archived may count.                                      *)
(***************************************************************************)
EXTENDS UsageArchive, DataLemmas

IsRow(row) ==
  /\ DOMAIN row = {"day", "api_key", "model", "credential", "requests"}
  /\ row.day \in Days
  /\ row.requests # {} /\ row.requests \subseteq Request

Disjoint(rows) ==
  \A row, other \in rows : row # other => row.requests \cap other.requests = {}

UniqueKeys(rows) ==
  \A row, other \in rows :
    (row.day = other.day /\ row.api_key = other.api_key /\ row.model = other.model)
      => row = other

Stored == usage_log \cup usage_log_daily

ClockOK == day \in Days /\ fivePast \in BOOLEAN

RowsOK == (\A row \in Stored : IsRow(row)) /\ UniqueKeys(usage_log_daily)

ArchiverOK ==
  /\ archiver \in [at : {"down", "startup", "sleep", "attempt", "backoff", "retry"},
                   date : 0..MaxDay + 1]
  /\ Attempting => archiver.date < day

QueryOK == "at" \in DOMAIN query /\ query.at \in 0..5

HistoryOK == {"rows", "late", "excused"} \subseteq DOMAIN history

(* The row on its way to the table is dated today or before, and has not   *)
(* been there.                                                             *)
BatchOK ==
  batch # None =>
    /\ IsRow(batch)
    /\ batch.requests \cap Written = {}

Once ==
  /\ Disjoint(Stored)
  /\ RowsOf(Stored) \subseteq Written
  /\ OnTime \subseteq RowsOf(Stored)

(* Once a day is in the daily table, it is over, and what is left of it in *)
(* the raw table came late.                                                *)
ArchivedIsOver ==
  \A row \in usage_log_daily :
    /\ row.day < day
    /\ \A other \in usage_log : other.day = row.day => other.requests \subseteq history.late

ArchiveInv ==
  /\ ClockOK /\ RowsOK /\ ArchiverOK /\ QueryOK /\ HistoryOK
  /\ BatchOK /\ Once /\ ArchivedIsOver
-----------------------------------------------------------------------------
(* What the INSERT ... SELECT makes of the rows of one day.                *)
Group(rows, key) == {row \in rows : row.api_key = key[1] /\ row.model = key[2]}
GroupKeys(rows) == {<<row.api_key, row.model>> : row \in rows}

GroupRow(rows, key) ==
  [day |-> (CHOOSE row \in Group(rows, key) : TRUE).day,
   api_key |-> key[1], model |-> key[2],
   credential |-> Max({row.credential : row \in Group(rows, key)}),
   requests |-> UNION {row.requests : row \in Group(rows, key)}]

LEMMA AggregateIs ==
  ASSUME NEW rows
  PROVE  Aggregate(rows) = {GroupRow(rows, key) : key \in GroupKeys(rows)}
BY DEF Aggregate, GroupRow, GroupKeys, Group

LEMMA GroupRowFacts ==
  ASSUME NEW date \in Days, NEW rows,
         \A row \in rows : IsRow(row) /\ row.day = date,
         NEW key \in GroupKeys(rows)
  PROVE  /\ IsRow(GroupRow(rows, key))
         /\ GroupRow(rows, key).day = date
         /\ <<GroupRow(rows, key).api_key, GroupRow(rows, key).model>> = key
         /\ GroupRow(rows, key).requests = RowsOf(Group(rows, key))
         /\ GroupRow(rows, key).requests \subseteq RowsOf(rows)
<1> DEFINE group == Group(rows, key)
           agg == GroupRow(rows, key)
<1>1. /\ agg.day = (CHOOSE row \in group : TRUE).day
      /\ agg.api_key = key[1] /\ agg.model = key[2]
      /\ agg.requests = UNION {row.requests : row \in group}
      /\ DOMAIN agg = {"day", "api_key", "model", "credential", "requests"}
  BY DEF GroupRow
<1>2. PICK row \in rows : key = <<row.api_key, row.model>>
  BY DEF GroupKeys
<1>3. row \in group /\ group \subseteq rows
  BY <1>2 DEF Group
<1>4. (CHOOSE r \in group : TRUE) \in group
  BY <1>3
<1> HIDE DEF group, agg
<1>5. agg.day = date
  BY <1>1, <1>3, <1>4
<1>6. agg.requests # {} /\ agg.requests \subseteq Request
  BY <1>1, <1>3 DEF IsRow
<1>7. agg.requests \subseteq RowsOf(rows)
  BY <1>1, <1>3 DEF RowsOf
<1> QED
  BY <1>1, <1>2, <1>5, <1>6, <1>7 DEF IsRow, RowsOf, agg, group

LEMMA AggregateFacts ==
  ASSUME NEW date \in Days, NEW rows,
         \A row \in rows : IsRow(row) /\ row.day = date
  PROVE  /\ \A agg \in Aggregate(rows) : IsRow(agg) /\ agg.day = date
         /\ RowsOf(Aggregate(rows)) = RowsOf(rows)
         /\ UniqueKeys(Aggregate(rows))
         /\ Disjoint(rows) => Disjoint(Aggregate(rows))
<1>1. \A agg \in Aggregate(rows) : \E key \in GroupKeys(rows) : agg = GroupRow(rows, key)
  BY AggregateIs
<1>2. \A agg \in Aggregate(rows) : IsRow(agg) /\ agg.day = date
  BY <1>1, GroupRowFacts
<1>3. RowsOf(Aggregate(rows)) \subseteq RowsOf(rows)
  <2>1. \A agg \in Aggregate(rows) : agg.requests \subseteq RowsOf(rows)
    BY <1>1, GroupRowFacts
  <2> QED  BY <2>1 DEF RowsOf
<1>4. RowsOf(rows) \subseteq RowsOf(Aggregate(rows))
  <2> SUFFICES ASSUME NEW row \in rows, NEW request \in row.requests
               PROVE  \E agg \in Aggregate(rows) : request \in agg.requests
    BY DEF RowsOf
  <2> DEFINE key == <<row.api_key, row.model>>
  <2>1. key \in GroupKeys(rows) /\ row \in Group(rows, key)
    BY DEF GroupKeys, Group
  <2>2. request \in RowsOf(Group(rows, key))
    BY <2>1 DEF RowsOf
  <2>3. GroupRow(rows, key).requests = RowsOf(Group(rows, key))
    BY <2>1, GroupRowFacts
  <2>4. GroupRow(rows, key) \in Aggregate(rows)
    BY <2>1, AggregateIs
  <2> QED  BY <2>2, <2>3, <2>4
<1>5. UniqueKeys(Aggregate(rows))
  <2> SUFFICES ASSUME NEW agg \in Aggregate(rows), NEW other \in Aggregate(rows),
                      agg.api_key = other.api_key, agg.model = other.model
               PROVE  agg = other
    BY DEF UniqueKeys
  <2>1. PICK key \in GroupKeys(rows) : agg = GroupRow(rows, key)  BY <1>1
  <2>2. PICK key2 \in GroupKeys(rows) : other = GroupRow(rows, key2)  BY <1>1
  <2>3. <<agg.api_key, agg.model>> = key /\ <<other.api_key, other.model>> = key2
    BY <2>1, <2>2, GroupRowFacts
  <2> QED  BY <2>1, <2>2, <2>3
<1>6. ASSUME Disjoint(rows) PROVE Disjoint(Aggregate(rows))
  <2> SUFFICES ASSUME NEW agg \in Aggregate(rows), NEW other \in Aggregate(rows), agg # other,
                      NEW request \in agg.requests, request \in other.requests
               PROVE  FALSE
    BY DEF Disjoint
  <2>1. PICK key \in GroupKeys(rows) : agg = GroupRow(rows, key)  BY <1>1
  <2>2. PICK key2 \in GroupKeys(rows) : other = GroupRow(rows, key2)  BY <1>1
  <2>3. agg.requests = RowsOf(Group(rows, key)) /\ other.requests = RowsOf(Group(rows, key2))
    BY <2>1, <2>2, GroupRowFacts
  <2>4. PICK row \in Group(rows, key) : request \in row.requests  BY <2>3 DEF RowsOf
  <2>5. PICK row2 \in Group(rows, key2) : request \in row2.requests  BY <2>3 DEF RowsOf
  <2>6. row = row2  BY <1>6, <2>4, <2>5 DEF Disjoint, Group
  <2>7. key[1] = key2[1] /\ key[2] = key2[2]  BY <2>4, <2>5, <2>6 DEF Group
  <2>8. key = key2  BY <2>7 DEF GroupKeys
  <2> QED  BY <2>1, <2>2, <2>8
<1> QED  BY <1>2, <1>3, <1>4, <1>5, <1>6
-----------------------------------------------------------------------------
LEMMA ArchiveInitInv == ArchiveInit => ArchiveInv
<1> SUFFICES ASSUME ArchiveInit PROVE ArchiveInv
  OBVIOUS
<1> USE DayAssumption DEF ArchiveInit, Stored
<1>1. ClockOK
  <2>1. day \in Days  BY DEF Days
  <2>2. fivePast \in BOOLEAN  OBVIOUS
  <2> QED  BY <2>1, <2>2 DEF ClockOK
<1>2. RowsOK  BY DEF RowsOK, UniqueKeys
<1>3. ArchiverOK  BY DEF ArchiverOK, Down, Attempting
<1>4. QueryOK  BY DEF QueryOK, NoQuery
<1>5. HistoryOK  BY DEF HistoryOK
<1>6. BatchOK  BY DEF BatchOK
<1>7. Once  BY DEF Once, Disjoint, RowsOf, Written, OnTime
<1>8. ArchivedIsOver  BY DEF ArchivedIsOver
<1> QED  BY <1>1, <1>2, <1>3, <1>4, <1>5, <1>6, <1>7, <1>8 DEF ArchiveInv

(* Whatever leaves the tables, the rows written and the late ones alone,   *)
(* and moves the day forward at most, leaves what is said of them true.    *)
LEMMA TablesUntouched ==
  ASSUME ArchiveInv,
         usage_log' = usage_log, usage_log_daily' = usage_log_daily,
         history'.rows = history.rows, history'.late = history.late,
         HistoryOK', day' \in Days, day' >= day
  PROVE  RowsOK' /\ Once' /\ ArchivedIsOver'
<1>1. RowsOK'  BY DEF ArchiveInv, RowsOK, Stored
<1>2. Once'
  BY DEF ArchiveInv, Once, Stored, Disjoint, RowsOf, Written, OnTime
<1>3. ArchivedIsOver'
  <2>1. \A row \in usage_log_daily : row.day \in Nat
    BY DEF ArchiveInv, RowsOK, Stored, IsRow, Days
  <2>2. day \in Nat /\ day' \in Nat
    BY DEF ArchiveInv, ClockOK, Days
  <2> QED  BY <2>1, <2>2 DEF ArchiveInv, ArchivedIsOver
<1> QED  BY <1>1, <1>2, <1>3

LEMMA ArchiverUntouched ==
  ASSUME ArchiveInv, archiver' = archiver, day' \in Days, day' >= day
  PROVE  ArchiverOK'
<1>1. day \in Nat /\ day' \in Nat /\ archiver.date \in Nat
  BY DEF ArchiveInv, ClockOK, ArchiverOK, Days
<1> QED  BY <1>1 DEF ArchiveInv, ArchiverOK, Attempting

(* The archiver goes to sleep, or takes the date of yesterday.             *)
LEMMA ArchiverMoves ==
  ASSUME ArchiveInv, day' = day,
         \/ archiver' = Down
         \/ archiver' = Sleeping
         \/ archiver' = [at |-> "backoff", date |-> day]
         \/ \E at \in {"startup", "attempt", "retry"} :
              archiver' = [at |-> at, date |-> Yesterday]
  PROVE  ArchiverOK'
<1>1. day \in 1..MaxDay  BY DEF ArchiveInv, ClockOK, Days
<1>2. CASE archiver' = Down  BY <1>1, <1>2, DayAssumption DEF ArchiverOK, Attempting, Down
<1>3. CASE archiver' = Sleeping
  BY <1>1, <1>3, DayAssumption DEF ArchiverOK, Attempting, Sleeping
<1>4. CASE archiver' = [at |-> "backoff", date |-> day]
  BY <1>1, <1>4, DayAssumption DEF ArchiverOK, Attempting
<1>5. ASSUME NEW at \in {"startup", "attempt", "retry"},
             archiver' = [at |-> at, date |-> Yesterday]
      PROVE  ArchiverOK'
  BY <1>1, <1>5, DayAssumption DEF ArchiverOK, Attempting, Yesterday
<1> QED  BY <1>2, <1>3, <1>4, <1>5

(* The queries only read.                                                  *)
LEMMA QuerySteps ==
  ASSUME ArchiveInv,
         (\E ask \in Asks : QueryBegin(ask)) \/ ReadItems \/ ReadTotal \/ Answer
  PROVE  ArchiveInv'
<1>1. UNCHANGED <<day, fivePast, usage_log, usage_log_daily, batch, archiver, history>>
  BY DEF QueryBegin, ReadItems, ReadTotal, Answer
<1>2. ClockOK' /\ HistoryOK' /\ BatchOK'
  BY <1>1 DEF ArchiveInv, ClockOK, HistoryOK, BatchOK, Written, RowsOf
<1>3. RowsOK' /\ Once' /\ ArchivedIsOver' /\ ArchiverOK'
  BY <1>1 DEF ArchiveInv, RowsOK, Once, Stored, OnTime, Written, ArchivedIsOver,
              ArchiverOK, Attempting
<1>4. QueryOK'
  <2>1. ASSUME NEW ask \in Asks, QueryBegin(ask) PROVE QueryOK'
    BY <2>1 DEF QueryBegin, QueryOK
  <2>2. CASE ReadItems
    <3>1. query'.at = query.at + 1 /\ DOMAIN query' = DOMAIN query
      BY <2>2 DEF ArchiveInv, QueryOK, ReadItems
    <3> QED  BY <2>2, <3>1 DEF ArchiveInv, QueryOK, ReadItems
  <2>3. CASE ReadTotal
    <3>1. query'.at = query.at + 1 /\ DOMAIN query' = DOMAIN query
      BY <2>3 DEF ArchiveInv, QueryOK, ReadTotal
    <3> QED  BY <2>3, <3>1 DEF ArchiveInv, QueryOK, ReadTotal
  <2>4. CASE Answer  BY <2>4 DEF Answer, QueryOK, NoQuery
  <2> QED  BY <2>1, <2>2, <2>3, <2>4
<1> QED  BY <1>2, <1>3, <1>4 DEF ArchiveInv

LEMMA BatchBeginKeeps ==
  ASSUME ArchiveInv, NEW request \in Request, BatchBegin(request)
  PROVE  ArchiveInv'
<1>1. /\ UNCHANGED <<day, fivePast, usage_log, usage_log_daily, archiver, query, history>>
      /\ batch' = RowOf(request, day)
      /\ request \notin Stamped
  BY DEF BatchBegin
<1>2. ClockOK' /\ HistoryOK' /\ QueryOK' /\ ArchiverOK'
  BY <1>1 DEF ArchiveInv, ClockOK, HistoryOK, QueryOK, ArchiverOK, Attempting
<1>3. RowsOK' /\ Once' /\ ArchivedIsOver'
  BY <1>1 DEF ArchiveInv, RowsOK, Once, Stored, OnTime, Written, ArchivedIsOver
<1>4. BatchOK'
  <2>1. IsRow(batch')  BY <1>1 DEF RowOf, IsRow, ArchiveInv, ClockOK
  <2>2. batch'.requests = {request}  BY <1>1 DEF RowOf
  <2>3. request \notin Written'  BY <1>1 DEF Stamped, Written, RowsOf
  <2> QED  BY <2>1, <2>2, <2>3 DEF BatchOK
<1> QED  BY <1>2, <1>3, <1>4 DEF ArchiveInv

(* The row is new to both tables; when its day is in the daily table, it   *)
(* is over, and the row late.                                              *)
LEMMA BatchInsertKeeps ==
  ASSUME ArchiveInv, BatchInsert
  PROVE  ArchiveInv'
<1>1. /\ UNCHANGED <<day, fivePast, usage_log_daily, archiver, query>>
      /\ batch # None /\ batch' = None
      /\ usage_log' = usage_log \cup {batch}
      /\ Stored' = Stored \cup {batch}
  BY DEF BatchInsert, Stored
<1>2. /\ history'.rows = history.rows \cup {batch}
      /\ history'.late = IF batch.day = day THEN history.late
                          ELSE history.late \cup batch.requests
      /\ DOMAIN history' = DOMAIN history
  BY DEF BatchInsert, ArchiveInv, HistoryOK
<1>3. IsRow(batch) /\ batch.requests \cap Written = {}
  BY <1>1 DEF ArchiveInv, BatchOK
<1>4. Written' = Written \cup batch.requests /\ RowsOf(Stored') = RowsOf(Stored) \cup batch.requests
  BY <1>1, <1>2 DEF Written, RowsOf
<1>5. ClockOK' /\ HistoryOK' /\ QueryOK' /\ ArchiverOK'
  BY <1>1, <1>2 DEF ArchiveInv, ClockOK, HistoryOK, QueryOK, ArchiverOK, Attempting
<1>6. BatchOK'  BY <1>1 DEF BatchOK
<1>7. RowsOK'  BY <1>1, <1>3 DEF ArchiveInv, RowsOK
<1>8. Once'
  <2>1. \A row \in Stored : row.requests \cap batch.requests = {}
    BY <1>3 DEF ArchiveInv, Once, RowsOf
  <2>2. Disjoint(Stored')  BY <1>1, <2>1 DEF ArchiveInv, Once, Disjoint
  <2>3. RowsOf(Stored') \subseteq Written'  BY <1>4 DEF ArchiveInv, Once
  <2>4. OnTime' \subseteq RowsOf(Stored')
    BY <1>2, <1>4 DEF ArchiveInv, Once, OnTime
  <2> QED  BY <2>2, <2>3, <2>4 DEF Once, RowsOf
<1>9. ArchivedIsOver'
  <2> SUFFICES ASSUME NEW row \in usage_log_daily, NEW other \in usage_log',
                      other.day = row.day
               PROVE  row.day < day /\ other.requests \subseteq history'.late
    BY <1>1 DEF ArchiveInv, ArchivedIsOver
  <2>1. row.day < day /\ row.day \in Nat /\ day \in Nat
    BY DEF ArchiveInv, ArchivedIsOver, RowsOK, Stored, IsRow, ClockOK, Days
  <2>2. CASE other \in usage_log
    BY <1>2, <2>1, <2>2 DEF ArchiveInv, ArchivedIsOver
  <2>3. CASE other = batch
    <3>1. batch.day # day  BY <2>1, <2>3
    <3> QED  BY <1>2, <2>1, <2>3, <3>1
  <2> QED  BY <1>1, <2>2, <2>3
<1> QED  BY <1>5, <1>6, <1>7, <1>8, <1>9 DEF ArchiveInv

(* A day that is archived already loses rows that were late only, another  *)
(* day's rows go on in the daily table.                                    *)
LEMMA CommitKeepsRows ==
  ASSUME ArchiveInv, ArchiveCommit
  PROVE  RowsOK' /\ Once' /\ ArchivedIsOver'
<1> DEFINE date == archiver.date
           moved == OnDate(usage_log, date)
           stays == usage_log \ moved
<1>1. /\ Attempting /\ date < day /\ day' = day
      /\ usage_log' = stays
      /\ history'.rows = history.rows /\ history'.late = history.late
  BY DEF ArchiveCommit, ArchiveInv, ArchiverOK, HistoryOK
<1>2. Written' = Written /\ OnTime' = OnTime
  BY <1>1 DEF Written, OnTime, RowsOf
<1>3. /\ moved \subseteq usage_log
      /\ \A row \in moved : IsRow(row) /\ row.day = date
      /\ \A row \in stays : row.day # date
  BY DEF OnDate, ArchiveInv, RowsOK, Stored
<1> HIDE DEF moved, stays
<1>4. CASE IsAlreadyArchivedOn(date)
  <2>1. usage_log_daily' = usage_log_daily  BY <1>4 DEF ArchiveCommit
  <2>2. PICK done \in usage_log_daily : done.day = date
    BY <1>4 DEF IsAlreadyArchivedOn, OnDate
  <2>3. \A row \in moved : row.requests \subseteq history.late
    BY <1>3, <2>2 DEF ArchiveInv, ArchivedIsOver
  <2>4. stays \subseteq usage_log /\ usage_log = stays \cup moved
    BY <1>3 DEF stays
  <2>5. Stored' \subseteq Stored /\ Stored = Stored' \cup moved
    BY <1>1, <2>1, <2>4, <1>3 DEF Stored
  <2>6. RowsOK'  BY <2>1, <2>5 DEF ArchiveInv, RowsOK
  <2>7. RowsOf(Stored) = RowsOf(Stored') \cup RowsOf(moved)
    BY <2>5 DEF RowsOf
  <2>8. RowsOf(moved) \cap OnTime = {}
    BY <2>3 DEF RowsOf, OnTime
  <2>9. Once'
    <3>1. Disjoint(Stored')  BY <2>5 DEF ArchiveInv, Once, Disjoint
    <3> QED  BY <1>2, <2>7, <2>8, <3>1 DEF ArchiveInv, Once, RowsOf
  <2>10. ArchivedIsOver'
    BY <1>1, <2>1, <2>4 DEF ArchiveInv, ArchivedIsOver
  <2> QED  BY <2>6, <2>9, <2>10
<1>5. CASE ~IsAlreadyArchivedOn(date) /\ moved = {}
  <2>1. Aggregate(moved) = {}
    BY <1>5, AggregateIs DEF GroupKeys
  <2>2. usage_log_daily' = usage_log_daily
    BY <1>5, <2>1 DEF ArchiveCommit, moved
  <2>3. usage_log' = usage_log  BY <1>1, <1>5 DEF stays
  <2>4. HistoryOK' /\ day' \in Days /\ day' >= day
    BY <1>1 DEF ArchiveInv, HistoryOK, ClockOK, ArchiveCommit, Days
  <2> QED  BY <1>1, <2>2, <2>3, <2>4, TablesUntouched
<1>6. CASE ~IsAlreadyArchivedOn(date) /\ moved # {}
  <2> DEFINE new == Aggregate(moved)
  <2>1. usage_log_daily' = usage_log_daily \cup new
    BY <1>6 DEF ArchiveCommit, moved
  <2>2. date \in Days  BY <1>3, <1>6 DEF IsRow
  <2>3. Disjoint(moved)  BY <1>3 DEF ArchiveInv, Once, Stored, Disjoint
  <2>4. /\ \A agg \in new : IsRow(agg) /\ agg.day = date
        /\ RowsOf(new) = RowsOf(moved)
        /\ UniqueKeys(new)
        /\ Disjoint(new)
    BY <1>3, <2>2, <2>3, AggregateFacts
  <2>5. \A row \in usage_log_daily : row.day # date
    BY <1>6 DEF IsAlreadyArchivedOn, OnDate
  <2> HIDE DEF new
  <2>6. usage_log = stays \cup moved  BY <1>3 DEF stays
  <2> DEFINE others == stays \cup usage_log_daily
  <2>7. Stored' = others \cup new /\ Stored = others \cup moved
    BY <1>1, <2>1, <2>6 DEF Stored
  <2>8. \A row \in others : row.day # date  BY <1>3, <2>5
  <2>9. \A row \in others, other \in moved : row.requests \cap other.requests = {}
    BY <1>3, <2>7, <2>8 DEF ArchiveInv, Once, Disjoint
  <2> HIDE DEF others
  <2>10. RowsOK'
    <3>1. \A row \in Stored' : IsRow(row)
      BY <2>4, <2>7 DEF ArchiveInv, RowsOK
    <3>2. UniqueKeys(usage_log_daily')
      BY <2>1, <2>4, <2>5 DEF ArchiveInv, RowsOK, UniqueKeys
    <3> QED  BY <3>1, <3>2 DEF RowsOK
  <2>11. RowsOf(Stored') = RowsOf(Stored)
    BY <2>4, <2>7 DEF RowsOf
  <2>12. Disjoint(Stored')
    <3> SUFFICES ASSUME NEW row \in Stored', NEW other \in Stored', row # other
                 PROVE  row.requests \cap other.requests = {}
      BY DEF Disjoint
    <3>1. \A agg \in new : agg.requests \subseteq RowsOf(moved)
      BY <2>4 DEF RowsOf
    <3>2. \A r \in others : r.requests \cap RowsOf(moved) = {}
      BY <2>9 DEF RowsOf
    <3>3. CASE row \in others /\ other \in others
      BY <2>7, <3>3 DEF ArchiveInv, Once, Disjoint
    <3>4. CASE row \in new /\ other \in new
      BY <2>4, <3>4 DEF Disjoint
    <3>5. CASE (row \in new /\ other \in others) \/ (row \in others /\ other \in new)
      BY <3>1, <3>2, <3>5
    <3> QED  BY <2>7, <3>3, <3>4, <3>5
  <2>13. Once'
    BY <1>2, <2>11, <2>12 DEF ArchiveInv, Once, RowsOf
  <2>14. ArchivedIsOver'
    <3> SUFFICES ASSUME NEW row \in usage_log_daily'
                 PROVE  /\ row.day < day
                        /\ \A other \in stays : other.day = row.day =>
                             other.requests \subseteq history.late
      BY <1>1 DEF ArchivedIsOver
    <3>1. CASE row \in usage_log_daily
      BY <2>6, <3>1 DEF ArchiveInv, ArchivedIsOver
    <3>2. CASE row \in new
      BY <1>1, <1>3, <2>4, <3>2
    <3> QED  BY <2>1, <3>1, <3>2
  <2> QED  BY <2>10, <2>13, <2>14
<1> QED  BY <1>4, <1>5, <1>6

LEMMA ArchiveStep == ArchiveInv /\ [ArchiveNext]_archiveVars => ArchiveInv'
<1> SUFFICES ASSUME ArchiveInv, [ArchiveNext]_archiveVars PROVE ArchiveInv'
  OBVIOUS
<1>0. day \in Days /\ day >= day /\ day \in Nat
  BY DEF ArchiveInv, ClockOK, Days
<1>1. ASSUME NEW request \in Request, BatchBegin(request) PROVE ArchiveInv'
  BY <1>1, BatchBeginKeeps
<1>2. CASE BatchInsert  BY <1>2, BatchInsertKeeps
<1>3. CASE (\E ask \in Asks : QueryBegin(ask)) \/ ReadItems \/ ReadTotal \/ Answer
  BY <1>3, QuerySteps
<1>4. ASSUME UNCHANGED <<day, fivePast, usage_log, usage_log_daily>>,
             batch' \in {batch, None},
             history'.rows = history.rows, history'.late = history.late, HistoryOK',
             QueryOK', ArchiverOK'
      PROVE  ArchiveInv'
  <2>1. ClockOK'  BY <1>4 DEF ArchiveInv, ClockOK
  <2>2. RowsOK' /\ Once' /\ ArchivedIsOver'
    BY <1>0, <1>4, TablesUntouched
  <2>3. BatchOK'
    BY <1>4 DEF ArchiveInv, BatchOK, Written, RowsOf
  <2> QED  BY <1>4, <2>1, <2>2, <2>3 DEF ArchiveInv
<1>5. CASE BatchFail
  BY <1>4, <1>5 DEF BatchFail, ArchiveInv, HistoryOK, QueryOK, ArchiverOK, Attempting
<1>6. CASE Start
  <2>1. ArchiverOK'  BY <1>6, ArchiverMoves DEF Start
  <2> QED  BY <1>4, <1>6, <2>1 DEF Start, ArchiveInv, HistoryOK, QueryOK
<1>7. CASE Attempt
  <2>1. ArchiverOK'  BY <1>7, ArchiverMoves DEF Attempt
  <2> QED  BY <1>4, <1>7, <2>1 DEF Attempt, ArchiveInv, HistoryOK, QueryOK
<1>8. CASE ArchiveFail
  <2>1. ArchiverOK'  BY <1>8, ArchiverMoves DEF ArchiveFail
  <2>2. history'.rows = history.rows /\ history'.late = history.late /\ HistoryOK'
    BY <1>8 DEF ArchiveFail, ArchiveInv, HistoryOK
  <2> QED  BY <1>4, <1>8, <2>1, <2>2 DEF ArchiveFail, ArchiveInv, QueryOK
<1>9. CASE Stop
  <2>1. ArchiverOK'  BY <1>9, ArchiverMoves DEF Stop
  <2>2. history'.rows = history.rows /\ history'.late = history.late /\ HistoryOK'
    BY <1>9 DEF Stop, ArchiveInv, HistoryOK
  <2>3. QueryOK'  BY <1>9 DEF Stop, QueryOK, NoQuery
  <2> QED  BY <1>4, <1>9, <2>1, <2>2, <2>3 DEF Stop
<1>10. CASE ArchiveCommit
  <2>1. RowsOK' /\ Once' /\ ArchivedIsOver'  BY <1>10, CommitKeepsRows
  <2>2. ArchiverOK'  BY <1>10, ArchiverMoves DEF ArchiveCommit
  <2>3. history'.rows = history.rows /\ HistoryOK'
    BY <1>10 DEF ArchiveCommit, ArchiveInv, HistoryOK
  <2>4. ClockOK' /\ BatchOK'
    BY <1>10, <2>3 DEF ArchiveCommit, ArchiveInv, ClockOK, BatchOK, Written, RowsOf
  <2>5. QueryOK'  BY <1>10 DEF ArchiveCommit, ArchiveInv, QueryOK
  <2> QED  BY <2>1, <2>2, <2>3, <2>4, <2>5 DEF ArchiveInv
<1>11. CASE FivePastMidnight \/ Midnight
  <2>1. /\ UNCHANGED <<usage_log, usage_log_daily, batch, archiver, query>>
        /\ history'.rows = history.rows /\ history'.late = history.late /\ HistoryOK'
    BY <1>11 DEF FivePastMidnight, Midnight, ArchiveInv, HistoryOK
  <2>2. day' \in Days /\ day' >= day
    BY <1>0, <1>11, DayAssumption DEF FivePastMidnight, Midnight, Days
  <2>3. fivePast' \in BOOLEAN  BY <1>11 DEF FivePastMidnight, Midnight
  <2>4. RowsOK' /\ Once' /\ ArchivedIsOver'  BY <2>1, <2>2, TablesUntouched
  <2>5. ArchiverOK'  BY <2>1, <2>2, ArchiverUntouched
  <2>6. BatchOK' /\ QueryOK'
    BY <2>1 DEF ArchiveInv, BatchOK, QueryOK, Written, RowsOf
  <2> QED  BY <2>1, <2>2, <2>3, <2>4, <2>5, <2>6 DEF ArchiveInv, ClockOK
<1>12. CASE UNCHANGED archiveVars
  BY <1>4, <1>12 DEF archiveVars, ArchiveInv, HistoryOK, QueryOK, ArchiverOK, Attempting
<1> QED
  BY <1>1, <1>2, <1>3, <1>5, <1>6, <1>7, <1>8, <1>9, <1>10, <1>11, <1>12 DEF ArchiveNext

(* The invariant of the tables and their archive.                          *)
THEOREM ArchiveInvariance == ArchiveSpec => []ArchiveInv
<1>1. ArchiveInit => ArchiveInv  BY ArchiveInitInv
<1>2. ArchiveInv /\ [ArchiveNext]_archiveVars => ArchiveInv'  BY ArchiveStep
<1> QED  BY <1>1, <1>2, PTL DEF ArchiveSpec

(* The types hold, and with them the unique key of usage_log_daily.        *)
THEOREM ArchiveTypeCorrect == ArchiveSpec => []ArchiveTypeOK
<1>1. ArchiveInv => ArchiveTypeOK
  BY DEF ArchiveInv, ClockOK, RowsOK, Stored, IsRow, UniqueKeys, ArchiverOK, QueryOK, ArchiveTypeOK
<1> QED  BY <1>1, ArchiveInvariance, PTL
-----------------------------------------------------------------------------
(* The hours of the archive: an attempt that is still under way at 00:05   *)
(* is about yesterday, a sleep ends by tomorrow, a backoff has an excuse.  *)
HoursOK ==
  /\ fivePast /\ Attempting => archiver.date = Yesterday
  /\ archiver.at = "sleep" => archiver.date <= day + 1
  /\ archiver.at = "backoff" => archiver.date \in history.excused
  /\ archiver.at = "down" => archiver = Down

(* Yesterday's row waits for an archive that has not been put off until    *)
(* tomorrow; an older one is being archived, or its day is excused.        *)
Waits(row) ==
  \/ row.day + 1 \in history.excused
  \/ row.day = Yesterday /\ ~(archiver.at = "sleep" /\ archiver.date > day)
  \/ Attempting /\ archiver.date = row.day

LeftRowsWait ==
  \A row \in usage_log : row.day < day /\ row.requests \subseteq OnTime => Waits(row)

LEMMA ExcusedByStep ==
  ASSUME ArchiveInv, [ArchiveNext]_archiveVars
  PROVE  /\ history.excused \subseteq history'.excused
         /\ \A row \in usage_log : row.requests \subseteq OnTime' => row.requests \subseteq OnTime
<1>1. CASE BatchInsert
  <2>1. /\ history'.excused = history.excused
        /\ history'.rows = history.rows \cup {batch}
        /\ history.late \subseteq history'.late
    BY <1>1 DEF BatchInsert, ArchiveInv, HistoryOK
  <2>2. \A row \in usage_log : row.requests \subseteq Written
    BY DEF ArchiveInv, Once, Stored, RowsOf
  <2> QED  BY <2>1, <2>2 DEF OnTime
<1>2. CASE ~BatchInsert
  <2>1. /\ history'.rows = history.rows /\ history'.late = history.late
        /\ history.excused \subseteq history'.excused
    BY <1>2 DEF ArchiveNext, archiveVars, ArchiveInv, HistoryOK, BatchBegin, BatchFail, Start, Attempt,
       ArchiveCommit, ExcusedByCommit, ArchiveFail, Stop, QueryBegin, ReadItems, ReadTotal,
       Answer, FivePastMidnight, Midnight
  <2> QED  BY <2>1 DEF OnTime, Written, RowsOf
<1> QED  BY <1>1, <1>2

LEMMA HoursStep ==
  ASSUME ArchiveInv, HoursOK, [ArchiveNext]_archiveVars
  PROVE  HoursOK'
<1>1. day \in Nat /\ archiver.date \in Nat
  BY DEF ArchiveInv, ClockOK, ArchiverOK, Days
<1>2. history.excused \subseteq history'.excused  BY ExcusedByStep
<1>3. ASSUME UNCHANGED <<day, fivePast, archiver>> PROVE HoursOK'
  BY <1>2, <1>3 DEF HoursOK, Attempting, Yesterday
<1>4. CASE Start \/ Attempt
  BY <1>4 DEF Start, Attempt, HoursOK, Attempting, Yesterday
<1>5. CASE ArchiveCommit
  BY <1>1, <1>5 DEF ArchiveCommit, HoursOK, Attempting, Sleeping
<1>6. CASE ArchiveFail
  <2>1. day \in history'.excused  BY <1>6 DEF ArchiveFail, ArchiveInv, HistoryOK
  <2> QED  BY <1>1, <1>6, <2>1 DEF ArchiveFail, HoursOK, Attempting, Sleeping
<1>7. CASE Stop  BY <1>7 DEF Stop, HoursOK, Attempting, Down
<1>8. CASE FivePastMidnight
  BY <1>1, <1>2, <1>8 DEF FivePastMidnight, HoursOK, Attempting, Yesterday
<1>9. CASE Midnight
  BY <1>1, <1>2, <1>9 DEF Midnight, HoursOK, Attempting
<1> QED
  BY <1>3, <1>4, <1>5, <1>6, <1>7, <1>8, <1>9
  DEF ArchiveNext, archiveVars, BatchBegin, BatchInsert, BatchFail, QueryBegin, ReadItems, ReadTotal, Answer

LEMMA WaitStep ==
  ASSUME ArchiveInv, HoursOK, LeftRowsWait, [ArchiveNext]_archiveVars
  PROVE  LeftRowsWait'
<1>1. day \in Nat /\ archiver.date \in Nat /\ \A row \in usage_log : row.day \in Nat
  BY DEF ArchiveInv, ClockOK, ArchiverOK, RowsOK, Stored, IsRow, Days
<1>2. /\ history.excused \subseteq history'.excused
      /\ \A row \in usage_log : row.requests \subseteq OnTime' => row.requests \subseteq OnTime
  BY ExcusedByStep
<1>3. ASSUME UNCHANGED <<day, archiver, usage_log>> PROVE LeftRowsWait'
  BY <1>2, <1>3 DEF LeftRowsWait, Waits, Attempting, Yesterday
<1>4. CASE BatchInsert
  <2>1. /\ UNCHANGED <<day, archiver>> /\ usage_log' = usage_log \cup {batch}
        /\ batch.requests # {}
        /\ batch.day # day => batch.requests \subseteq history'.late
    BY <1>4 DEF BatchInsert, ArchiveInv, BatchOK, IsRow, HistoryOK
  <2> QED  BY <1>1, <1>2, <2>1 DEF LeftRowsWait, Waits, Attempting, Yesterday, OnTime
<1>5. CASE Start \/ Attempt
  <2>1. /\ UNCHANGED <<day, usage_log>> /\ ~Attempting
        /\ archiver'.at \in {"startup", "attempt", "retry"}
    BY <1>5 DEF Start, Attempt, Due, Attempting, Down
  <2> QED  BY <1>2, <2>1 DEF LeftRowsWait, Waits, Yesterday
<1>6. CASE ArchiveCommit
  <2> SUFFICES ASSUME NEW row \in usage_log, row.day # archiver.date, row.day < day,
                      row.requests \subseteq OnTime
               PROVE  row.day + 1 \in history'.excused
    BY <1>2, <1>6 DEF ArchiveCommit, OnDate, LeftRowsWait, Waits
  <2>1. archiver.date < day /\ history'.excused = ExcusedByCommit
    BY <1>6 DEF ArchiveCommit, ArchiveInv, ArchiverOK, HistoryOK
  <2>2. CASE row.day + 1 \in history.excused  BY <1>2, <2>2
  <2>3. CASE row.day = Yesterday
    BY <1>1, <2>1, <2>3 DEF ExcusedByCommit, Yesterday
  <2> QED  BY <2>2, <2>3 DEF LeftRowsWait, Waits
<1>7. CASE ArchiveFail
  <2>1. /\ UNCHANGED <<day, usage_log>>
        /\ history'.excused = history.excused \cup {archiver.date + 1, day}
    BY <1>7 DEF ArchiveFail, ArchiveInv, HistoryOK
  <2> QED  BY <1>1, <1>2, <2>1 DEF LeftRowsWait, Waits, Yesterday
<1>8. CASE Stop
  <2>1. /\ UNCHANGED <<day, usage_log>> /\ archiver'.at = "down"
        /\ Attempting /\ archiver.date # Yesterday => archiver.date + 1 \in history'.excused
    BY <1>8 DEF Stop, Down, ArchiveInv, HistoryOK
  <2> QED  BY <1>1, <1>2, <2>1 DEF LeftRowsWait, Waits, Yesterday
<1>9. CASE Midnight
  <2>1. /\ UNCHANGED <<usage_log, archiver>> /\ day' = day + 1
        /\ fivePast /\ ~Due
        /\ archiver.at = "backoff" => archiver.date = day
        /\ archiver = Down => day \in history'.excused
    BY <1>9 DEF Midnight, ArchiveInv, HistoryOK
  <2> SUFFICES ASSUME NEW row \in usage_log, row.day < day + 1,
                      row.requests \subseteq OnTime
               PROVE  Waits(row)'
    BY <1>2, <2>1 DEF LeftRowsWait
  <2>2. CASE row.day = day
    BY <1>1, <2>1, <2>2 DEF Waits, Yesterday, HoursOK
  <2>3. CASE row.day < day
    <3>1. CASE row.day + 1 \in history.excused \/ (Attempting /\ archiver.date = row.day)
      BY <1>2, <2>1, <3>1 DEF Waits, Attempting
    <3>2. CASE row.day = Yesterday /\ ~(archiver.at = "sleep" /\ archiver.date > day)
      <4>1. CASE Attempting
        BY <2>1, <3>2, <4>1 DEF Waits, Attempting, HoursOK
      <4>2. CASE archiver.at = "sleep"
        BY <1>1, <2>1, <3>2, <4>2 DEF Due
      <4>3. CASE archiver.at \in {"backoff", "down"}
        <5>1. day \in history'.excused  BY <1>2, <2>1, <4>3 DEF HoursOK
        <5> QED  BY <1>1, <3>2, <5>1 DEF Waits, Yesterday
      <4> QED  BY <4>1, <4>2, <4>3 DEF ArchiveInv, ArchiverOK, Attempting
    <3> QED  BY <2>3, <3>1, <3>2 DEF LeftRowsWait, Waits
  <2> QED  BY <1>1, <2>2, <2>3
<1> QED
  BY <1>3, <1>4, <1>5, <1>6, <1>7, <1>8, <1>9
  DEF ArchiveNext, archiveVars, BatchBegin, BatchFail, QueryBegin, ReadItems, ReadTotal, Answer,
      FivePastMidnight

(* Whatever attempts, failures and restarts there are: a day that is not   *)
(* archived on the day after it has one of the excuses.                    *)
THEOREM ArchivedTheDayAfterHolds == ArchiveSpec => []ArchivedTheDayAfter
<1> DEFINE DayAfterInv == ArchiveInv /\ HoursOK /\ LeftRowsWait
<1>1. ArchiveInit => DayAfterInv
  <2> SUFFICES ASSUME ArchiveInit PROVE DayAfterInv
    OBVIOUS
  <2>1. HoursOK  BY DEF ArchiveInit, HoursOK, Down, Attempting
  <2>2. LeftRowsWait  BY DEF ArchiveInit, LeftRowsWait
  <2> QED  BY <2>1, <2>2, ArchiveInitInv
<1>2. DayAfterInv /\ [ArchiveNext]_archiveVars => DayAfterInv'
  BY ArchiveStep, HoursStep, WaitStep
<1>3. DayAfterInv => ArchivedTheDayAfter
  <2> SUFFICES ASSUME DayAfterInv, NEW row \in usage_log, row.day < day - 1,
                      row.requests \subseteq OnTime, ~(Attempting /\ archiver.date = row.day)
               PROVE  row.day + 1 \in history.excused
    BY DEF ArchivedTheDayAfter
  <2>1. row.day \in Nat /\ day \in Nat
    BY DEF ArchiveInv, ClockOK, RowsOK, Stored, IsRow, Days
  <2>2. Waits(row)  BY <2>1 DEF LeftRowsWait
  <2> QED  BY <2>1, <2>2 DEF Waits, Yesterday
<1> QED  BY <1>1, <1>2, <1>3, PTL DEF ArchiveSpec
-----------------------------------------------------------------------------
(* Rows whose requests can be counted one by one.                          *)
Countable(rows) ==
  /\ IsFiniteSet(rows) /\ Disjoint(rows)
  /\ \A row \in rows : /\ IsFiniteSet(row.requests) /\ row.requests # {}
                       /\ row.requests \subseteq Request

Ones == [r \in Request |-> 1]
Tokens == [r \in Request |-> Usage[r].tokens]
Durations == [r \in Request |-> Usage[r].ms]
Lasted(requests) == {Durations[r] : r \in requests}
TokensOf(requests) == SumFunctionOnSet(Tokens, requests)
TimeOf(requests) == SumFunctionOnSet(Durations, requests)

LEMMA UsageTypes ==
  ASSUME NEW r \in Request
  PROVE  Ones[r] = 1 /\ Tokens[r] \in Nat /\ Durations[r] \in Nat
         /\ Tokens[r] = Usage[r].tokens /\ Durations[r] = Usage[r].ms
BY UsageAssumption DEF Ones, Tokens, Durations

LEMMA SubsetsCountable ==
  ASSUME NEW rows, Countable(rows), NEW some, some \subseteq rows
  PROVE  Countable(some)
BY FS_Subset DEF Countable, Disjoint

(* Some statistics are those of a set of requests, up to the rounding.     *)
Near(spent, requests) ==
  /\ spent \in Int
  /\ - Cardinality(requests) <= 2 * (spent - TimeOf(requests))
  /\ 2 * (spent - TimeOf(requests)) <= Cardinality(requests)

StatOf(requests, spent) ==
  [requests |-> Cardinality(requests), tokens |-> TokensOf(requests), spent |-> spent,
   least |-> Min(Lasted(requests)), most |-> Max(Lasted(requests))]

LEMMA RowsArePartsOf ==
  ASSUME NEW rows, Countable(rows)
  PROVE  /\ PartsOf(RowsOf(rows), rows, [row \in rows |-> row.requests])
         /\ RowsOf(rows) \subseteq Request
BY DEF PartsOf, RowsOf, Countable, Disjoint

LEMMA DivFacts ==
  ASSUME NEW a \in Int, NEW d \in Nat \ {0}
  PROVE  a \div d \in Int /\ d * (a \div d) <= a /\ a < d * (a \div d) + d
OBVIOUS

LEMMA MeanIsNear ==
  ASSUME NEW requests, requests \subseteq Request, requests # {}, IsFiniteSet(requests)
  PROVE  Near(Cardinality(requests) * RoundedMean(requests), requests)
<1> DEFINE n == Cardinality(requests)
           time == TimeOf(requests)
           mean == RoundedMean(requests)
<1>1. n \in Nat /\ n # 0
  BY FS_CardinalityType, FS_EmptySet
<1>2. time \in Int
  <2>1. \A r \in requests : Durations[r] \in Int
    BY UsageTypes
  <2> QED  BY <2>1, SumType DEF TimeOf
<1>3. mean = (2 * time + n) \div (2 * n)
  <2> DEFINE ms == [r \in requests |-> Usage[r].ms]
  <2>1. \A r \in requests : ms[r] = Durations[r] /\ ms[r] \in Int
    BY UsageTypes
  <2>2. SumFunctionOnSet(ms, requests) = SumFunctionOnSet(Durations, requests)
    <3> HIDE DEF ms
    <3> QED  BY <2>1, SumSame
  <2>3. SumFunction(ms) = SumFunctionOnSet(ms, requests)
    BY DEF SumFunction
  <2> QED  BY <2>2, <2>3 DEF RoundedMean, TimeOf
<1> HIDE DEF n, time, mean
<1>4. 2 * time + n \in Int /\ 2 * n \in Nat \ {0}
  BY <1>1, <1>2
<1>5. mean \in Int /\ (2 * n) * mean <= 2 * time + n /\ 2 * time + n < (2 * n) * mean + 2 * n
  BY <1>3, <1>4, DivFacts
<1>6. n * mean \in Int /\ (2 * n) * mean = 2 * (n * mean)
  BY <1>1, <1>5
<1>7. n * mean \in Int /\ -n <= 2 * (n * mean - time) /\ 2 * (n * mean - time) <= n
  BY <1>1, <1>2, <1>5, <1>6
<1> QED
  BY <1>7 DEF Near, n, time, mean

LEMMA RequestsCounted ==
  ASSUME NEW rows, Countable(rows)
  PROVE  /\ IsFiniteSet(RowsOf(rows))
         /\ RowsOf(rows) \subseteq Request
         /\ SumFunction([row \in rows |-> Cardinality(row.requests)]) = Cardinality(RowsOf(rows))
<1> DEFINE P == [row \in rows |-> row.requests]
           g == [row \in rows |-> Cardinality(row.requests)]
<1>0. PartsOf(RowsOf(rows), rows, P) /\ RowsOf(rows) \subseteq Request
  BY RowsArePartsOf
<1>1. /\ IsFiniteSet(RowsOf(rows))
      /\ SumFunctionOnSet(g, rows) = SumFunctionOnSet(Ones, RowsOf(rows))
  <2>1. \A row \in rows : IsFiniteSet(P[row]) /\ P[row] \subseteq Request
    BY DEF Countable
  <2>2. \A row \in rows : \A r \in P[row] : Ones[r] = 1
    BY <2>1, UsageTypes
  <2>3. \A row \in rows : g[row] = SumFunctionOnSet(Ones, P[row])
    <3> SUFFICES ASSUME NEW row \in rows PROVE Cardinality(P[row]) = SumFunctionOnSet(Ones, P[row])
      OBVIOUS
    <3> HIDE DEF P
    <3> QED  BY <2>1, <2>2, SumOnes
  <2>4. \A r \in RowsOf(rows) : Ones[r] \in Int
    BY <1>0, UsageTypes
  <2> HIDE DEF P, g
  <2> QED  BY <1>0, <2>3, <2>4, SumOfParts
<1>4. SumFunctionOnSet(Ones, RowsOf(rows)) = Cardinality(RowsOf(rows))
  <2>1. \A r \in RowsOf(rows) : Ones[r] = 1
    BY <1>0, UsageTypes
  <2> QED  BY <1>1, <2>1, SumOnes
<1>5. SumFunction(g) = SumFunctionOnSet(g, rows)
  BY DEF SumFunction
<1> QED  BY <1>0, <1>1, <1>4, <1>5

(* The statistics of a table are those of its requests.                    *)
LEMMA StatIs ==
  ASSUME NEW rows, Countable(rows), rows # {}
  PROVE  \E spent : Stat(rows) = StatOf(RowsOf(rows), spent) /\ Near(spent, RowsOf(rows))
<1> DEFINE P == [row \in rows |-> row.requests]
           n == [row \in rows |-> Cardinality(row.requests)]
           tokens == [row \in rows |-> SumFunction([r \in row.requests |-> Usage[r].tokens])]
           times == [row \in rows |-> TimeOf(row.requests)]
           spents == [row \in rows |-> Cardinality(row.requests) * RoundedMean(row.requests)]
<1>1. /\ IsFiniteSet(rows)
      /\ \A row \in rows : IsFiniteSet(P[row]) /\ P[row] # {} /\ P[row] \subseteq Request
      /\ \A row, other \in rows : row # other => P[row] \cap P[other] = {}
  BY DEF Countable, Disjoint
<1>2. PartsOf(RowsOf(rows), rows, P) /\ RowsOf(rows) \subseteq Request
  BY RowsArePartsOf
<1>a. \A r \in RowsOf(rows) : Tokens[r] \in Int /\ Durations[r] \in Int
  BY <1>2, UsageTypes
<1>3. \A row \in rows : \A r \in P[row] : Tokens[r] \in Int /\ Durations[r] \in Int
  BY <1>1, UsageTypes
<1>4. SumFunction(n) = Cardinality(RowsOf(rows)) /\ SumFunctionOnSet(n, rows) = SumFunction(n)
  BY RequestsCounted DEF SumFunction
<1>5. SumFunction(tokens) = TokensOf(RowsOf(rows))
  <2>1. \A row \in rows : tokens[row] = SumFunctionOnSet(Tokens, P[row])
    <3> SUFFICES ASSUME NEW row \in rows PROVE tokens[row] = SumFunctionOnSet(Tokens, P[row])
      OBVIOUS
    <3> DEFINE some == [r \in P[row] |-> Usage[r].tokens]
    <3>1. tokens[row] = SumFunctionOnSet(some, P[row])
      BY DEF SumFunction
    <3>2. \A r \in P[row] : some[r] = Tokens[r] /\ Tokens[r] \in Int
      BY <1>1, UsageTypes
    <3> HIDE DEF some, P, tokens
    <3>3. SumFunctionOnSet(Tokens, P[row]) = SumFunctionOnSet(some, P[row])
      BY <1>1, <3>2, SumSame
    <3> QED  BY <3>1, <3>3
  <2>2. SumFunction(tokens) = SumFunctionOnSet(tokens, rows)
    BY DEF SumFunction
  <2> HIDE DEF P, tokens
  <2>3. SumFunctionOnSet(tokens, rows) = SumFunctionOnSet(Tokens, RowsOf(rows))
    BY <1>2, <1>a, <2>1, SumOfParts
  <2> QED  BY <2>2, <2>3 DEF TokensOf
<1>6. SumFunctionOnSet(times, rows) = TimeOf(RowsOf(rows))
  <2>1. \A row \in rows : times[row] = SumFunctionOnSet(Durations, P[row])
    BY DEF TimeOf
  <2> HIDE DEF P, times
  <2>2. SumFunctionOnSet(times, rows) = SumFunctionOnSet(Durations, RowsOf(rows))
    BY <1>2, <1>a, <2>1, SumOfParts
  <2> QED  BY <2>2 DEF TimeOf
<1>7. Near(SumFunction(spents), RowsOf(rows))
  <2>1. \A row \in rows : /\ spents[row] \in Int /\ times[row] \in Int /\ n[row] \in Int
                          /\ -n[row] <= 2 * (spents[row] - times[row])
                          /\ 2 * (spents[row] - times[row]) <= n[row]
    <3> SUFFICES ASSUME NEW row \in rows
                 PROVE  /\ spents[row] \in Int /\ times[row] \in Int /\ n[row] \in Int
                        /\ -n[row] <= 2 * (spents[row] - times[row])
                        /\ 2 * (spents[row] - times[row]) <= n[row]
      OBVIOUS
    <3>1. Near(spents[row], row.requests)
      BY <1>1, MeanIsNear
    <3>2. times[row] \in Int
      <4>1. SumFunctionOnSet(Durations, P[row]) \in Int
        <5> HIDE DEF P
        <5> QED  BY <1>1, <1>3, SumType
      <4> QED  BY <4>1 DEF TimeOf
    <3>3. n[row] \in Int
      BY <1>1, FS_CardinalityType
    <3> QED  BY <3>1, <3>2, <3>3 DEF Near
  <2>2. SumFunction(spents) = SumFunctionOnSet(spents, rows)
    BY DEF SumFunction
  <2> HIDE DEF n, spents, times
  <2>3. SumFunctionOnSet(spents, rows) \in Int
    BY <1>1, <2>1, SumType
  <2>4. LET d == SumFunctionOnSet(spents, rows) - SumFunctionOnSet(times, rows) IN
        /\ - SumFunctionOnSet(n, rows) <= 2 * d
        /\ 2 * d <= SumFunctionOnSet(n, rows)
    BY <1>1, <2>1, SumNear
  <2> QED  BY <1>4, <1>6, <2>2, <2>3, <2>4 DEF Near
<1>8. {Usage[r].ms : r \in UNION {row.requests : row \in rows}} = Lasted(RowsOf(rows))
  <2>1. \A r \in RowsOf(rows) : Durations[r] = Usage[r].ms
    BY RequestsCounted, UsageTypes
  <2> QED  BY <2>1 DEF Lasted, RowsOf
<1>9. Stat(rows) = StatOf(RowsOf(rows), SumFunction(spents))
  BY <1>4, <1>5, <1>8 DEF Stat, StatOf
<1> HIDE DEF spents
<1> QED  BY <1>7, <1>9

LEMMA MergedStatIs ==
  ASSUME NEW A, NEW B, A \subseteq Request, B \subseteq Request, A # {}, B # {},
         A \cap B = {}, IsFiniteSet(A), IsFiniteSet(B),
         NEW s, NEW t, Near(s, A), Near(t, B)
  PROVE  /\ MergeTwo(StatOf(A, s), StatOf(B, t)) = StatOf(A \cup B, s + t)
         /\ Near(s + t, A \cup B)
<1>1. /\ Cardinality(A \cup B) = Cardinality(A) + Cardinality(B)
      /\ Cardinality(A) \in Nat /\ Cardinality(B) \in Nat
  <2>1. Cardinality(A \cup B) = Cardinality(A) + Cardinality(B) - Cardinality(A \cap B)
    BY FS_Union
  <2>2. Cardinality(A \cap B) = 0  BY FS_EmptySet
  <2>3. Cardinality(A) \in Nat  BY FS_CardinalityType
  <2>4. Cardinality(B) \in Nat  BY FS_CardinalityType
  <2> QED  BY <2>1, <2>2, <2>3, <2>4
<1>2. \A r \in A \cup B : Tokens[r] \in Int /\ Durations[r] \in Int /\ Durations[r] \in Nat
  BY UsageTypes
<1>3. TokensOf(A \cup B) = TokensOf(A) + TokensOf(B)
  BY <1>2, SumUnion DEF TokensOf
<1>4. TimeOf(A \cup B) = TimeOf(A) + TimeOf(B)
  BY <1>2, SumUnion DEF TimeOf
<1>5. TimeOf(A) \in Int /\ TimeOf(B) \in Int
  <2>1. TimeOf(A) \in Int  BY <1>2, SumType DEF TimeOf
  <2>2. TimeOf(B) \in Int  BY <1>2, SumType DEF TimeOf
  <2> QED  BY <2>1, <2>2
<1>6. /\ Lasted(A) \subseteq Nat /\ Lasted(B) \subseteq Nat
      /\ Lasted(A) # {} /\ Lasted(B) # {}
      /\ Lasted(A \cup B) = Lasted(A) \cup Lasted(B)
  BY <1>2 DEF Lasted
<1>7. IsFiniteSet(Lasted(A)) /\ IsFiniteSet(Lasted(B))
  BY FiniteImage DEF Lasted
<1>8. Min({Min(Lasted(A)), Min(Lasted(B))}) = Min(Lasted(A \cup B))
  BY <1>6, MinOfUnion
<1>9. Max({Max(Lasted(A)), Max(Lasted(B))}) = Max(Lasted(A \cup B))
  BY <1>6, <1>7, MaxOfUnion
<1>10. Near(s + t, A \cup B)
  BY <1>1, <1>4, <1>5 DEF Near
<1> QED  BY <1>1, <1>3, <1>8, <1>9, <1>10 DEF MergeTwo, StatOf

(* Rows of one request each are not rounded.                               *)
LEMMA SingleRowsExact ==
  ASSUME NEW rows, Countable(rows), rows # {}, \A row \in rows : \E r : row.requests = {r}
  PROVE  Stat(rows) = StatOf(RowsOf(rows), TimeOf(RowsOf(rows)))
<1> DEFINE P == [row \in rows |-> row.requests]
           spents == [row \in rows |-> Cardinality(row.requests) * RoundedMean(row.requests)]
<1>1. /\ IsFiniteSet(rows)
      /\ \A row \in rows : IsFiniteSet(P[row]) /\ P[row] # {} /\ P[row] \subseteq Request
      /\ \A row, other \in rows : row # other => P[row] \cap P[other] = {}
  BY DEF Countable, Disjoint
<1>2. PartsOf(RowsOf(rows), rows, P) /\ RowsOf(rows) \subseteq Request
  BY RowsArePartsOf
<1>a. \A r \in RowsOf(rows) : Tokens[r] \in Int /\ Durations[r] \in Int
  BY <1>2, UsageTypes
<1>3. \A row \in rows : \A r \in P[row] : Durations[r] \in Int
  BY <1>1, UsageTypes
<1>4. \A row \in rows : spents[row] = SumFunctionOnSet(Durations, P[row])
  <2> SUFFICES ASSUME NEW row \in rows
               PROVE  Cardinality(row.requests) * RoundedMean(row.requests) = TimeOf(row.requests)
    BY DEF TimeOf
  <2>1. PICK r : row.requests = {r}
    OBVIOUS
  <2>2. r \in Request /\ Cardinality(row.requests) = 1
    BY <1>1, <2>1, FS_Singleton
  <2>3. Near(1 * RoundedMean(row.requests), row.requests)
    BY <1>1, <2>2, MeanIsNear
  <2>4. TimeOf(row.requests) = Durations[r] + TimeOf({})
    <3>1. {r} = {} \cup {r} /\ IsFiniteSet({})
      BY FS_EmptySet
    <3>2. Durations[r] \in Int  BY <2>2, UsageTypes
    <3>3. SumFunctionOnSet(Durations, {} \cup {r}) = Durations[r] + SumFunctionOnSet(Durations, {})
      BY <3>1, <3>2, SumAdd
    <3> QED  BY <2>1, <3>1, <3>3 DEF TimeOf
  <2>5. TimeOf(row.requests) \in Int
    BY <2>2, <2>4, SumEmpty, UsageTypes DEF TimeOf
  <2>6. RoundedMean(row.requests) \in Int
    <3> DEFINE ms == SumFunction([q \in row.requests |-> Usage[q].ms])
    <3>1. ms \in Int
      <4> DEFINE f == [q \in row.requests |-> Usage[q].ms]
      <4>1. \A q \in row.requests : f[q] \in Int
        BY <1>1, UsageTypes
      <4>2. ms = SumFunctionOnSet(f, row.requests)
        BY DEF SumFunction
      <4> HIDE DEF f, ms
      <4>3. IsFiniteSet(row.requests)  BY <1>1
      <4> QED  BY <4>1, <4>2, <4>3, SumType
    <3>2. RoundedMean(row.requests) = (2 * ms + 1) \div 2
      BY <2>2 DEF RoundedMean
    <3> HIDE DEF ms
    <3> QED  BY <3>1, <3>2
  <2> QED  BY <2>2, <2>3, <2>5, <2>6 DEF Near
<1>5. SumFunction(spents) = SumFunctionOnSet(spents, rows)
  BY DEF SumFunction
<1>6. Stat(rows).spent = SumFunction(spents)
  BY DEF Stat
<1> HIDE DEF P, spents
<1>7. SumFunctionOnSet(spents, rows) = SumFunctionOnSet(Durations, RowsOf(rows))
  BY <1>2, <1>a, <1>4, SumOfParts
<1>8. Stat(rows).spent = TimeOf(RowsOf(rows))
  BY <1>2, <1>5, <1>6, <1>7 DEF TimeOf
<1>9. PICK spent : Stat(rows) = StatOf(RowsOf(rows), spent)
  BY StatIs
<1> QED  BY <1>8, <1>9 DEF StatOf
-----------------------------------------------------------------------------
Columns == {"day", "api_key", "model"}

(* What has been written, and what is left of it: each row as it was       *)
(* written counts one request, and a daily row has the day, the key and    *)
(* the model of every request it counts.                                   *)
WrittenOK ==
  /\ IsFiniteSet(history.rows) /\ Disjoint(history.rows)
  /\ \A row \in history.rows : IsRow(row) /\ \E r \in Request : row.requests = {r}
  /\ batch # None => \E r \in Request : batch.requests = {r}

TablesOK ==
  /\ usage_log \subseteq history.rows
  /\ usage_log \cap usage_log_daily = {}
  /\ IsFiniteSet(usage_log_daily)
  /\ \A row \in usage_log_daily, other \in history.rows :
       row.requests \cap other.requests # {} => \A c \in Columns : row[c] = other[c]

Having(rows, c, id) == {row \in rows : row[c] = id}

-----------------------------------------------------------------------------
LEMMA WrittenStep ==
  ASSUME ArchiveInv, WrittenOK, [ArchiveNext]_archiveVars
  PROVE  WrittenOK'
<1>1. CASE BatchInsert
  <2>1. history'.rows = history.rows \cup {batch} /\ batch # None /\ batch' = None
    BY <1>1 DEF BatchInsert, ArchiveInv, HistoryOK
  <2>2. IsRow(batch) /\ batch.requests \cap Written = {} /\ \E r \in Request : batch.requests = {r}
    BY <2>1 DEF ArchiveInv, BatchOK, WrittenOK
  <2>3. IsFiniteSet(history'.rows)
    BY <2>1, FS_AddElement DEF WrittenOK
  <2>4. Disjoint(history'.rows)
    <3>1. \A row \in history.rows : row.requests \cap batch.requests = {}
      BY <2>2 DEF Written, RowsOf
    <3> QED  BY <2>1, <3>1 DEF WrittenOK, Disjoint
  <2>5. \A row \in history'.rows : IsRow(row) /\ \E r \in Request : row.requests = {r}
    BY <2>1, <2>2 DEF WrittenOK
  <2> QED  BY <2>1, <2>3, <2>4, <2>5 DEF WrittenOK
<1>2. ASSUME NEW request \in Request, BatchBegin(request) PROVE WrittenOK'
  <2>1. history' = history /\ batch'.requests = {request}
    BY <1>2 DEF BatchBegin, RowOf
  <2> QED  BY <2>1 DEF WrittenOK
<1>3. CASE ~BatchInsert /\ ~\E request \in Request : BatchBegin(request)
  <2>1. history'.rows = history.rows /\ (batch' = batch \/ batch' = None)
    BY <1>3 DEF ArchiveNext, archiveVars, ArchiveInv, HistoryOK, BatchFail, Start, Attempt,
       ArchiveCommit, ArchiveFail, Stop, QueryBegin, ReadItems, ReadTotal,
       Answer, FivePastMidnight, Midnight
  <2> QED  BY <2>1 DEF WrittenOK
<1> QED  BY <1>1, <1>2, <1>3

LEMMA AggregateFinite ==
  ASSUME NEW rows, IsFiniteSet(rows)
  PROVE  IsFiniteSet(Aggregate(rows))
<1> DEFINE keyOf == [row \in rows |-> <<row.api_key, row.model>>]
           rowOf == [key \in GroupKeys(rows) |-> GroupRow(rows, key)]
<1>1. IsFiniteSet(GroupKeys(rows))
  <2>1. IsFiniteSet({keyOf[row] : row \in rows})
    <3> HIDE DEF keyOf
    <3> QED  BY FiniteImage
  <2>2. GroupKeys(rows) = {keyOf[row] : row \in rows}
    BY DEF GroupKeys
  <2> QED  BY <2>1, <2>2
<1>2. IsFiniteSet({rowOf[key] : key \in GroupKeys(rows)})
  <2> HIDE DEF rowOf
  <2> QED  BY <1>1, FiniteImage
<1>3. Aggregate(rows) = {rowOf[key] : key \in GroupKeys(rows)}
  BY AggregateIs
<1> QED  BY <1>2, <1>3

LEMMA TablesStep ==
  ASSUME ArchiveInv, WrittenOK, TablesOK, [ArchiveNext]_archiveVars
  PROVE  TablesOK'
<1>1. CASE BatchInsert
  <2>1. /\ history'.rows = history.rows \cup {batch} /\ batch # None
        /\ usage_log' = usage_log \cup {batch} /\ usage_log_daily' = usage_log_daily
    BY <1>1 DEF BatchInsert, ArchiveInv, HistoryOK
  <2>2. IsRow(batch) /\ batch.requests \cap Written = {}
    BY <2>1 DEF ArchiveInv, BatchOK
  <2>3. \A row \in usage_log_daily : row.requests \subseteq Written /\ row.requests # {}
    BY DEF ArchiveInv, Once, RowsOf, Stored, RowsOK, IsRow
  <2>4. \A row \in usage_log_daily : row.requests \cap batch.requests = {} /\ row # batch
    BY <2>2, <2>3
  <2> QED  BY <2>1, <2>4 DEF TablesOK
<1>2. CASE ArchiveCommit
  <2> DEFINE moved == OnDate(usage_log, archiver.date)
  <2>1. /\ usage_log' = usage_log \ moved /\ history'.rows = history.rows
        /\ \/ usage_log_daily' = usage_log_daily
           \/ usage_log_daily' = usage_log_daily \cup Aggregate(moved)
    BY <1>2 DEF ArchiveCommit, ArchiveInv, HistoryOK
  <2>2. /\ moved \subseteq usage_log /\ moved \subseteq history.rows
        /\ \A row \in moved : row.day = archiver.date
    BY DEF OnDate, TablesOK
  <2>3. CASE usage_log_daily' = usage_log_daily
    BY <2>1, <2>3 DEF TablesOK
  <2>4. CASE usage_log_daily' = usage_log_daily \cup Aggregate(moved)
    <3> HIDE DEF moved
    <3>1. IsFiniteSet(usage_log_daily')
      <4>1. IsFiniteSet(moved)
        BY <2>2, FS_Subset DEF WrittenOK
      <4>2. IsFiniteSet(Aggregate(moved))
        BY <4>1, AggregateFinite
      <4> QED  BY <2>4, <4>2, FS_Union DEF TablesOK
    <3>2. ASSUME NEW agg \in Aggregate(moved)
          PROVE  /\ \E row \in moved : row.requests \subseteq agg.requests /\ row.requests # {}
                 /\ \A r \in agg.requests : \E row \in moved :
                      r \in row.requests /\ \A c \in Columns : agg[c] = row[c]
      <4>1. PICK key \in GroupKeys(moved) : agg = GroupRow(moved, key)
        BY <3>2, AggregateIs
      <4>0. \A row \in moved : IsRow(row)
        BY <2>2 DEF ArchiveInv, RowsOK, Stored
      <4>2. PICK first \in moved : key = <<first.api_key, first.model>>
        BY DEF GroupKeys
      <4>3. first.day = archiver.date /\ first.day \in Days
        BY <2>2, <4>0 DEF IsRow
      <4>4. /\ agg.day = archiver.date
            /\ agg.requests = RowsOf(Group(moved, key))
            /\ <<agg.api_key, agg.model>> = key
        BY <2>2, <4>0, <4>1, <4>3, GroupRowFacts
      <4>5. first \in Group(moved, key)
        BY <4>2 DEF Group
      <4>6. first.requests \subseteq agg.requests /\ first.requests # {}
        BY <4>0, <4>4, <4>5 DEF RowsOf, IsRow
      <4>7. ASSUME NEW r \in agg.requests
            PROVE  \E row \in moved : r \in row.requests /\ \A c \in Columns : agg[c] = row[c]
        <5>1. PICK row \in Group(moved, key) : r \in row.requests
          BY <4>4 DEF RowsOf
        <5>2. row \in moved /\ row.api_key = key[1] /\ row.model = key[2]
          BY DEF Group
        <5>3. key[1] = agg.api_key /\ key[2] = agg.model
          BY <4>4
        <5>4. agg.day = row.day
          BY <2>2, <4>4, <5>2
        <5> QED  BY <5>1, <5>2, <5>3, <5>4 DEF Columns
      <4> QED  BY <4>6, <4>7
    <3>3. usage_log' \cap usage_log_daily' = {}
      <4>1. ASSUME NEW agg \in Aggregate(moved), agg \in usage_log \ moved PROVE FALSE
        <5>1. PICK row \in moved : row.requests \subseteq agg.requests /\ row.requests # {}
          BY <3>2, <4>1
        <5> QED  BY <2>2, <4>1, <5>1 DEF ArchiveInv, Once, Disjoint, Stored
      <4> QED  BY <2>1, <2>4, <4>1 DEF TablesOK
    <3>4. ASSUME NEW agg \in Aggregate(moved), NEW other \in history.rows,
                 agg.requests \cap other.requests # {}, NEW c \in Columns
          PROVE  agg[c] = other[c]
      <4>1. PICK r \in agg.requests : r \in other.requests
        BY <3>4
      <4>2. PICK row \in moved : r \in row.requests /\ \A col \in Columns : agg[col] = row[col]
        BY <3>2
      <4>3. row = other
        BY <2>2, <4>1, <4>2 DEF WrittenOK, Disjoint
      <4> QED  BY <4>2, <4>3
    <3> QED  BY <2>1, <2>4, <3>1, <3>3, <3>4 DEF TablesOK
  <2> QED  BY <2>1, <2>3, <2>4
<1>3. CASE ~BatchInsert /\ ~ArchiveCommit
  <2>1. /\ history'.rows = history.rows /\ usage_log' = usage_log
        /\ usage_log_daily' = usage_log_daily
    BY <1>3 DEF ArchiveNext, archiveVars, ArchiveInv, HistoryOK, BatchBegin, BatchFail, Start, Attempt,
       ArchiveFail, Stop, QueryBegin, ReadItems, ReadTotal,
       Answer, FivePastMidnight, Midnight
  <2> QED  BY <2>1 DEF TablesOK
<1> QED  BY <1>1, <1>2, <1>3

LEMMA TablesInit == ArchiveInit => WrittenOK /\ TablesOK
BY FS_EmptySet DEF ArchiveInit, WrittenOK, TablesOK, Disjoint

(* The invariant of the tables and of what has been written to them.       *)
TablesInv == ArchiveInv /\ WrittenOK /\ TablesOK

(* The rows of the tables are what was written, whatever is archived.      *)
THEOREM TablesInvariance == ArchiveSpec => []TablesInv
<1>1. ArchiveInit => TablesInv  BY ArchiveInitInv, TablesInit DEF TablesInv
<1>2. TablesInv /\ [ArchiveNext]_archiveVars => TablesInv'
  BY ArchiveStep, WrittenStep, TablesStep DEF TablesInv
<1> QED  BY <1>1, <1>2, PTL DEF ArchiveSpec

(* No request is counted twice, and none whose row was inserted on its day *)
(* is lost, for any requests, days, restarts and failures.                 *)
THEOREM EachRequestOnceHolds == ArchiveSpec => []EachRequestOnce
<1>1. TablesInv => EachRequestOnce
  BY DEF TablesInv, TablesOK, ArchiveInv, Once, Disjoint, Stored, EachRequestOnce
<1> QED  BY <1>1, TablesInvariance, PTL
-----------------------------------------------------------------------------
LEMMA CountableTables ==
  ASSUME TablesInv
  PROVE  Countable(Stored) /\ Countable(history.rows) /\ IsFiniteSet(Written)
<1> USE DEF TablesInv
<1>1. Countable(history.rows)
  <2>1. \A row \in history.rows : row.requests # {} /\ row.requests \subseteq Request
    BY DEF WrittenOK, IsRow
  <2>2. \A row \in history.rows : IsFiniteSet(row.requests)
    BY FS_Singleton DEF WrittenOK
  <2> QED  BY <2>1, <2>2 DEF WrittenOK, Countable
<1>2. IsFiniteSet(Written)
  BY <1>1, RequestsCounted DEF Written
<1>3. IsFiniteSet(Stored)
  <2>1. IsFiniteSet(usage_log)
    BY FS_Subset DEF TablesOK, WrittenOK
  <2> QED  BY <2>1, FS_Union DEF TablesOK, Stored
<1>4. \A row \in Stored : row.requests # {} /\ row.requests \subseteq Request
  BY DEF ArchiveInv, RowsOK, IsRow
<1>5. \A row \in Stored : IsFiniteSet(row.requests)
  <2>1. \A row \in Stored : row.requests \subseteq Written
    BY DEF ArchiveInv, Once, RowsOf
  <2> QED  BY <1>2, <2>1, FS_Subset
<1>6. Disjoint(Stored)
  BY DEF ArchiveInv, Once
<1> QED  BY <1>1, <1>2, <1>3, <1>4, <1>5, <1>6 DEF Countable

(* Every request in a table was written in a row of its own, with the same *)
(* day, key and model; a row that was written with a request in a table,   *)
(* too.                                                                    *)
LEMMA RowWasWritten ==
  ASSUME TablesInv, NEW row \in Stored, NEW r \in row.requests
  PROVE  \E other \in history.rows :
           other.requests = {r} /\ \A c \in Columns : row[c] = other[c]
<1> USE DEF TablesInv
<1>1. r \in Written
  BY DEF ArchiveInv, Once, RowsOf
<1>2. PICK other \in history.rows : r \in other.requests
  BY <1>1 DEF Written, RowsOf
<1>3. other.requests = {r}
  BY <1>2 DEF WrittenOK
<1>4. CASE row \in usage_log_daily
  BY <1>2, <1>3, <1>4 DEF TablesOK
<1>5. CASE row \in usage_log
  <2>1. row = other
    BY <1>2, <1>5 DEF TablesOK, WrittenOK, Disjoint
  <2> QED  BY <1>3, <2>1
<1> QED  BY <1>4, <1>5 DEF Stored

LEMMA StatItemsAre ==
  ASSUME NEW c, NEW rows, NEW id, NEW some, some = Having(rows, c, id)
  PROVE  /\ id \in DOMAIN StatItems(c, rows) <=> some # {}
         /\ some # {} => StatItems(c, rows)[id] = Stat(some)
BY DEF StatItems, DimensionId, Having

LEMMA RowsOfUnion ==
  ASSUME NEW A, NEW B
  PROVE  RowsOf(A \cup B) = RowsOf(A) \cup RowsOf(B)
BY DEF RowsOf

(* Rows of the same table that have no row in common have no request in    *)
(* common.                                                                 *)
LEMMA RequestsApart ==
  ASSUME NEW rows, Countable(rows), NEW A, NEW B, A \cup B \subseteq rows, A \cap B = {}
  PROVE  RowsOf(A) \cap RowsOf(B) = {}
BY DEF Countable, Disjoint, RowsOf

LEMMA RowsNotEmpty ==
  ASSUME NEW rows, Countable(rows)
  PROVE  rows = {} <=> RowsOf(rows) = {}
BY DEF Countable, RowsOf

(* The items of the two tables, merged, are the statistics of the rows of  *)
(* both.                                                                   *)
LEMMA MergedItem ==
  ASSUME TablesInv, NEW c, NEW id,
         NEW merged, merged = MergeStatItems(StatItems(c, usage_log_daily), StatItems(c, usage_log)),
         NEW Q, Q = RowsOf(Having(Stored, c, id))
  PROVE  /\ id \in DOMAIN merged <=> Q # {}
         /\ Q # {} => \E spent : merged[id] = StatOf(Q, spent) /\ Near(spent, Q)
<1>1. ASSUME NEW A, A = Having(usage_log_daily, c, id), NEW B, B = Having(usage_log, c, id)
      PROVE  /\ id \in DOMAIN merged <=> Q # {}
             /\ Q # {} => \E spent : merged[id] = StatOf(Q, spent) /\ Near(spent, Q)
  <2>1. /\ A \subseteq Stored /\ B \subseteq Stored /\ A \cup B \subseteq Stored
        /\ A \cap B = {} /\ Having(Stored, c, id) = A \cup B
    BY <1>1 DEF Having, Stored, TablesInv, TablesOK
  <2>2. Countable(Stored)
    BY CountableTables
  <2>3. Countable(A)
    BY <2>1, <2>2, SubsetsCountable
  <2>4. Countable(B)
    BY <2>1, <2>2, SubsetsCountable
  <2>5. RowsOf(A) \cap RowsOf(B) = {} /\ Q = RowsOf(A) \cup RowsOf(B)
    BY <2>1, <2>2, RequestsApart, RowsOfUnion
  <2>6. (A = {} <=> RowsOf(A) = {}) /\ (B = {} <=> RowsOf(B) = {})
    BY <2>3, <2>4, RowsNotEmpty
  <2>7. /\ id \in DOMAIN StatItems(c, usage_log_daily) <=> A # {}
        /\ A # {} => StatItems(c, usage_log_daily)[id] = Stat(A)
    BY <1>1, StatItemsAre
  <2>8. /\ id \in DOMAIN StatItems(c, usage_log) <=> B # {}
        /\ B # {} => StatItems(c, usage_log)[id] = Stat(B)
    BY <1>1, StatItemsAre
  <2>9. /\ id \in DOMAIN merged <=> A # {} \/ B # {}
        /\ A # {} /\ B # {} => merged[id] = MergeTwo(Stat(A), Stat(B))
        /\ A # {} /\ B = {} => merged[id] = Stat(A)
        /\ A = {} /\ B # {} => merged[id] = Stat(B)
    BY <2>7, <2>8 DEF MergeStatItems
  <2>10. CASE A # {} /\ B # {}
    <3>1. PICK s : Stat(A) = StatOf(RowsOf(A), s) /\ Near(s, RowsOf(A))
      BY <2>3, <2>10, StatIs
    <3>2. PICK t : Stat(B) = StatOf(RowsOf(B), t) /\ Near(t, RowsOf(B))
      BY <2>4, <2>10, StatIs
    <3>3. /\ IsFiniteSet(RowsOf(A)) /\ RowsOf(A) \subseteq Request
          /\ IsFiniteSet(RowsOf(B)) /\ RowsOf(B) \subseteq Request
      BY <2>3, <2>4, RequestsCounted
    <3>4. /\ MergeTwo(Stat(A), Stat(B)) = StatOf(RowsOf(A) \cup RowsOf(B), s + t)
          /\ Near(s + t, RowsOf(A) \cup RowsOf(B))
      <4>1. RowsOf(A) # {} /\ RowsOf(B) # {}
        BY <2>6, <2>10
      <4>2. /\ MergeTwo(StatOf(RowsOf(A), s), StatOf(RowsOf(B), t)) = StatOf(RowsOf(A) \cup RowsOf(B), s + t)
            /\ Near(s + t, RowsOf(A) \cup RowsOf(B))
        BY <2>5, <3>1, <3>2, <3>3, <4>1, MergedStatIs
      <4> QED  BY <3>1, <3>2, <4>2
    <3> QED  BY <2>5, <2>6, <2>9, <2>10, <3>4
  <2>11. CASE A # {} /\ B = {}
    <3>1. PICK s : Stat(A) = StatOf(RowsOf(A), s) /\ Near(s, RowsOf(A))
      BY <2>3, <2>11, StatIs
    <3>2. Q = RowsOf(A)
      BY <2>5, <2>6, <2>11
    <3> QED  BY <2>6, <2>9, <2>11, <3>1, <3>2
  <2>12. CASE A = {} /\ B # {}
    <3>1. PICK s : Stat(B) = StatOf(RowsOf(B), s) /\ Near(s, RowsOf(B))
      BY <2>4, <2>12, StatIs
    <3>2. Q = RowsOf(B)
      BY <2>5, <2>6, <2>12
    <3> QED  BY <2>6, <2>9, <2>12, <3>1, <3>2
  <2>13. CASE A = {} /\ B = {}
    BY <2>5, <2>6, <2>9, <2>13
  <2> QED  BY <2>10, <2>11, <2>12, <2>13
<1> QED  BY <1>1

LEMMA SameRequests ==
  ASSUME TablesInv, NEW c \in Columns, NEW id,
         NEW written, written = {row \in history.rows : row.requests \subseteq RowsOf(Stored)}
  PROVE  RowsOf(Having(written, c, id)) = RowsOf(Having(Stored, c, id))
<1>1. ASSUME NEW r \in RowsOf(Having(Stored, c, id))
      PROVE  r \in RowsOf(Having(written, c, id))
  <2>1. PICK row \in Stored : r \in row.requests /\ row[c] = id
    BY <1>1 DEF RowsOf, Having
  <2>2. PICK other \in history.rows :
           other.requests = {r} /\ \A col \in Columns : row[col] = other[col]
    BY <2>1, RowWasWritten
  <2>3. other \in Having(written, c, id)
    BY <2>1, <2>2 DEF Having, RowsOf
  <2> QED  BY <2>2, <2>3 DEF RowsOf
<1>2. ASSUME NEW r \in RowsOf(Having(written, c, id))
      PROVE  r \in RowsOf(Having(Stored, c, id))
  <2>1. PICK row \in written : r \in row.requests /\ row[c] = id
    BY <1>2 DEF RowsOf, Having
  <2>2. PICK mine \in Stored : r \in mine.requests
    BY <2>1 DEF RowsOf
  <2>3. PICK other \in history.rows :
           other.requests = {r} /\ \A col \in Columns : mine[col] = other[col]
    BY <2>2, RowWasWritten
  <2>4. other = row
    BY <2>1, <2>3 DEF TablesInv, WrittenOK, Disjoint
  <2>5. mine \in Having(Stored, c, id)
    BY <2>1, <2>2, <2>3, <2>4 DEF Having
  <2> QED  BY <2>2, <2>5 DEF RowsOf
<1> QED  BY <1>1, <1>2

(* Archived or not, the statistics by key, model and day are those of the  *)
(* rows as they were written, up to the rounding of the durations.         *)
THEOREM StatisticsAreTrueHolds == ArchiveSpec => []StatisticsAreTrue
<1>1. TablesInv => StatisticsAreTrue
  <2> SUFFICES ASSUME TablesInv, NEW c \in Columns,
                      NEW written, written = {row \in history.rows : row.requests \subseteq RowsOf(Stored)},
                      NEW merged, merged = MergeStatItems(StatItems(c, usage_log_daily),
                                                          StatItems(c, usage_log))
               PROVE  /\ DOMAIN merged = DOMAIN StatItems(c, written)
                      /\ \A id \in DOMAIN StatItems(c, written) :
                           Same(merged[id], StatItems(c, written)[id])
    BY DEF StatisticsAreTrue, Columns, Stored
  <2>1. Countable(written)
    <3>1. written \subseteq history.rows  OBVIOUS
    <3> QED  BY <3>1, CountableTables, SubsetsCountable
  <2>2. ASSUME NEW id, NEW some, some = Having(written, c, id), NEW Q, Q = RowsOf(some)
        PROVE  /\ id \in DOMAIN merged <=> id \in DOMAIN StatItems(c, written)
               /\ id \in DOMAIN merged => Same(merged[id], StatItems(c, written)[id])
    <3>1. Q = RowsOf(Having(Stored, c, id))
      BY <2>2, SameRequests
    <3>2. /\ id \in DOMAIN merged <=> Q # {}
          /\ Q # {} => \E spent : merged[id] = StatOf(Q, spent) /\ Near(spent, Q)
      BY <3>1, MergedItem
    <3>3. Countable(some)
      <4>1. some \subseteq written  BY <2>2 DEF Having
      <4> QED  BY <2>1, <4>1, SubsetsCountable
    <3>4. /\ id \in DOMAIN StatItems(c, written) <=> some # {}
          /\ some # {} => StatItems(c, written)[id] = Stat(some)
      BY ONLY <2>2, StatItemsAre
    <3>5. some = {} <=> Q = {}
      BY <2>2, <3>3, RowsNotEmpty
    <3>6. ASSUME some # {}
          PROVE  Same(merged[id], Stat(some))
      <4>1. \A row \in some : \E r : row.requests = {r}
        BY <2>2 DEF Having, TablesInv, WrittenOK
      <4>2. Stat(some) = StatOf(Q, TimeOf(Q))
        BY <2>2, <3>3, <3>6, <4>1, SingleRowsExact
      <4>3. PICK spent : merged[id] = StatOf(Q, spent) /\ Near(spent, Q)
        BY <3>2, <3>5, <3>6
      <4>4. Cardinality(Q) \in Nat /\ TimeOf(Q) \in Int
        <5>1. IsFiniteSet(Q) /\ Q \subseteq Request
          BY <2>2, <3>3, RequestsCounted
        <5>2. \A r \in Q : Durations[r] \in Int
          BY <5>1, UsageTypes
        <5> QED  BY <5>1, <5>2, FS_CardinalityType, SumType DEF TimeOf
      <4>5. 2 * (spent - TimeOf(Q)) \in -Cardinality(Q)..Cardinality(Q)
        BY <4>3, <4>4 DEF Near
      <4> QED  BY <4>2, <4>3, <4>5 DEF Same, StatOf
    <3> QED  BY <3>2, <3>4, <3>5, <3>6
  <2> QED  BY <2>2
<1> QED  BY <1>1, TablesInvariance, PTL
-----------------------------------------------------------------------------
(* The requests that the rows of a table count.                            *)
CountOf(rows) == Cardinality(RowsOf(rows))

LEMMA StatCounts ==
  ASSUME NEW rows, Countable(rows)
  PROVE  Stat(rows).requests = CountOf(rows) /\ CountOf(rows) \in Nat
<1>1. CountOf(rows) \in Nat
  BY RequestsCounted, FS_CardinalityType DEF CountOf
<1>2. CASE rows = {}
  BY <1>2, FS_EmptySet DEF Stat, NoRows, CountOf, RowsOf
<1>3. CASE rows # {}
  <2>1. PICK spent : Stat(rows) = StatOf(RowsOf(rows), spent)
    BY <1>3, StatIs
  <2> QED  BY <1>1, <2>1 DEF StatOf, CountOf
<1> QED  BY <1>1, <1>2, <1>3

LEMMA CountGrows ==
  ASSUME NEW rows, Countable(rows), NEW some, RowsOf(some) \subseteq RowsOf(rows)
  PROVE  CountOf(some) \in Nat /\ CountOf(some) <= CountOf(rows)
<1>1. IsFiniteSet(RowsOf(rows))
  BY RequestsCounted
<1>2. IsFiniteSet(RowsOf(some)) /\ CountOf(some) <= CountOf(rows)
  BY <1>1, FS_Subset DEF CountOf
<1> QED  BY <1>2, FS_CardinalityType DEF CountOf

LEMMA CountOfUnion ==
  ASSUME NEW rows, Countable(rows), NEW A, NEW B, rows = A \cup B, A \cap B = {}
  PROVE  /\ CountOf(rows) = CountOf(A) + CountOf(B)
         /\ CountOf(A) \in Nat /\ CountOf(B) \in Nat /\ CountOf(rows) \in Nat
<1>1. RowsOf(rows) = RowsOf(A) \cup RowsOf(B) /\ RowsOf(A) \cap RowsOf(B) = {}
  BY RowsOfUnion, RequestsApart
<1>2. Countable(A) /\ Countable(B)
  <2>1. A \subseteq rows /\ B \subseteq rows  OBVIOUS
  <2>2. Countable(A)  BY <2>1, SubsetsCountable
  <2>3. Countable(B)  BY <2>1, SubsetsCountable
  <2> QED  BY <2>2, <2>3
<1>3. IsFiniteSet(RowsOf(A)) /\ IsFiniteSet(RowsOf(B))
  BY <1>2, RequestsCounted
<1>4. Cardinality(RowsOf(A) \cup RowsOf(B)) = Cardinality(RowsOf(A)) + Cardinality(RowsOf(B))
                                              - Cardinality(RowsOf(A) \cap RowsOf(B))
  BY <1>3, FS_Union
<1>5. Cardinality(RowsOf(A) \cap RowsOf(B)) = 0
  BY <1>1, FS_EmptySet
<1>6. CountOf(A) \in Nat /\ CountOf(B) \in Nat /\ CountOf(rows) \in Nat
  BY <1>2, StatCounts
<1>7. CountOf(rows) = Cardinality(RowsOf(A) \cup RowsOf(B))
  BY <1>1 DEF CountOf
<1>8. CountOf(rows) = CountOf(A) + CountOf(B) - 0
  BY <1>4, <1>5, <1>7 DEF CountOf
<1> QED  BY <1>6, <1>8

(* Rows of one request each are as many as their requests.                 *)
LEMMA SinglesCount ==
  ASSUME NEW rows, Countable(rows), \A row \in rows : \E r \in Request : row.requests = {r}
  PROVE  CountOf(rows) = Cardinality(rows)
<1> DEFINE f == [row \in rows |-> Cardinality(row.requests)]
<1>1. \A row \in rows : f[row] = 1
  BY FS_Singleton
<1>2. SumFunction(f) = SumFunctionOnSet(f, rows) /\ SumFunction(f) = CountOf(rows)
  BY RequestsCounted DEF SumFunction, CountOf
<1>3. IsFiniteSet(rows)  BY DEF Countable
<1> HIDE DEF f
<1> QED  BY <1>1, <1>2, <1>3, SumOnes

(* The requests that some items count.                                     *)
CountItems(items) == SumFunction([id \in DOMAIN items |-> items[id].requests])

(* The items of a table count its requests.                                *)
LEMMA ItemsCount ==
  ASSUME NEW c, NEW rows, Countable(rows), NEW items, items = StatItems(c, rows)
  PROVE  /\ IsFiniteSet(DOMAIN items)
         /\ \A id \in DOMAIN items : items[id].requests = CountOf(Having(rows, c, id))
         /\ \A id \in DOMAIN items : items[id].requests \in Nat
         /\ CountItems(items) = CountOf(rows)
<1> DEFINE P == [id \in DOMAIN items |-> RowsOf(Having(rows, c, id))]
           g == [id \in DOMAIN items |-> items[id].requests]
           column == [row \in rows |-> row[c]]
<1>0. ASSUME NEW id PROVE Countable(Having(rows, c, id)) /\ Having(rows, c, id) \subseteq rows
  <2>1. Having(rows, c, id) \subseteq rows  BY DEF Having
  <2> QED  BY <2>1, SubsetsCountable
<1>1. IsFiniteSet(DOMAIN items)
  <2>1. IsFiniteSet({column[row] : row \in rows})
    <3> HIDE DEF column
    <3> QED  BY FiniteImage DEF Countable
  <2>2. DOMAIN items = {column[row] : row \in rows}
    BY DEF StatItems, DimensionId
  <2> QED  BY <2>1, <2>2
<1>2. ASSUME NEW id \in DOMAIN items
      PROVE  items[id].requests = CountOf(Having(rows, c, id)) /\ items[id].requests \in Nat
  <2>1. items[id] = Stat(Having(rows, c, id))
    BY StatItemsAre
  <2> QED  BY <1>0, <2>1, StatCounts
<1>3. PartsOf(RowsOf(rows), DOMAIN items, P)
  <2>1. RowsOf(rows) = UNION {P[id] : id \in DOMAIN items}
    <3>1. ASSUME NEW r \in RowsOf(rows) PROVE \E id \in DOMAIN items : r \in P[id]
      <4>1. PICK row \in rows : r \in row.requests
        BY DEF RowsOf
      <4>2. row \in Having(rows, c, row[c])
        BY DEF Having
      <4>3. row[c] \in DOMAIN items
        BY <4>2, StatItemsAre
      <4>4. r \in RowsOf(Having(rows, c, row[c]))
        BY <4>1, <4>2 DEF RowsOf
      <4> QED  BY <4>3, <4>4
    <3>2. ASSUME NEW id \in DOMAIN items, NEW r \in P[id] PROVE r \in RowsOf(rows)
      BY DEF RowsOf, Having
    <3> HIDE DEF P
    <3> QED  BY <3>1, <3>2
  <2>2. \A id \in DOMAIN items : IsFiniteSet(P[id])
    BY <1>0, RequestsCounted
  <2>3. ASSUME NEW id \in DOMAIN items, NEW other \in DOMAIN items, id # other
        PROVE  P[id] \cap P[other] = {}
    <3>1. Having(rows, c, id) \cap Having(rows, c, other) = {}
      BY <2>3 DEF Having
    <3>2. Having(rows, c, id) \cup Having(rows, c, other) \subseteq rows
      BY <1>0
    <3> QED  BY <3>1, <3>2, RequestsApart
  <2> QED  BY <1>1, <2>1, <2>2, <2>3 DEF PartsOf
<1>4. \A id \in DOMAIN items : g[id] = SumFunctionOnSet(Ones, P[id])
  <2> SUFFICES ASSUME NEW id \in DOMAIN items
               PROVE  items[id].requests = SumFunctionOnSet(Ones, RowsOf(Having(rows, c, id)))
    OBVIOUS
  <2>1. /\ IsFiniteSet(RowsOf(Having(rows, c, id)))
        /\ RowsOf(Having(rows, c, id)) \subseteq Request
    BY <1>0, RequestsCounted
  <2>2. \A r \in RowsOf(Having(rows, c, id)) : Ones[r] = 1
    BY <2>1, UsageTypes
  <2> QED  BY <1>2, <2>1, <2>2, SumOnes DEF CountOf
<1>5. /\ IsFiniteSet(RowsOf(rows)) /\ \A r \in RowsOf(rows) : Ones[r] = 1
  BY RequestsCounted, UsageTypes
<1>6. CountItems(items) = SumFunctionOnSet(g, DOMAIN items)
  BY DEF CountItems, SumFunction
<1> HIDE DEF P, g
<1>7. SumFunctionOnSet(g, DOMAIN items) = SumFunctionOnSet(Ones, RowsOf(rows))
  <2>1. \A r \in RowsOf(rows) : Ones[r] \in Int  BY <1>5
  <2> QED  BY <1>3, <1>4, <2>1, SumOfParts
<1>8. SumFunctionOnSet(Ones, RowsOf(rows)) = CountOf(rows)
  BY <1>5, SumOnes DEF CountOf
<1> QED  BY <1>1, <1>2, <1>6, <1>7, <1>8

(* Merged items count what both count.                                     *)
LEMMA MergedCount ==
  ASSUME NEW a, NEW b, IsFiniteSet(DOMAIN a), IsFiniteSet(DOMAIN b),
         \A id \in DOMAIN a : a[id].requests \in Nat,
         \A id \in DOMAIN b : b[id].requests \in Nat,
         NEW merged, merged = MergeStatItems(a, b)
  PROVE  /\ DOMAIN merged = DOMAIN a \cup DOMAIN b /\ IsFiniteSet(DOMAIN merged)
         /\ \A id \in DOMAIN a \cap DOMAIN b :
              merged[id].requests = a[id].requests + b[id].requests
         /\ \A id \in DOMAIN a \ DOMAIN b : merged[id].requests = a[id].requests
         /\ \A id \in DOMAIN b \ DOMAIN a : merged[id].requests = b[id].requests
         /\ \A id \in DOMAIN merged : merged[id].requests \in Nat
         /\ CountItems(merged) = CountItems(a) + CountItems(b)
         /\ CountItems(a) \in Int /\ CountItems(b) \in Int
<1> DEFINE f == [id \in DOMAIN a |-> a[id].requests]
           g == [id \in DOMAIN b |-> b[id].requests]
           h == [id \in DOMAIN merged |-> merged[id].requests]
           A == DOMAIN a
           B == DOMAIN b
<1>1. DOMAIN merged = A \cup B
  BY DEF MergeStatItems
<1>2. /\ \A id \in A \cap B : merged[id].requests = a[id].requests + b[id].requests
      /\ \A id \in A \ B : merged[id].requests = a[id].requests
      /\ \A id \in B \ A : merged[id].requests = b[id].requests
  BY DEF MergeStatItems, MergeTwo
<1>3. /\ \A id \in A : f[id] \in Int
      /\ \A id \in B : g[id] \in Int
      /\ \A id \in A \cap B : h[id] = f[id] + g[id]
      /\ \A id \in A \ B : h[id] = f[id]
      /\ \A id \in B \ A : h[id] = g[id]
  BY <1>1, <1>2
<1>4. /\ CountItems(a) = SumFunctionOnSet(f, A)
      /\ CountItems(b) = SumFunctionOnSet(g, B)
      /\ CountItems(merged) = SumFunctionOnSet(h, A \cup B)
  BY <1>1 DEF CountItems, SumFunction
<1>5. IsFiniteSet(A) /\ IsFiniteSet(B)
  OBVIOUS
<1>6. \A id \in DOMAIN merged : merged[id].requests \in Nat
  BY <1>1, <1>2
<1> HIDE DEF f, g, h, A, B
<1>7. SumFunctionOnSet(h, A \cup B) = SumFunctionOnSet(f, A) + SumFunctionOnSet(g, B)
  BY <1>3, <1>5, SumMerged
<1>8. SumFunctionOnSet(f, A) \in Int
  BY <1>3, <1>5, SumType
<1>9. SumFunctionOnSet(g, B) \in Int
  BY <1>3, <1>5, SumType
<1>10. IsFiniteSet(A \cup B)
  BY <1>5, FS_Union
<1> QED  BY <1>1, <1>2, <1>4, <1>6, <1>7, <1>8, <1>9, <1>10 DEF A, B

LEMMA MergedSum ==
  ASSUME NEW a, NEW b, IsFiniteSet(DOMAIN a), IsFiniteSet(DOMAIN b),
         \A id \in DOMAIN a : a[id].requests \in Nat,
         \A id \in DOMAIN b : b[id].requests \in Nat
  PROVE  /\ CountItems(MergeStatItems(a, b)) = CountItems(a) + CountItems(b)
         /\ CountItems(a) \in Int /\ CountItems(b) \in Int
<1>1. ASSUME NEW merged, merged = MergeStatItems(a, b)
      PROVE  /\ CountItems(merged) = CountItems(a) + CountItems(b)
             /\ CountItems(a) \in Int /\ CountItems(b) \in Int
  BY <1>1, MergedCount
<1> QED  BY <1>1
-----------------------------------------------------------------------------
(* What query_stats has read so far.                                       *)
Asked(ask, rows) == {row \in rows : InRange(row, ask.start, ask.end)}

QueryShape ==
  query.at # 0 =>
    /\ DOMAIN query = {"at", "ask", "ranges", "items", "totals", "stored", "archived", "reaches"}
    /\ query.ask \in Asks
    /\ query.at = 1 => query.items = <<>>
    /\ query.at <= 3 => query.totals = {}
    /\ IsFiniteSet(DOMAIN query.items)
    /\ \A id \in DOMAIN query.items : query.items[id].requests \in Nat
    /\ \A total \in query.totals : total.requests \in Nat

(* As far as it has read, a query has counted what the daily table holds   *)
(* at most; when it has read the other table, what has been written.       *)
ReadUpTo(at) == IF query.at <= at THEN usage_log_daily ELSE history.rows

CountedOnce ==
  query.at # 0 =>
    /\ query.ask.group_by # "credential" =>
         \A id \in DOMAIN query.items :
           query.items[id].requests <=
             CountOf(Having(Asked(query.ask, ReadUpTo(2)), query.ask.group_by, id))
    /\ \A total \in query.totals :
         total.requests <= CountOf(Asked(query.ask, ReadUpTo(4)))

(* Unless an archive has committed meanwhile: what has been read of the    *)
(* daily table is still there, and what is not read of it was not asked    *)
(* for.                                                                    *)
CountedAll ==
  (query.at # 0 /\ ~query.archived) =>
    /\ query.reaches => query.ranges.recent
    /\ ~query.ranges.historical => Asked(query.ask, usage_log_daily) = {}
    /\ query.stored \subseteq Stored
    /\ query.at = 2 => CountItems(query.items) = CountOf(Asked(query.ask, usage_log_daily))
    /\ query.at >= 3 /\ query.reaches =>
         /\ CountOf(Asked(query.ask, query.stored)) <= CountItems(query.items)
         /\ CountItems(query.items) <= CountOf(Asked(query.ask, Stored))
    /\ query.at = 4 =>
         /\ query.totals = {} => ~query.ranges.historical
         /\ \A total \in query.totals :
              total.requests = CountOf(Asked(query.ask, usage_log_daily))
    /\ query.at = 5 /\ query.reaches =>
         \A total \in query.totals : total.requests >= CountItems(query.items)

LEMMA AskedForIs ==
  ASSUME NEW rows
  PROVE  AskedFor(rows) = Asked(query.ask, rows) /\ Matching(rows) = Asked(query.ask, rows)
BY DEF AskedFor, Matching, Asked

(* What a step of a query is.                                              *)
LEMMA ReadItemsIs ==
  ASSUME QueryShape, ReadItems
  PROVE  /\ query.at \in {1, 2} /\ query'.at = query.at + 1
         /\ query'.items = MergeStatItems(query.items,
              StatItems(query.ask.group_by, Asked(query.ask, TableAt(query.at))))
         /\ DOMAIN query' = DOMAIN query
         /\ query'.ask = query.ask /\ query'.ranges = query.ranges
         /\ query'.totals = query.totals /\ query'.stored = query.stored
         /\ query'.archived = query.archived /\ query'.reaches = query.reaches
         /\ UNCHANGED <<usage_log, usage_log_daily, history>>
BY AskedForIs DEF QueryShape, ReadItems

LEMMA ReadTotalIs ==
  ASSUME QueryShape, ReadTotal,
         NEW read, read = Stat(Asked(query.ask, TableAt(query.at)))
  PROVE  /\ query.at \in {3, 4} /\ query'.at = query.at + 1
         /\ ~IsRead(query.at) => query'.totals = query.totals
         /\ IsRead(query.at) /\ query.totals = {} => query'.totals = {read}
         /\ IsRead(query.at) /\ query.totals # {} =>
              query'.totals = {MergeTwo(total, read) : total \in query.totals}
         /\ DOMAIN query' = DOMAIN query
         /\ query'.ask = query.ask /\ query'.ranges = query.ranges
         /\ query'.items = query.items /\ query'.stored = query.stored
         /\ query'.archived = query.archived /\ query'.reaches = query.reaches
         /\ UNCHANGED <<usage_log, usage_log_daily, history>>
<1>1. query.at \in {3, 4} /\ DOMAIN query = {"at", "ask", "ranges", "items", "totals",
                                             "stored", "archived", "reaches"}
  BY DEF QueryShape, ReadTotal
<1> DEFINE merged == {MergeTwo(total, read) : total \in query.totals}
           new == IF ~IsRead(query.at) THEN query.totals
                  ELSE IF query.totals = {} THEN {read} ELSE merged
<1>2. query' = [query EXCEPT !.at = @ + 1, !.totals = new]
  BY AskedForIs DEF ReadTotal
<1>3. UNCHANGED <<usage_log, usage_log_daily, history>>
  BY DEF ReadTotal
<1> HIDE DEF merged
<1>4. /\ ~IsRead(query.at) => new = query.totals
      /\ IsRead(query.at) /\ query.totals = {} => new = {read}
      /\ IsRead(query.at) /\ query.totals # {} => new = merged
  OBVIOUS
<1> HIDE DEF new
<1>5. /\ query'.at = query.at + 1 /\ query'.totals = new /\ DOMAIN query' = DOMAIN query
      /\ query'.ask = query.ask /\ query'.ranges = query.ranges
      /\ query'.items = query.items /\ query'.stored = query.stored
      /\ query'.archived = query.archived /\ query'.reaches = query.reaches
  BY <1>1, <1>2
<1> QED  BY <1>1, <1>3, <1>4, <1>5 DEF merged

(* Any step but those of a query leaves the query alone, but for a commit, *)
(* which is noted, and the end of the process.                             *)
LEMMA OtherSteps ==
  ASSUME TablesInv, QueryShape, [ArchiveNext]_archiveVars,
         ~ReadItems, ~ReadTotal, ~\E ask \in Asks : QueryBegin(ask)
  PROVE  \/ query' = NoQuery
         \/ /\ query' = query
            /\ \/ UNCHANGED <<usage_log, usage_log_daily, history.rows>>
               \/ /\ usage_log' = usage_log \cup {batch}
                  /\ history'.rows = history.rows \cup {batch}
                  /\ usage_log_daily' = usage_log_daily
               \/ query.at = 0
         \/ /\ query.at # 0 /\ query' = [query EXCEPT !.archived = TRUE]
            /\ usage_log_daily \subseteq usage_log_daily'
            /\ history'.rows = history.rows
<1>1. CASE ArchiveCommit
  BY <1>1 DEF ArchiveCommit, TablesInv, ArchiveInv, HistoryOK
<1>2. CASE BatchInsert
  BY <1>2 DEF BatchInsert, TablesInv, ArchiveInv, HistoryOK
<1>3. CASE Stop \/ Answer
  BY <1>3 DEF Stop, Answer
<1>4. CASE ~ArchiveCommit /\ ~BatchInsert /\ ~Stop /\ ~Answer
  <2>1. query' = query /\ UNCHANGED <<usage_log, usage_log_daily, history.rows>>
    BY <1>4 DEF ArchiveNext, archiveVars, TablesInv, ArchiveInv, HistoryOK, BatchBegin, BatchFail, Start,
       Attempt, ArchiveFail, FivePastMidnight, Midnight
  <2> QED  BY <2>1
<1> QED  BY <1>1, <1>2, <1>3, <1>4

LEMMA QueryBeginIs ==
  ASSUME NEW ask \in Asks, QueryBegin(ask)
  PROVE  /\ query' = [at |-> 1, ask |-> ask, ranges |-> DateRanges(ask.start, ask.end, day),
                      items |-> <<>>, totals |-> {},
                      stored |-> usage_log \cup usage_log_daily, archived |-> FALSE,
                      reaches |-> NotGiven \in {ask.start, ask.end} \/ ask.end >= Yesterday]
         /\ UNCHANGED <<usage_log, usage_log_daily, history>>
BY DEF QueryBegin

(* The rows a query asks for can be counted.                               *)
LEMMA CountableAsked ==
  ASSUME TablesInv, NEW ask, NEW rows,
         rows \subseteq Stored \/ rows \subseteq history.rows
  PROVE  Countable(Asked(ask, rows))
<1>1. Asked(ask, rows) \subseteq rows  BY DEF Asked
<1> QED  BY <1>1, CountableTables, SubsetsCountable

LEMMA TableAtIsStored ==
  ASSUME QueryShape
  PROVE  /\ TableAt(query.at) \subseteq Stored
         /\ query.at \in {1, 3} => TableAt(query.at) \subseteq usage_log_daily
         /\ query.at \in {2, 4} => TableAt(query.at) \subseteq usage_log
BY DEF TableAt, Stored

LEMMA QueryShapeStep ==
  ASSUME TablesInv, QueryShape, [ArchiveNext]_archiveVars
  PROVE  QueryShape'
<1>1. ASSUME NEW ask \in Asks, QueryBegin(ask) PROVE QueryShape'
  <2>1. query'.items = <<>> /\ DOMAIN query'.items = {} /\ IsFiniteSet({})
    BY <1>1, QueryBeginIs, FS_EmptySet
  <2> QED  BY <1>1, <2>1, QueryBeginIs DEF QueryShape
<1>2. CASE ReadItems
  <2> DEFINE rows == Asked(query.ask, TableAt(query.at))
             read == StatItems(query.ask.group_by, rows)
  <2>1. /\ query.at \in {1, 2} /\ query'.at = query.at + 1
        /\ query'.items = MergeStatItems(query.items, read)
        /\ DOMAIN query' = DOMAIN query /\ query'.ask = query.ask /\ query'.totals = query.totals
    BY <1>2, ReadItemsIs
  <2>2. Countable(rows)
    BY TableAtIsStored, CountableAsked
  <2>3. IsFiniteSet(DOMAIN read) /\ \A id \in DOMAIN read : read[id].requests \in Nat
    <3> HIDE DEF rows
    <3> QED  BY <2>2, ItemsCount
  <2> HIDE DEF read, rows
  <2>4. /\ IsFiniteSet(DOMAIN query.items)
        /\ \A id \in DOMAIN query.items : query.items[id].requests \in Nat
    BY <2>1 DEF QueryShape
  <2>5. /\ IsFiniteSet(DOMAIN query'.items)
        /\ \A id \in DOMAIN query'.items : query'.items[id].requests \in Nat
    <3>1. ASSUME NEW a, a = query.items, NEW merged, merged = MergeStatItems(a, read)
          PROVE  /\ IsFiniteSet(DOMAIN merged)
                 /\ \A id \in DOMAIN merged : merged[id].requests \in Nat
      BY <2>3, <2>4, <3>1, MergedCount
    <3> QED  BY <2>1, <3>1
  <2> QED  BY <2>1, <2>5 DEF QueryShape
<1>3. CASE ReadTotal
  <2> DEFINE rows == Asked(query.ask, TableAt(query.at))
  <2>1. Countable(rows)
    BY TableAtIsStored, CountableAsked
  <2>2. Stat(rows).requests \in Nat
    <3> HIDE DEF rows
    <3> QED  BY <2>1, StatCounts
  <2>3. /\ query.at \in {3, 4} /\ query'.at = query.at + 1
        /\ query'.totals \in {query.totals, {Stat(rows)},
                              {MergeTwo(total, Stat(rows)) : total \in query.totals}}
        /\ DOMAIN query' = DOMAIN query /\ query'.ask = query.ask /\ query'.items = query.items
    BY <1>3, ReadTotalIs
  <2>4. \A total \in query.totals : MergeTwo(total, Stat(rows)).requests \in Nat
    BY <2>2, <2>3 DEF MergeTwo, QueryShape
  <2> HIDE DEF rows
  <2>5. \A total \in query'.totals : total.requests \in Nat
    BY <2>2, <2>3, <2>4 DEF QueryShape
  <2> QED  BY <2>3, <2>5 DEF QueryShape
<1>4. CASE ~ReadItems /\ ~ReadTotal /\ ~\E ask \in Asks : QueryBegin(ask)
  <2>1. CASE query' = NoQuery
    BY <2>1 DEF NoQuery, QueryShape
  <2>2. CASE query' = query
    BY <2>2 DEF QueryShape
  <2>3. CASE query.at # 0 /\ query' = [query EXCEPT !.archived = TRUE]
    BY <2>3 DEF QueryShape
  <2> QED  BY <1>4, <2>1, <2>2, <2>3, OtherSteps
<1> QED  BY <1>1, <1>2, <1>3, <1>4
-----------------------------------------------------------------------------
LEMMA CountableNow == TablesInv => Countable(Stored) /\ Countable(history.rows)
BY CountableTables

LEMMA CountableNext == (TablesInv => Countable(Stored) /\ Countable(history.rows))'
BY CountableNow, PTL

LEMMA ColumnsAsked ==
  ASSUME QueryShape, query.at # 0, query.ask.group_by # "credential"
  PROVE  query.ask.group_by \in Columns
BY AsksAssumption DEF QueryShape, Columns

LEMMA AskedGrows ==
  ASSUME NEW some, NEW rows, some \subseteq rows, NEW ask, NEW c, NEW id
  PROVE  /\ RowsOf(Asked(ask, some)) \subseteq RowsOf(Asked(ask, rows))
         /\ RowsOf(Having(Asked(ask, some), c, id)) \subseteq RowsOf(Having(Asked(ask, rows), c, id))
BY DEF RowsOf, Asked, Having

LEMMA CountableParts ==
  ASSUME NEW rows, Countable(rows), NEW ask, NEW c, NEW id
  PROVE  Countable(Asked(ask, rows)) /\ Countable(Having(Asked(ask, rows), c, id))
<1>1. Asked(ask, rows) \subseteq rows /\ Having(Asked(ask, rows), c, id) \subseteq rows
  BY DEF Asked, Having
<1>2. Countable(Asked(ask, rows))  BY <1>1, SubsetsCountable
<1>3. Countable(Having(Asked(ask, rows), c, id))  BY <1>1, SubsetsCountable
<1> QED  BY <1>2, <1>3

LEMMA AskedCountGrows ==
  ASSUME NEW some, NEW rows, some \subseteq rows, Countable(rows), NEW ask, NEW c, NEW id
  PROVE  /\ CountOf(Asked(ask, some)) <= CountOf(Asked(ask, rows))
         /\ CountOf(Having(Asked(ask, some), c, id)) <= CountOf(Having(Asked(ask, rows), c, id))
         /\ CountOf(Asked(ask, some)) \in Nat /\ CountOf(Asked(ask, rows)) \in Nat
         /\ CountOf(Having(Asked(ask, some), c, id)) \in Nat
         /\ CountOf(Having(Asked(ask, rows), c, id)) \in Nat
<1>1. Countable(Asked(ask, rows)) /\ Countable(Having(Asked(ask, rows), c, id))
  BY CountableParts
<1>2. /\ RowsOf(Asked(ask, some)) \subseteq RowsOf(Asked(ask, rows))
      /\ RowsOf(Having(Asked(ask, some), c, id)) \subseteq RowsOf(Having(Asked(ask, rows), c, id))
  BY AskedGrows
<1>3. CountOf(Asked(ask, some)) \in Nat /\ CountOf(Asked(ask, some)) <= CountOf(Asked(ask, rows))
  BY <1>1, <1>2, CountGrows
<1>4. /\ CountOf(Having(Asked(ask, some), c, id)) \in Nat
      /\ CountOf(Having(Asked(ask, some), c, id)) <= CountOf(Having(Asked(ask, rows), c, id))
  BY <1>1, <1>2, CountGrows
<1>5. CountOf(Asked(ask, rows)) \in Nat
  BY <1>1, StatCounts
<1>6. CountOf(Having(Asked(ask, rows), c, id)) \in Nat
  BY <1>1, StatCounts
<1> QED  BY <1>3, <1>4, <1>5, <1>6

(* What the tables hold was written with the same columns.                 *)
LEMMA StoredWasWritten ==
  ASSUME TablesInv, NEW ask, NEW c \in Columns, NEW id
  PROVE  /\ CountOf(Asked(ask, Stored)) <= CountOf(Asked(ask, history.rows))
         /\ CountOf(Having(Asked(ask, Stored), c, id)) <= CountOf(Having(Asked(ask, history.rows), c, id))
<1>1. ASSUME NEW row \in Asked(ask, Stored), NEW r \in row.requests
      PROVE  \E other \in Asked(ask, history.rows) : r \in other.requests /\ row[c] = other[c]
  <2>1. row \in Stored /\ InRange(row, ask.start, ask.end)
    BY DEF Asked
  <2>2. PICK other \in history.rows :
           other.requests = {r} /\ \A col \in Columns : row[col] = other[col]
    BY <2>1, RowWasWritten
  <2>3. row.day = other.day
    BY <2>2 DEF Columns
  <2>4. InRange(other, ask.start, ask.end)
    BY <2>1, <2>3 DEF InRange
  <2> QED  BY <2>2, <2>4 DEF Asked
<1>2. RowsOf(Asked(ask, Stored)) \subseteq RowsOf(Asked(ask, history.rows))
  BY <1>1 DEF RowsOf
<1>3. RowsOf(Having(Asked(ask, Stored), c, id)) \subseteq RowsOf(Having(Asked(ask, history.rows), c, id))
  BY <1>1 DEF RowsOf, Having
<1>4. Countable(history.rows)
  BY CountableTables
<1>5. Countable(Asked(ask, history.rows)) /\ Countable(Having(Asked(ask, history.rows), c, id))
  BY <1>4, CountableParts
<1>6. CountOf(Asked(ask, Stored)) <= CountOf(Asked(ask, history.rows))
  BY <1>2, <1>5, CountGrows
<1>7. CountOf(Having(Asked(ask, Stored), c, id)) <= CountOf(Having(Asked(ask, history.rows), c, id))
  BY <1>3, <1>5, CountGrows
<1> QED  BY <1>6, <1>7

LEMMA TablesAddUp ==
  ASSUME TablesInv, NEW ask, NEW c, NEW id
  PROVE  /\ CountOf(Asked(ask, Stored)) =
              CountOf(Asked(ask, usage_log_daily)) + CountOf(Asked(ask, usage_log))
         /\ CountOf(Having(Asked(ask, Stored), c, id)) =
              CountOf(Having(Asked(ask, usage_log_daily), c, id))
              + CountOf(Having(Asked(ask, usage_log), c, id))
<1>1. Countable(Stored)
  BY CountableTables
<1>2. Countable(Asked(ask, Stored)) /\ Countable(Having(Asked(ask, Stored), c, id))
  BY <1>1, CountableParts
<1>3. usage_log \cap usage_log_daily = {}
  BY DEF TablesInv, TablesOK
<1>4. /\ Asked(ask, Stored) = Asked(ask, usage_log_daily) \cup Asked(ask, usage_log)
      /\ Asked(ask, usage_log_daily) \cap Asked(ask, usage_log) = {}
  BY <1>3 DEF Asked, Stored
<1>5. /\ Having(Asked(ask, Stored), c, id) =
           Having(Asked(ask, usage_log_daily), c, id) \cup Having(Asked(ask, usage_log), c, id)
      /\ Having(Asked(ask, usage_log_daily), c, id) \cap Having(Asked(ask, usage_log), c, id) = {}
  BY <1>4 DEF Having
<1>6. CountOf(Asked(ask, Stored)) =
        CountOf(Asked(ask, usage_log_daily)) + CountOf(Asked(ask, usage_log))
  BY <1>2, <1>4, CountOfUnion
<1>7. CountOf(Having(Asked(ask, Stored), c, id)) =
        CountOf(Having(Asked(ask, usage_log_daily), c, id))
        + CountOf(Having(Asked(ask, usage_log), c, id))
  BY <1>2, <1>5, CountOfUnion
<1> QED  BY <1>6, <1>7

(* As long as a query only waits, what it may have counted only grows.     *)
LEMMA WaitingKeepsCountedOnce ==
  ASSUME TablesInv', QueryShape, CountedOnce, query.at # 0,
         query'.at = query.at, query'.ask = query.ask, query'.items = query.items,
         query'.totals = query.totals,
         usage_log_daily \subseteq usage_log_daily', history.rows \subseteq history'.rows
  PROVE  CountedOnce'
<1> DEFINE g == query.ask.group_by
<1>1. /\ Countable(usage_log_daily') /\ Countable(history'.rows)
  <2>1. Countable(Stored') /\ Countable(history'.rows) /\ usage_log_daily' \subseteq Stored'
    BY CountableNext DEF Stored
  <2> QED  BY <2>1, SubsetsCountable
<1>2. ASSUME NEW at PROVE ReadUpTo(at) \subseteq ReadUpTo(at)' /\ Countable(ReadUpTo(at)')
  BY <1>1 DEF ReadUpTo
<1>3. ASSUME g # "credential", NEW id \in DOMAIN query.items
      PROVE  query.items[id].requests <= CountOf(Having(Asked(query.ask, ReadUpTo(2)'), g, id))
  <2>1. query.items[id].requests <= CountOf(Having(Asked(query.ask, ReadUpTo(2)), g, id))
    BY <1>3 DEF CountedOnce
  <2>2. query.items[id].requests \in Nat
    BY <1>3 DEF QueryShape
  <2>3. /\ CountOf(Having(Asked(query.ask, ReadUpTo(2)), g, id)) <=
             CountOf(Having(Asked(query.ask, ReadUpTo(2)'), g, id))
        /\ CountOf(Having(Asked(query.ask, ReadUpTo(2)), g, id)) \in Nat
        /\ CountOf(Having(Asked(query.ask, ReadUpTo(2)'), g, id)) \in Nat
    BY <1>2, AskedCountGrows
  <2> QED  BY <2>1, <2>2, <2>3
<1>4. ASSUME NEW total \in query.totals
      PROVE  total.requests <= CountOf(Asked(query.ask, ReadUpTo(4)'))
  <2>1. total.requests <= CountOf(Asked(query.ask, ReadUpTo(4)))
    BY <1>4 DEF CountedOnce
  <2>2. total.requests \in Nat
    BY <1>4 DEF QueryShape
  <2>3. /\ CountOf(Asked(query.ask, ReadUpTo(4))) <= CountOf(Asked(query.ask, ReadUpTo(4)'))
        /\ CountOf(Asked(query.ask, ReadUpTo(4))) \in Nat
        /\ CountOf(Asked(query.ask, ReadUpTo(4)')) \in Nat
    BY <1>2, AskedCountGrows
  <2> QED  BY <2>1, <2>2, <2>3
<1> QED  BY <1>3, <1>4 DEF CountedOnce

(* What a query reads of a table for an item and for the total.            *)
LEMMA ReadIsCounted ==
  ASSUME TablesInv, QueryShape, NEW ask, NEW c, NEW id,
         NEW rows, rows = Asked(ask, TableAt(query.at)),
         NEW table, TableAt(query.at) \subseteq table, table \subseteq Stored
  PROVE  /\ Stat(rows).requests <= CountOf(Asked(ask, table))
         /\ CountOf(Having(rows, c, id)) <= CountOf(Having(Asked(ask, table), c, id))
         /\ Stat(rows).requests \in Nat /\ CountOf(Asked(ask, table)) \in Nat
         /\ CountOf(Having(rows, c, id)) \in Nat
         /\ CountOf(Having(Asked(ask, table), c, id)) \in Nat
         /\ Countable(rows)
<1>1. Countable(table) /\ Countable(rows)
  <2>1. Countable(table)  BY CountableTables, SubsetsCountable
  <2>2. Countable(rows)  BY TableAtIsStored, CountableAsked
  <2> QED  BY <2>1, <2>2
<1>2. /\ CountOf(rows) <= CountOf(Asked(ask, table))
      /\ CountOf(Having(rows, c, id)) <= CountOf(Having(Asked(ask, table), c, id))
      /\ CountOf(rows) \in Nat /\ CountOf(Asked(ask, table)) \in Nat
      /\ CountOf(Having(rows, c, id)) \in Nat
      /\ CountOf(Having(Asked(ask, table), c, id)) \in Nat
  BY <1>1, AskedCountGrows
<1>3. Stat(rows).requests = CountOf(rows)
  BY <1>1, StatCounts
<1> QED  BY <1>1, <1>2, <1>3

LEMMA ReadItemsCountOnce ==
  ASSUME TablesInv, QueryShape, CountedOnce, ReadItems
  PROVE  CountedOnce'
<1>1. /\ query.at \in {1, 2} /\ query'.at = query.at + 1
      /\ query'.ask = query.ask /\ query'.totals = query.totals
      /\ UNCHANGED <<usage_log, usage_log_daily, history>>
      /\ query.totals = {}
  BY ReadItemsIs DEF QueryShape
<1>2. ASSUME NEW ask, ask = query.ask, NEW g, g = ask.group_by, NEW items, items = query.items,
             NEW rows, rows = Asked(ask, TableAt(query.at)), NEW read, read = StatItems(g, rows),
             NEW merged, merged = MergeStatItems(items, read),
             g # "credential", NEW id \in DOMAIN merged
      PROVE  merged[id].requests <= CountOf(Having(Asked(ask, ReadUpTo(2)'), g, id))
  <2>1. Countable(rows)
    BY <1>2, TableAtIsStored, CountableAsked
  <2>2. /\ IsFiniteSet(DOMAIN read)
        /\ \A i \in DOMAIN read : read[i].requests = CountOf(Having(rows, g, i))
        /\ \A i \in DOMAIN read : read[i].requests \in Nat
    BY <1>2, <2>1, ItemsCount
  <2>3. /\ IsFiniteSet(DOMAIN items)
        /\ \A i \in DOMAIN items : items[i].requests \in Nat
    BY <1>1, <1>2 DEF QueryShape
  <2>4. /\ DOMAIN merged = DOMAIN items \cup DOMAIN read
        /\ \A i \in DOMAIN items \cap DOMAIN read :
             merged[i].requests = items[i].requests + read[i].requests
        /\ \A i \in DOMAIN items \ DOMAIN read : merged[i].requests = items[i].requests
        /\ \A i \in DOMAIN read \ DOMAIN items : merged[i].requests = read[i].requests
    BY <1>2 DEF MergeStatItems, MergeTwo
  <2>5. CASE query.at = 1
    <3>1. items = <<>> /\ DOMAIN items = {}
      BY <1>2, <2>5 DEF QueryShape
    <3>2. merged[id].requests = CountOf(Having(rows, g, id))
      BY <1>2, <2>2, <2>4, <3>1
    <3>3. TableAt(query.at) \subseteq usage_log_daily /\ usage_log_daily \subseteq Stored
      BY <2>5, TableAtIsStored DEF Stored
    <3>4. CountOf(Having(rows, g, id)) <= CountOf(Having(Asked(ask, usage_log_daily), g, id))
      BY <1>2, <3>3, ReadIsCounted
    <3>5. ReadUpTo(2)' = usage_log_daily
      BY <1>1, <2>5 DEF ReadUpTo
    <3> QED  BY <3>2, <3>4, <3>5
  <2>6. CASE query.at = 2
    <3> DEFINE x == CountOf(Having(Asked(ask, usage_log_daily), g, id))
               y == CountOf(Having(Asked(ask, usage_log), g, id))
               all == CountOf(Having(Asked(ask, history.rows), g, id))
    <3>1. ReadUpTo(2) = usage_log_daily /\ ReadUpTo(2)' = history.rows
      BY <1>1, <2>6 DEF ReadUpTo
    <3>2. id \in DOMAIN items => items[id].requests <= x
      BY <1>2, <2>6, <3>1 DEF CountedOnce
    <3>3. TableAt(query.at) \subseteq usage_log /\ usage_log \subseteq Stored
      BY <2>6, TableAtIsStored DEF Stored
    <3>4. CountOf(Having(rows, g, id)) <= y /\ y \in Nat
      BY <1>2, <3>3, ReadIsCounted
    <3>5. x \in Nat
      <4>1. Countable(usage_log_daily)
        BY CountableTables, SubsetsCountable DEF Stored
      <4> QED  BY <4>1, AskedCountGrows
    <3>6. x + y <= all /\ all \in Nat
      <4>1. g \in Columns
        BY <1>1, <1>2, ColumnsAsked
      <4>2. CountOf(Having(Asked(ask, Stored), g, id)) <= all
        BY <4>1, StoredWasWritten
      <4>3. CountOf(Having(Asked(ask, Stored), g, id)) = x + y
        BY TablesAddUp
      <4>4. Countable(history.rows)
        BY CountableTables
      <4>5. all \in Nat
        BY <4>4, AskedCountGrows
      <4> QED  BY <4>2, <4>3, <4>5
    <3> HIDE DEF x, y, all
    <3>7. merged[id].requests <= all
      <4>1. CASE id \in DOMAIN items /\ id \in DOMAIN read
        BY <2>2, <2>3, <2>4, <3>2, <3>4, <3>5, <3>6, <4>1
      <4>2. CASE id \in DOMAIN items /\ id \notin DOMAIN read
        BY <2>3, <2>4, <3>2, <3>4, <3>5, <3>6, <4>2
      <4>3. CASE id \notin DOMAIN items /\ id \in DOMAIN read
        BY <2>2, <2>4, <3>4, <3>5, <3>6, <4>3
      <4> QED  BY <1>2, <2>4, <4>1, <4>2, <4>3
    <3> QED  BY <3>1, <3>7 DEF all
  <2> QED  BY <1>1, <2>5, <2>6
<1>3. query'.items = MergeStatItems(query.items,
        StatItems(query.ask.group_by, Asked(query.ask, TableAt(query.at))))
  BY ReadItemsIs
<1>4. query.ask.group_by # "credential" =>
        \A id \in DOMAIN query'.items :
          query'.items[id].requests <=
            CountOf(Having(Asked(query.ask, ReadUpTo(2)'), query.ask.group_by, id))
  BY <1>2, <1>3
<1> QED  BY <1>1, <1>4 DEF CountedOnce

LEMMA ReadTotalCountsOnce ==
  ASSUME TablesInv, QueryShape, CountedOnce, ReadTotal
  PROVE  CountedOnce'
<1> DEFINE ask == query.ask
           rows == Asked(query.ask, TableAt(query.at))
           read == Stat(rows)
<1>1. /\ query.at \in {3, 4} /\ query'.at = query.at + 1
      /\ ~IsRead(query.at) => query'.totals = query.totals
      /\ IsRead(query.at) /\ query.totals = {} => query'.totals = {read}
      /\ IsRead(query.at) /\ query.totals # {} =>
           query'.totals = {MergeTwo(total, read) : total \in query.totals}
      /\ query'.ask = query.ask /\ query'.items = query.items
      /\ UNCHANGED <<usage_log, usage_log_daily, history>>
  BY ReadTotalIs
<1>2. ReadUpTo(2)' = history.rows /\ ReadUpTo(2) = history.rows
  BY <1>1 DEF ReadUpTo
<1>3. ASSUME NEW total \in query'.totals
      PROVE  total.requests <= CountOf(Asked(ask, ReadUpTo(4)'))
  <2>1. CASE query.at = 3
    <3>1. query.totals = {} /\ total = read
      BY <1>1, <1>3, <2>1 DEF QueryShape
    <3>2. TableAt(query.at) \subseteq usage_log_daily /\ usage_log_daily \subseteq Stored
      BY <2>1, TableAtIsStored DEF Stored
    <3>3. read.requests <= CountOf(Asked(ask, usage_log_daily))
      BY <3>2, ReadIsCounted
    <3>4. ReadUpTo(4)' = usage_log_daily
      BY <1>1, <2>1 DEF ReadUpTo
    <3> QED  BY <3>1, <3>3, <3>4
  <2>2. CASE query.at = 4
    <3> DEFINE x == CountOf(Asked(ask, usage_log_daily))
               y == CountOf(Asked(ask, usage_log))
               all == CountOf(Asked(ask, history.rows))
    <3>1. ReadUpTo(4) = usage_log_daily /\ ReadUpTo(4)' = history.rows
      BY <1>1, <2>2 DEF ReadUpTo
    <3>2. \A old \in query.totals : old.requests <= x /\ old.requests \in Nat
      BY <2>2, <3>1 DEF CountedOnce, QueryShape
    <3>3. TableAt(query.at) \subseteq usage_log /\ usage_log \subseteq Stored
      BY <2>2, TableAtIsStored DEF Stored
    <3>4. read.requests <= y /\ y \in Nat /\ read.requests \in Nat
      BY <3>3, ReadIsCounted
    <3>5. x \in Nat
      <4>1. Countable(usage_log_daily)
        BY CountableTables, SubsetsCountable DEF Stored
      <4> QED  BY <4>1, AskedCountGrows
    <3>6. x + y <= all /\ all \in Nat
      <4>1. "day" \in Columns
        BY DEF Columns
      <4>2. CountOf(Asked(ask, Stored)) <= all
        BY <4>1, StoredWasWritten
      <4>3. CountOf(Asked(ask, Stored)) = x + y
        BY TablesAddUp
      <4>4. Countable(history.rows)
        BY CountableTables
      <4>5. all \in Nat
        BY <4>4, AskedCountGrows
      <4> QED  BY <4>2, <4>3, <4>5
    <3>7. /\ total \in query.totals
          \/ total = read
          \/ \E old \in query.totals : total = MergeTwo(old, read)
      BY <1>1, <1>3
    <3>8. \A old : MergeTwo(old, read).requests = old.requests + read.requests
      BY DEF MergeTwo
    <3> HIDE DEF x, y, all, read, rows
    <3>9. total.requests <= all
      BY <3>2, <3>4, <3>5, <3>6, <3>7, <3>8
    <3> QED  BY <3>1, <3>9 DEF all
  <2> QED  BY <1>1, <2>1, <2>2
<1>4. ask.group_by # "credential" =>
        \A id \in DOMAIN query'.items :
          query'.items[id].requests <= CountOf(Having(Asked(ask, ReadUpTo(2)'), ask.group_by, id))
  BY <1>1, <1>2 DEF CountedOnce
<1> HIDE DEF rows, read
<1> QED  BY <1>1, <1>3, <1>4 DEF CountedOnce

LEMMA CountedOnceStep ==
  ASSUME TablesInv, TablesInv', QueryShape, CountedOnce, [ArchiveNext]_archiveVars
  PROVE  CountedOnce'
<1>1. ASSUME NEW ask \in Asks, QueryBegin(ask) PROVE CountedOnce'
  <2>1. query'.items = <<>> /\ DOMAIN query'.items = {} /\ query'.totals = {}
    BY <1>1, QueryBeginIs
  <2> QED  BY <2>1 DEF CountedOnce
<1>2. CASE ReadItems  BY <1>2, ReadItemsCountOnce
<1>3. CASE ReadTotal  BY <1>3, ReadTotalCountsOnce
<1>4. CASE ~ReadItems /\ ~ReadTotal /\ ~\E ask \in Asks : QueryBegin(ask)
  <2>1. CASE query' = NoQuery
    BY <2>1 DEF NoQuery, CountedOnce
  <2>2. CASE query' = query /\ query.at = 0
    BY <2>2 DEF CountedOnce
  <2>3. CASE /\ query' = query /\ query.at # 0
             /\ usage_log_daily \subseteq usage_log_daily' /\ history.rows \subseteq history'.rows
    BY <2>3, WaitingKeepsCountedOnce
  <2>4. CASE /\ query.at # 0 /\ query' = [query EXCEPT !.archived = TRUE]
             /\ usage_log_daily \subseteq usage_log_daily' /\ history.rows \subseteq history'.rows
    <3>1. /\ query'.at = query.at /\ query'.ask = query.ask /\ query'.items = query.items
          /\ query'.totals = query.totals
      BY <2>4
    <3> QED  BY <2>4, <3>1, WaitingKeepsCountedOnce
  <2>5. \/ query' = NoQuery
        \/ query' = query /\ query.at = 0
        \/ /\ query' = query
           /\ usage_log_daily \subseteq usage_log_daily' /\ history.rows \subseteq history'.rows
        \/ /\ query.at # 0 /\ query' = [query EXCEPT !.archived = TRUE]
           /\ usage_log_daily \subseteq usage_log_daily' /\ history.rows \subseteq history'.rows
    BY <1>4, OtherSteps
  <2> QED  BY <2>1, <2>2, <2>3, <2>4, <2>5
<1> QED  BY <1>1, <1>2, <1>3, <1>4

QueryInv == TablesInv /\ QueryShape /\ CountedOnce

LEMMA QueryInvariance == ArchiveSpec => []QueryInv
<1>1. ArchiveInit => QueryInv
  BY ArchiveInitInv, TablesInit DEF QueryInv, TablesInv, QueryShape, CountedOnce, ArchiveInit, NoQuery
<1>2. QueryInv /\ [ArchiveNext]_archiveVars => QueryInv'
  <2> SUFFICES ASSUME QueryInv, [ArchiveNext]_archiveVars PROVE QueryInv'
    OBVIOUS
  <2>1. TablesInv'
    BY ArchiveStep, WrittenStep, TablesStep DEF TablesInv, QueryInv
  <2> QED  BY <2>1, QueryShapeStep, CountedOnceStep DEF QueryInv
<1> QED  BY <1>1, <1>2, PTL DEF ArchiveSpec

(* Whatever is archived between the four reads of a query, it counts no    *)
(* request twice.                                                          *)
THEOREM NothingCountedTwiceHolds == ArchiveSpec => []NothingCountedTwice
<1>1. QueryInv => NothingCountedTwice
  <2> SUFFICES ASSUME QueryInv, query.at # 0, NEW ask, ask = query.ask
               PROVE  /\ ask.group_by # "credential" =>
                           \A id \in DOMAIN query.items :
                             query.items[id].requests <=
                               Cardinality(Having(Asked(ask, history.rows), ask.group_by, id))
                      /\ \A total \in query.totals :
                           total.requests <= Cardinality(Asked(ask, history.rows))
    BY DEF NothingCountedTwice, AskedFor, Asked, Having
  <2>1. TablesInv /\ QueryShape /\ CountedOnce
    BY DEF QueryInv
  <2>2. Countable(Stored) /\ Countable(history.rows) /\ usage_log_daily \subseteq Stored
    BY <2>1, CountableTables DEF Stored
  <2>3. ASSUME NEW at, NEW c \in Columns, NEW id
        PROVE  /\ CountOf(Asked(ask, ReadUpTo(at))) <= CountOf(Asked(ask, history.rows))
               /\ CountOf(Having(Asked(ask, ReadUpTo(at)), c, id)) <=
                    CountOf(Having(Asked(ask, history.rows), c, id))
               /\ CountOf(Asked(ask, ReadUpTo(at))) \in Nat
               /\ CountOf(Having(Asked(ask, ReadUpTo(at)), c, id)) \in Nat
               /\ CountOf(Asked(ask, history.rows)) \in Nat
               /\ CountOf(Having(Asked(ask, history.rows), c, id)) \in Nat
    <3>1. /\ CountOf(Asked(ask, history.rows)) \in Nat
          /\ CountOf(Having(Asked(ask, history.rows), c, id)) \in Nat
      BY <2>2, AskedCountGrows
    <3>2. /\ CountOf(Asked(ask, usage_log_daily)) <= CountOf(Asked(ask, Stored))
          /\ CountOf(Having(Asked(ask, usage_log_daily), c, id)) <=
               CountOf(Having(Asked(ask, Stored), c, id))
          /\ CountOf(Asked(ask, usage_log_daily)) \in Nat
          /\ CountOf(Having(Asked(ask, usage_log_daily), c, id)) \in Nat
          /\ CountOf(Asked(ask, Stored)) \in Nat
          /\ CountOf(Having(Asked(ask, Stored), c, id)) \in Nat
      BY <2>2, AskedCountGrows
    <3>3. /\ CountOf(Asked(ask, Stored)) <= CountOf(Asked(ask, history.rows))
          /\ CountOf(Having(Asked(ask, Stored), c, id)) <=
               CountOf(Having(Asked(ask, history.rows), c, id))
      BY <2>1, <2>3, StoredWasWritten
    <3> QED  BY <3>1, <3>2, <3>3 DEF ReadUpTo
  <2>4. ASSUME NEW rows, rows \subseteq history.rows PROVE CountOf(rows) = Cardinality(rows)
    <3>1. Countable(rows)  BY <2>2, <2>4, SubsetsCountable
    <3>2. \A row \in rows : \E r \in Request : row.requests = {r}
      BY <2>1, <2>4 DEF TablesInv, WrittenOK
    <3> QED  BY <3>1, <3>2, SinglesCount
  <2>5. ASSUME ask.group_by # "credential", NEW id \in DOMAIN query.items
        PROVE  query.items[id].requests <=
                 Cardinality(Having(Asked(ask, history.rows), ask.group_by, id))
    <3>1. ask.group_by \in Columns
      BY <2>1, <2>5, ColumnsAsked
    <3>2. query.items[id].requests <=
            CountOf(Having(Asked(ask, ReadUpTo(2)), ask.group_by, id))
      BY <2>1, <2>5 DEF CountedOnce
    <3>3. query.items[id].requests \in Nat
      BY <2>1, <2>5 DEF QueryShape
    <3>4. Having(Asked(ask, history.rows), ask.group_by, id) \subseteq history.rows
      BY DEF Having, Asked
    <3>5. /\ CountOf(Having(Asked(ask, ReadUpTo(2)), ask.group_by, id)) <=
               CountOf(Having(Asked(ask, history.rows), ask.group_by, id))
          /\ CountOf(Having(Asked(ask, ReadUpTo(2)), ask.group_by, id)) \in Nat
          /\ CountOf(Having(Asked(ask, history.rows), ask.group_by, id)) \in Nat
      BY <2>3, <3>1
    <3>6. CountOf(Having(Asked(ask, history.rows), ask.group_by, id)) =
            Cardinality(Having(Asked(ask, history.rows), ask.group_by, id))
      BY <2>4, <3>4
    <3> QED  BY <3>2, <3>3, <3>5, <3>6
  <2>6. ASSUME NEW total \in query.totals
        PROVE  total.requests <= Cardinality(Asked(ask, history.rows))
    <3>1. total.requests <= CountOf(Asked(ask, ReadUpTo(4))) /\ total.requests \in Nat
      BY <2>1, <2>6 DEF CountedOnce, QueryShape
    <3>2. Asked(ask, history.rows) \subseteq history.rows
      BY DEF Asked
    <3>3. "day" \in Columns  BY DEF Columns
    <3>4. /\ CountOf(Asked(ask, ReadUpTo(4))) <= CountOf(Asked(ask, history.rows))
          /\ CountOf(Asked(ask, ReadUpTo(4))) \in Nat
          /\ CountOf(Asked(ask, history.rows)) \in Nat
      BY <2>3, <3>3
    <3>5. CountOf(Asked(ask, history.rows)) = Cardinality(Asked(ask, history.rows))
      BY <2>4, <3>2
    <3> QED  BY <3>1, <3>4, <3>5
  <2> QED  BY <2>5, <2>6
<1> QED  BY <1>1, QueryInvariance, PTL
-----------------------------------------------------------------------------
LEMMA ItemsSumType ==
  ASSUME NEW items, IsFiniteSet(DOMAIN items),
         \A id \in DOMAIN items : items[id].requests \in Nat
  PROVE  CountItems(items) \in Int
<1> DEFINE f == [id \in DOMAIN items |-> items[id].requests]
<1>1. CountItems(items) = SumFunctionOnSet(f, DOMAIN items) /\ \A id \in DOMAIN items : f[id] \in Int
  BY DEF CountItems, SumFunction
<1> HIDE DEF f
<1> QED  BY <1>1, SumType

LEMMA NothingCounted == CountItems(<<>>) = 0
<1>1. ASSUME NEW items, items = <<>> PROVE CountItems(items) = 0
  <2> DEFINE f == [id \in DOMAIN items |-> items[id].requests]
  <2>1. DOMAIN items = {} /\ DOMAIN f = {}
    BY <1>1
  <2>2. CountItems(items) = SumFunctionOnSet(f, DOMAIN f)
    BY DEF CountItems, SumFunction
  <2> HIDE DEF f
  <2> QED  BY <2>1, <2>2, SumEmpty
<1> QED  BY <1>1

(* A row of the daily table is over, so a range that begins today has none.*)
LEMMA DailyIsHistorical ==
  ASSUME TablesInv, NEW ask \in Asks,
         ~(ask.start = NotGiven \/ ask.end = NotGiven \/ ask.start < day)
  PROVE  Asked(ask, usage_log_daily) = {}
<1> SUFFICES ASSUME NEW row \in usage_log_daily, InRange(row, ask.start, ask.end) PROVE FALSE
  BY DEF Asked
<1>1. row.day \in Nat /\ day \in Nat /\ row.day < day
  BY DEF TablesInv, ArchiveInv, ArchivedIsOver, RowsOK, Stored, IsRow, ClockOK, Days
<1>2. ask.start \in Nat
  BY AsksAssumption
<1>3. row.day >= ask.start
  BY DEF InRange
<1> QED  BY <1>1, <1>2, <1>3

LEMMA QueryBeginCountsAll ==
  ASSUME TablesInv, NEW ask \in Asks, QueryBegin(ask)
  PROVE  CountedAll'
<1>1. /\ query'.at = 1 /\ query'.ask = ask
      /\ query'.ranges = DateRanges(ask.start, ask.end, day)
      /\ query'.stored = Stored /\ Stored' = Stored
      /\ query'.reaches = (NotGiven \in {ask.start, ask.end} \/ ask.end >= Yesterday)
      /\ usage_log_daily' = usage_log_daily
  BY QueryBeginIs DEF Stored
<1>2. query'.reaches => query'.ranges.recent
  BY <1>1 DEF DateRanges, Yesterday
<1>3. ~query'.ranges.historical => Asked(ask, usage_log_daily) = {}
  <2>1. query'.ranges.historical = (ask.start = NotGiven \/ ask.end = NotGiven \/ ask.start < day)
    BY <1>1 DEF DateRanges
  <2> QED  BY <2>1, DailyIsHistorical
<1> QED  BY <1>1, <1>2, <1>3 DEF CountedAll

(* What is not read of the daily table was not asked for; the other one is *)
(* read in a range that reaches yesterday.                                 *)
LEMMA ReadIsAll ==
  ASSUME TablesInv, QueryShape, CountedAll, query.at # 0, ~query.archived,
         NEW ask, ask = query.ask
  PROVE  /\ query.at \in {1, 3} => Asked(ask, TableAt(query.at)) = Asked(ask, usage_log_daily)
         /\ query.at \in {2, 4} /\ query.reaches => TableAt(query.at) = usage_log
<1>1. Asked(ask, {}) = {}  BY DEF Asked
<1>2. ~query.ranges.historical => Asked(ask, usage_log_daily) = {}
  BY DEF CountedAll
<1>3. query.reaches => query.ranges.recent
  BY DEF CountedAll
<1> QED  BY <1>1, <1>2, <1>3 DEF TableAt

LEMMA ReadItemsCountsAll ==
  ASSUME TablesInv, QueryShape, CountedAll, ReadItems
  PROVE  CountedAll'
<1> SUFFICES ASSUME ~query.archived PROVE CountedAll'
  BY ReadItemsIs DEF CountedAll
<1>1. /\ query.at \in {1, 2} /\ query'.at = query.at + 1
      /\ query'.ask = query.ask /\ query'.ranges = query.ranges
      /\ query'.stored = query.stored /\ query'.reaches = query.reaches
      /\ UNCHANGED <<usage_log, usage_log_daily, history>>
      /\ query.at # 0
  BY ReadItemsIs
<1>2. Stored' = Stored  BY <1>1 DEF Stored
<1>3. ASSUME NEW ask, ask = query.ask, NEW items, items = query.items,
             NEW rows, rows = Asked(ask, TableAt(query.at)),
             NEW read, read = StatItems(ask.group_by, rows),
             NEW merged, merged = MergeStatItems(items, read)
      PROVE  /\ query.at = 1 => CountItems(merged) = CountOf(Asked(ask, usage_log_daily))
             /\ query.at = 2 /\ query.reaches => CountItems(merged) = CountOf(Asked(ask, Stored))
  <2>1. Countable(rows)
    BY <1>3, TableAtIsStored, CountableAsked
  <2>2. /\ IsFiniteSet(DOMAIN read)
        /\ \A i \in DOMAIN read : read[i].requests \in Nat
        /\ CountItems(read) = CountOf(rows)
    BY <1>3, <2>1, ItemsCount
  <2>3. /\ IsFiniteSet(DOMAIN items)
        /\ \A i \in DOMAIN items : items[i].requests \in Nat
    BY <1>1, <1>3 DEF QueryShape
  <2>4. CountItems(merged) = CountItems(items) + CountItems(read)
    <3>1. CountItems(MergeStatItems(items, read)) = CountItems(items) + CountItems(read)
      BY ONLY <2>2, <2>3, MergedSum
    <3> QED  BY <1>3, <3>1
  <2>5. CountOf(rows) \in Nat
    BY <2>1, StatCounts
  <2>6. CASE query.at = 1
    <3>1. CountItems(items) = 0
      BY <1>3, <2>6, NothingCounted DEF QueryShape
    <3>2. rows = Asked(ask, usage_log_daily)
      BY <1>3, <2>6, ReadIsAll
    <3> QED  BY <2>2, <2>4, <2>5, <2>6, <3>1, <3>2
  <2>7. ASSUME query.at = 2, query.reaches
        PROVE  CountItems(merged) = CountOf(Asked(ask, Stored))
    <3>1. CountItems(items) = CountOf(Asked(ask, usage_log_daily))
      BY <1>3, <2>7 DEF CountedAll
    <3>2. rows = Asked(ask, usage_log)
      BY <1>3, <2>7, ReadIsAll
    <3>3. CountOf(Asked(ask, Stored)) =
            CountOf(Asked(ask, usage_log_daily)) + CountOf(Asked(ask, usage_log))
      BY TablesAddUp
    <3> QED  BY <2>2, <2>4, <3>1, <3>2, <3>3
  <2> QED  BY <2>6, <2>7
<1>4. /\ query.at = 1 => CountItems(query'.items) = CountOf(Asked(query.ask, usage_log_daily))
      /\ query.at = 2 /\ query.reaches =>
           CountItems(query'.items) = CountOf(Asked(query.ask, Stored))
  <2>1. query'.items = MergeStatItems(query.items,
          StatItems(query.ask.group_by, Asked(query.ask, TableAt(query.at))))
    BY ReadItemsIs
  <2> QED  BY <1>3, <2>1
<1>5. /\ CountOf(Asked(query.ask, query.stored)) <= CountOf(Asked(query.ask, Stored))
      /\ CountOf(Asked(query.ask, Stored)) \in Nat
  <2>1. query.stored \subseteq Stored /\ Countable(Stored)
    BY <1>1, CountableTables DEF CountedAll
  <2> QED  BY <2>1, AskedCountGrows
<1>6. /\ query.reaches => query.ranges.recent
      /\ ~query.ranges.historical => Asked(query.ask, usage_log_daily) = {}
      /\ query.stored \subseteq Stored
  BY <1>1 DEF CountedAll
<1> QED  BY <1>1, <1>2, <1>4, <1>5, <1>6 DEF CountedAll

LEMMA ReadTotalCountsAll ==
  ASSUME TablesInv, QueryShape, CountedAll, ReadTotal
  PROVE  CountedAll'
<1> SUFFICES ASSUME ~query.archived PROVE CountedAll'
  BY ReadTotalIs DEF CountedAll
<1> DEFINE ask == query.ask
           rows == Asked(query.ask, TableAt(query.at))
           read == Stat(rows)
           x == CountOf(Asked(ask, usage_log_daily))
           y == CountOf(Asked(ask, usage_log))
           all == CountOf(Asked(ask, Stored))
<1>1. /\ query.at \in {3, 4} /\ query'.at = query.at + 1
      /\ ~IsRead(query.at) => query'.totals = query.totals
      /\ IsRead(query.at) /\ query.totals = {} => query'.totals = {read}
      /\ IsRead(query.at) /\ query.totals # {} =>
           query'.totals = {MergeTwo(total, read) : total \in query.totals}
      /\ query'.ask = query.ask /\ query'.items = query.items /\ query'.ranges = query.ranges
      /\ query'.stored = query.stored /\ query'.reaches = query.reaches
      /\ UNCHANGED <<usage_log, usage_log_daily, history>>
      /\ query.at # 0
  BY ReadTotalIs
<1>2. Stored' = Stored  BY <1>1 DEF Stored
<1>3. read.requests = CountOf(rows)
  <2>1. Countable(rows)
    BY TableAtIsStored, CountableAsked
  <2> HIDE DEF rows
  <2> QED  BY <2>1, StatCounts
<1>4. all = x + y /\ x \in Nat /\ y \in Nat
  <2>1. Countable(Stored) /\ usage_log \subseteq Stored /\ usage_log_daily \subseteq Stored
    BY CountableTables DEF Stored
  <2>2. x \in Nat  BY <2>1, AskedCountGrows
  <2>3. y \in Nat  BY <2>1, AskedCountGrows
  <2> QED  BY <2>2, <2>3, TablesAddUp
<1>5. /\ query.reaches => query.ranges.recent
      /\ ~query.ranges.historical => Asked(ask, usage_log_daily) = {}
      /\ query.stored \subseteq Stored
      /\ query.reaches =>
           /\ CountOf(Asked(ask, query.stored)) <= CountItems(query.items)
           /\ CountItems(query.items) <= all
  BY <1>1 DEF CountedAll
<1>6. ASSUME query.at = 3
      PROVE  /\ query'.totals = {} => ~query.ranges.historical
             /\ \A total \in query'.totals : total.requests = x
  <2>1. query.totals = {}
    BY <1>6 DEF QueryShape
  <2>2. read.requests = x
    BY <1>1, <1>3, <1>6, ReadIsAll
  <2>3. IsRead(query.at) = query.ranges.historical
    BY <1>6 DEF IsRead
  <2> QED  BY <1>1, <2>1, <2>2, <2>3
<1>7. ASSUME query.at = 4, query.reaches, NEW total \in query'.totals
      PROVE  total.requests = all
  <2>1. IsRead(query.at)
    BY <1>5, <1>7 DEF IsRead
  <2>2. read.requests = y
    BY <1>1, <1>3, <1>7, ReadIsAll
  <2>3. CASE query.totals = {}
    <3>1. Asked(ask, usage_log_daily) = {}
      BY <1>5, <1>7, <2>3 DEF CountedAll
    <3>2. x = 0
      BY <3>1, FS_EmptySet DEF CountOf, RowsOf
    <3>3. total = read
      BY <1>1, <1>7, <2>1, <2>3
    <3> HIDE DEF x, y, all, read
    <3> QED  BY <1>4, <2>2, <3>2, <3>3
  <2>4. CASE query.totals # {}
    <3>1. PICK old \in query.totals : total = MergeTwo(old, read)
      BY <1>1, <1>7, <2>1, <2>4
    <3>2. old.requests = x
      BY <1>7 DEF CountedAll
    <3>3. total.requests = old.requests + read.requests
      BY <3>1 DEF MergeTwo
    <3> HIDE DEF x, y, all, read
    <3> QED  BY <1>4, <2>2, <3>2, <3>3
  <2> QED  BY <2>3, <2>4
<1>8. \A total \in query'.totals : query.at = 4 /\ query.reaches => total.requests >= CountItems(query.items)
  <2> HIDE DEF all
  <2>1. CountItems(query.items) \in Int
    <3>1. query.at # 0 /\ IsFiniteSet(DOMAIN query.items)
          /\ \A id \in DOMAIN query.items : query.items[id].requests \in Nat
      BY <1>1 DEF QueryShape
    <3> QED  BY <3>1, ItemsSumType
  <2>2. all \in Int  BY <1>4
  <2> QED  BY <1>5, <1>7, <2>1, <2>2
<1> HIDE DEF rows, read
<1> QED  BY <1>1, <1>2, <1>5, <1>6, <1>8 DEF CountedAll

LEMMA CountedAllStep ==
  ASSUME TablesInv, TablesInv', QueryShape, CountedAll, [ArchiveNext]_archiveVars
  PROVE  CountedAll'
<1>1. ASSUME NEW ask \in Asks, QueryBegin(ask) PROVE CountedAll'
  BY <1>1, QueryBeginCountsAll
<1>2. CASE ReadItems  BY <1>2, ReadItemsCountsAll
<1>3. CASE ReadTotal  BY <1>3, ReadTotalCountsAll
<1>4. CASE ~ReadItems /\ ~ReadTotal /\ ~\E ask \in Asks : QueryBegin(ask)
  <2>1. CASE query' = NoQuery
    BY <2>1 DEF NoQuery, CountedAll
  <2>2. CASE query.at # 0 /\ query' = [query EXCEPT !.archived = TRUE]
    <3>1. query'.archived
      BY <2>2 DEF QueryShape
    <3> QED  BY <3>1 DEF CountedAll
  <2>3. CASE /\ query' = query
             /\ \/ usage_log' = usage_log /\ usage_log_daily' = usage_log_daily
                \/ usage_log' = usage_log \cup {batch} /\ usage_log_daily' = usage_log_daily
                \/ query.at = 0
    <3> SUFFICES ASSUME query.at # 0, ~query.archived PROVE CountedAll'
      BY <2>3 DEF CountedAll
    <3>1. usage_log_daily' = usage_log_daily /\ Stored \subseteq Stored'
      BY <2>3 DEF Stored
    <3>2. Countable(Stored')
      BY CountableNext
    <3>3. /\ CountOf(Asked(query.ask, Stored)) <= CountOf(Asked(query.ask, Stored'))
          /\ CountOf(Asked(query.ask, Stored)) \in Nat
          /\ CountOf(Asked(query.ask, Stored')) \in Nat
      BY <3>1, <3>2, AskedCountGrows
    <3>4. CountItems(query.items) \in Int
      <4>1. IsFiniteSet(DOMAIN query.items)
            /\ \A id \in DOMAIN query.items : query.items[id].requests \in Nat
        BY DEF QueryShape
      <4> QED  BY <4>1, ItemsSumType
    <3>5. query.at >= 3 /\ query.reaches => CountItems(query.items) <= CountOf(Asked(query.ask, Stored'))
      BY <3>3, <3>4 DEF CountedAll
    <3> QED  BY <2>3, <3>1, <3>5 DEF CountedAll
  <2> QED  BY <1>4, <2>1, <2>2, <2>3, OtherSteps
<1> QED  BY <1>1, <1>2, <1>3, <1>4

(* While no archive commits, nothing that was stored when a query began is *)
(* missed, whether or not its day has been archived by then.               *)
THEOREM CountsWhatWasStoredHolds == ArchiveSpec => []CountsWhatWasStored
<1>1. ArchiveInit => CountedAll
  BY DEF ArchiveInit, NoQuery, CountedAll
<1>2. QueryInv /\ QueryInv' /\ CountedAll /\ [ArchiveNext]_archiveVars => CountedAll'
  BY CountedAllStep DEF QueryInv
<1>3. CountedAll => CountsWhatWasStored
  BY DEF CountedAll, CountsWhatWasStored, CountItems, CountOf, AskedFor, Asked
<1> QED  BY <1>1, <1>2, <1>3, QueryInvariance, PTL DEF ArchiveSpec
=============================================================================
