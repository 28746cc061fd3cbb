---------------------------- MODULE UsageArchive ----------------------------
(***************************************************************************)
(* The usage tables over days: create_batch writes rows, archive_yesterday *)
(* moves a day into usage_log_daily (at startup from main.rs and every day *)
(* at 00:05 from task.rs), query_stats reads both tables.  The process may *)
(* end and be started again at any point.                                  *)
(*                                                                         *)
(* A transaction is one step, its commit: SQLite has one writer.  A batch  *)
(* is a row: insert_many is one statement.                                 *)
(***************************************************************************)
EXTENDS UsageStats

CONSTANTS
  MaxDay,    \* bound: the last day
  Asks       \* the queries: sets of group_by, start and end

ASSUME DayAssumption == MaxDay \in Nat \ {0}

ASSUME AsksAssumption ==
  Asks \subseteq [group_by : {"api_key", "model", "day", "credential"},
                  start : Nat, end : Nat]

VARIABLES
  day,         \* the date, UTC
  fivePast,    \* 00:05 has passed on that day
  usage_log,
  usage_log_daily,
  batch,       \* the row create_batch has stamped and is inserting
  archiver,    \* the archiving task, or main before it: at, date
  query,       \* the query under way
  history      \* not in the code: what has been written, lost, excused

archiveVars == <<day, fivePast, usage_log, usage_log_daily, batch, archiver, query, history>>

Days == 1..MaxDay
None == [requests |-> {}]

Down == [at |-> "down", date |-> 0]
NoQuery == [at |-> 0]

ArchiveInit ==
  /\ day = 1
  /\ fivePast = FALSE
  /\ usage_log = {}
  /\ usage_log_daily = {}
  /\ batch = None
  /\ archiver = Down
  /\ query = NoQuery
  /\ history = [rows |-> {}, late |-> {}, excused |-> {}]

(* spawn_daily_archive sleeps until 00:05 of the next day.                 *)
Sleeping == [at |-> "sleep", date |-> day + 1]
Serving == archiver.at \in {"sleep", "attempt", "backoff", "retry"}
Yesterday == day - 1
-----------------------------------------------------------------------------
(* create_batch: now is read, then a connection is waited for.  Requests   *)
(* are numbered in the order of their rows.                                *)
Stamped == UNION {row.requests : row \in history.rows} \cup batch.requests

BatchBegin(request) ==
  /\ Serving
  /\ batch = None
  /\ request \in Request \ Stamped
  /\ 1..request - 1 \subseteq Stamped
  /\ batch' = RowOf(request, day)
  /\ UNCHANGED <<day, fivePast, usage_log, usage_log_daily, archiver, query, history>>

BatchInsert ==
  /\ batch # None
  /\ usage_log' = usage_log \cup {batch}
  /\ batch' = None
  /\ history' = [history EXCEPT
       !.rows = @ \cup {batch},
       !.late = IF batch.day = day THEN @ ELSE @ \cup batch.requests]
  /\ UNCHANGED <<day, fivePast, usage_log_daily, archiver, query>>

BatchFail ==
  /\ batch # None
  /\ batch' = None
  /\ UNCHANGED <<day, fivePast, usage_log, usage_log_daily, archiver, query, history>>
-----------------------------------------------------------------------------
\* Mutant: main starts the daily task without archiving first.
StartUnarchived ==
  /\ archiver = Down
  /\ archiver' = Sleeping
  /\ UNCHANGED <<day, fivePast, usage_log, usage_log_daily, batch, query, history>>

Start ==
  /\ archiver = Down
  /\ archiver' = [at |-> "startup", date |-> Yesterday]
  /\ UNCHANGED <<day, fivePast, usage_log, usage_log_daily, batch, query, history>>

Due == archiver.at = "sleep" /\ (day > archiver.date \/ (day = archiver.date /\ fivePast))

(* The date is taken when an attempt begins, for each retry anew.          *)
Attempt ==
  /\ Due \/ archiver.at = "backoff"
  /\ archiver' = [at |-> IF Due THEN "attempt" ELSE "retry", date |-> Yesterday]
  /\ UNCHANGED <<day, fivePast, usage_log, usage_log_daily, batch, query, history>>

Attempting == archiver.at \in {"startup", "attempt", "retry"}
OnDate(rows, date) == {row \in rows : row.day = date}
IsAlreadyArchivedOn(date) == OnDate(usage_log_daily, date) # {}

(* A day that is not archived on the day after it may be excused: history. *)
ExcusedByCommit ==
  IF day = archiver.date + 1 THEN history.excused ELSE history.excused \cup {day}

\* Mutant: the date is computed again for the DELETE.
ArchiveCommitLater ==
  /\ Attempting
  /\ usage_log_daily' =
       IF IsAlreadyArchivedOn(archiver.date) THEN usage_log_daily
       ELSE usage_log_daily \cup Aggregate(OnDate(usage_log, archiver.date))
  /\ usage_log' = usage_log \ OnDate(usage_log, Yesterday)
  /\ archiver' = Sleeping
  /\ history' = [history EXCEPT !.excused = ExcusedByCommit]
  /\ query' = IF query.at = 0 THEN query ELSE [query EXCEPT !.archived = TRUE]
  /\ UNCHANGED <<day, fivePast, batch>>

ArchiveCommit ==
  /\ Attempting
  /\ usage_log_daily' =
       IF IsAlreadyArchivedOn(archiver.date) THEN usage_log_daily
       ELSE usage_log_daily \cup Aggregate(OnDate(usage_log, archiver.date))
  /\ usage_log' = usage_log \ OnDate(usage_log, archiver.date)
  /\ archiver' = Sleeping
  /\ history' = [history EXCEPT !.excused = ExcusedByCommit]
  /\ query' = IF query.at = 0 THEN query ELSE [query EXCEPT !.archived = TRUE]
  /\ UNCHANGED <<day, fivePast, batch>>

(* A failure is retried by the task, and only logged by main.              *)
ArchiveFail ==
  /\ Attempting
  /\ archiver' = IF archiver.at = "startup" THEN Sleeping
                 ELSE [at |-> "backoff", date |-> day]
  /\ history' = [history EXCEPT !.excused = @ \cup {archiver.date + 1, day}]
  /\ UNCHANGED <<day, fivePast, usage_log, usage_log_daily, batch, query>>

(* The process ends, at any point; so does what it was doing.              *)
Stop ==
  /\ archiver # Down
  /\ archiver' = Down
  /\ batch' = None
  /\ query' = NoQuery
  /\ history' = [history EXCEPT !.excused =
                   IF Attempting /\ archiver.date # Yesterday
                   THEN @ \cup {archiver.date + 1} ELSE @]
  /\ UNCHANGED <<day, fivePast, usage_log, usage_log_daily>>
-----------------------------------------------------------------------------
(* query_stats: four queries, each on a connection of its own.  What was   *)
(* stored when it began, whether its range reaches yesterday and whether   *)
(* an archive commits is history.                                          *)
QueryBegin(ask) ==
  /\ Serving
  /\ query = NoQuery
  /\ query' = [at |-> 1, ask |-> ask, ranges |-> DateRanges(ask.start, ask.end, day),
               items |-> <<>>, totals |-> {},
               stored |-> usage_log \cup usage_log_daily, archived |-> FALSE,
               reaches |-> NotGiven \in {ask.start, ask.end} \/ ask.end >= Yesterday]
  /\ UNCHANGED <<day, fivePast, usage_log, usage_log_daily, batch, archiver, history>>

\* Mutant: the raw table is read before the daily one.
RawFirst(at) ==
  IF at \in {1, 3} THEN IF query.ranges.recent THEN usage_log ELSE {}
  ELSE IF query.ranges.historical THEN usage_log_daily ELSE {}

(* The order of the queries: the daily table first, then the raw one.      *)
TableAt(at) ==
  IF at \in {1, 3} THEN IF query.ranges.historical THEN usage_log_daily ELSE {}
  ELSE IF query.ranges.recent THEN usage_log ELSE {}

Matching(rows) == {row \in rows : InRange(row, query.ask.start, query.ask.end)}

(* query_merged_items *)
ReadItems ==
  /\ query.at \in {1, 2}
  /\ query' = [query EXCEPT
       !.at = @ + 1,
       !.items = MergeStatItems(@, StatItems(query.ask.group_by,
                                             Matching(TableAt(query.at))))]
  /\ UNCHANGED <<day, fivePast, usage_log, usage_log_daily, batch, archiver, history>>

IsRead(at) == IF at = 3 THEN query.ranges.historical ELSE query.ranges.recent

(* query_merged_total: a table that is not read contributes nothing, one   *)
(* without a matching row contributes zeros.                               *)
ReadTotal ==
  LET read == Stat(Matching(TableAt(query.at))) IN
  /\ query.at \in {3, 4}
  /\ query' = [query EXCEPT
       !.at = @ + 1,
       !.totals = IF ~IsRead(query.at) THEN @
                  ELSE IF @ = {} THEN {read}
                  ELSE {MergeTwo(total, read) : total \in @}]
  /\ UNCHANGED <<day, fivePast, usage_log, usage_log_daily, batch, archiver, history>>

Answer ==
  /\ query.at = 5
  /\ query' = NoQuery
  /\ UNCHANGED <<day, fivePast, usage_log, usage_log_daily, batch, archiver, history>>
-----------------------------------------------------------------------------
(* The clock.  An insert or an attempt takes a minute or two, the time for *)
(* a connection; a timer fires in time, and a backoff lasts an hour at     *)
(* most.                                                                   *)
FivePastMidnight ==
  /\ ~fivePast
  /\ batch # None => batch.day = day
  /\ Attempting => archiver.date = Yesterday
  /\ fivePast' = TRUE
  /\ UNCHANGED <<day, usage_log, usage_log_daily, batch, archiver, query, history>>

Midnight ==
  /\ fivePast
  /\ day < MaxDay
  /\ ~Due /\ archiver.at # "attempt"
  /\ archiver.at = "backoff" => archiver.date = day
  /\ day' = day + 1
  /\ fivePast' = FALSE
  /\ history' = [history EXCEPT !.excused =
                   IF archiver = Down THEN @ \cup {day} ELSE @]
  /\ UNCHANGED <<usage_log, usage_log_daily, batch, archiver, query>>

ArchiveNext ==
  \/ \E request \in Request : BatchBegin(request)
  \/ BatchInsert \/ BatchFail
  \/ Start \/ Attempt \/ ArchiveCommit \/ ArchiveFail \/ Stop
  \/ \E ask \in Asks : QueryBegin(ask)
  \/ ReadItems \/ ReadTotal \/ Answer
  \/ FivePastMidnight \/ Midnight

ArchiveSpec == ArchiveInit /\ [][ArchiveNext]_archiveVars
-----------------------------------------------------------------------------
RowsOf(table) == UNION {row.requests : row \in table}
Written == RowsOf(history.rows)
OnTime == Written \ history.late

ArchiveTypeOK ==
  /\ day \in Days
  /\ fivePast \in BOOLEAN
  /\ \A row \in usage_log \cup usage_log_daily :
       /\ DOMAIN row = {"day", "api_key", "model", "credential", "requests"}
       /\ row.day \in Days
       /\ row.requests # {} /\ row.requests \subseteq Request
  /\ \A row, other \in usage_log_daily :
       (row.day = other.day /\ row.api_key = other.api_key /\ row.model = other.model)
         => row = other
  /\ archiver.at \in {"down", "startup", "sleep", "attempt", "backoff", "retry"}
  /\ archiver.date \in 0..MaxDay + 1
  /\ query.at \in 0..5

(* A request is in the statistics once: no row is in both tables, no two   *)
(* rows of the two count the same request, and every request whose row was *)
(* inserted on the day it is dated is in one, however attempts, retries,   *)
(* restarts and midnights follow each other.  Only a row inserted after    *)
(* its day can be deleted uncounted, when its day has been archived before.*)
EachRequestOnce ==
  /\ usage_log \cap usage_log_daily = {}
  /\ \A row, other \in usage_log \cup usage_log_daily :
       row # other => row.requests \cap other.requests = {}
  /\ OnTime \subseteq RowsOf(usage_log \cup usage_log_daily)
  /\ RowsOf(usage_log \cup usage_log_daily) \subseteq Written

(* Every day is archived on the day after it, unless the process was down  *)
(* at the end of that day, an attempt failed on it, or an attempt that     *)
(* began before that day ended on it: whoever finishes after midnight      *)
(* sleeps until 00:05 of the day after and archives the wrong yesterday.   *)
ArchivedTheDayAfter ==
  \A row \in usage_log :
    (/\ row.day < day - 1
     /\ row.requests \subseteq OnTime
     /\ ~(Attempting /\ archiver.date = row.day)) => row.day + 1 \in history.excused

(* Archiving changes no statistics by key, model or day: merged over both  *)
(* tables, as query_stats does it, they are those of the rows as they were *)
(* written, but for durations, which may be off by half a millisecond for  *)
(* each request.                                                           *)
Same(stat, true) ==
  /\ [stat EXCEPT !.spent = 0] = [true EXCEPT !.spent = 0]
  /\ 2 * (stat.spent - true.spent) \in -true.requests..true.requests

StatisticsAreTrue ==
  LET known == RowsOf(usage_log \cup usage_log_daily)
      written == {row \in history.rows : row.requests \subseteq known}
  IN  \A group_by \in {"api_key", "model", "day"} :
        LET merged == MergeStatItems(StatItems(group_by, usage_log_daily),
                                     StatItems(group_by, usage_log))
            true == StatItems(group_by, written)
        IN  /\ DOMAIN merged = DOMAIN true
            /\ \A id \in DOMAIN true : Same(merged[id], true[id])

(* The four queries of query_stats are not one transaction.  As the daily  *)
(* table is read first, a request that is archived in between may be       *)
(* missed, and is never counted twice: neither in an item nor in the total.*)
AskedFor(rows) == {row \in rows : InRange(row, query.ask.start, query.ask.end)}

NothingCountedTwice ==
  query.at # 0 =>
    /\ query.ask.group_by # "credential" =>
         \A id \in DOMAIN query.items :
           query.items[id].requests <=
             Cardinality({row \in AskedFor(history.rows) : row[query.ask.group_by] = id})
    /\ \A total \in query.totals :
         total.requests <= Cardinality(AskedFor(history.rows))

(* If no archive commits while it runs, a query whose range is open or     *)
(* reaches yesterday counts every request asked for that either table held *)
(* when it began, whether or not yesterday has been archived by then, and  *)
(* its total covers its items.                                             *)
CountsWhatWasStored ==
  (/\ query.at = 5 /\ ~query.archived
   /\ query.reaches) =>
    \A total \in query.totals :
      LET counted == SumFunction([id \in DOMAIN query.items |-> query.items[id].requests])
      IN  /\ counted >= Cardinality(RowsOf(AskedFor(query.stored)))
          /\ total.requests >= counted
=============================================================================
