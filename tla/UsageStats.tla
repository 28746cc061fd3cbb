----------------------------- MODULE UsageStats -----------------------------
(***************************************************************************)
(* The statistics of db/impls/usage_log.rs: what the SQL aggregates over a *)
(* table, and how query_stats merges the answers of the two tables.        *)
(*                                                                         *)
(* A row of either table names the requests it counts: one in usage_log,   *)
(* all that have been aggregated into it in usage_log_daily.  The numbers  *)
(* a daily row stores are functions of that set.  One token column stands  *)
(* for the five, which are all summed, and model for provider and model.   *)
(* An average is kept as its product with the number of requests: every    *)
(* formula of the code multiplies it out again.                            *)
(***************************************************************************)
EXTENDS Integers, FiniteSets, FiniteSetsExt

CONSTANTS
  Request,   \* the requests, numbered from 1
  Usage      \* what create_batch is given for each of them

ASSUME UsageAssumption ==
  /\ Request \subseteq Nat \ {0}
  /\ Usage \in [Request -> [api_key : Nat, model : Nat, credential : Nat,
                            tokens : Nat, ms : Nat]]

NotGiven == 0   \* start_time or end_time: None.  Days start at 1.

RowOf(request, today) ==
  [day |-> today, api_key |-> Usage[request].api_key, model |-> Usage[request].model,
   credential |-> Usage[request].credential, requests |-> {request}]

(* ROUND(AVG(duration_ms)): half is rounded up. *)
RoundedMean(requests) ==
  LET n == Cardinality(requests)
  IN  (2 * SumFunction([r \in requests |-> Usage[r].ms]) + n) \div (2 * n)

\* Mutant: the archive groups by credential as well, as the documents say; the
\* daily table is unique in day, key, provider and model.
AggregateByCredential(rows) ==
  { [row EXCEPT !.requests = UNION {other.requests : other \in
       {same \in rows : [same EXCEPT !.requests = {}] = [row EXCEPT !.requests = {}]}}] :
    row \in rows }

\* Mutant: the archive forgets to group by model.
AggregateByKey(rows) ==
  { LET group == {row \in rows : row.api_key = key} IN
    [day |-> (CHOOSE row \in group : TRUE).day, api_key |-> key,
     model |-> Max({row.model : row \in group}),
     credential |-> Max({row.credential : row \in group}),
     requests |-> UNION {row.requests : row \in group}] :
    key \in {row.api_key : row \in rows} }

(* The INSERT ... SELECT of the archive, over the rows of one day.  The    *)
(* credential is no group key, its maximum is stored.                      *)
Aggregate(rows) ==
  { LET group == {row \in rows : row.api_key = key[1] /\ row.model = key[2]} IN
    [day |-> (CHOOSE row \in group : TRUE).day, api_key |-> key[1], model |-> key[2],
     credential |-> Max({row.credential : row \in group}),
     requests |-> UNION {row.requests : row \in group}] :
    key \in {<<row.api_key, row.model>> : row \in rows} }
-----------------------------------------------------------------------------
(* What row_to_stat_item makes of the NULLs of an empty sum.               *)
NoRows == [requests |-> 0, tokens |-> 0, spent |-> 0, least |-> 0, most |-> 0]

(* build_agg_select over the rows of one table.                            *)
Stat(rows) ==
  LET durations == {Usage[r].ms : r \in UNION {row.requests : row \in rows}} IN
  IF rows = {} THEN NoRows ELSE
  [requests |-> SumFunction([row \in rows |-> Cardinality(row.requests)]),
   tokens |-> SumFunction([row \in rows |->
                 SumFunction([r \in row.requests |-> Usage[r].tokens])]),
   spent |-> SumFunction([row \in rows |->
                 Cardinality(row.requests) * RoundedMean(row.requests)]),
   least |-> Min(durations),
   most |-> Max(durations)]

InRange(row, start, end) ==
  /\ start # NotGiven => row.day >= start
  /\ end # NotGiven => row.day <= end

(* build_group_clauses: a dimension is a column, with the name that goes   *)
(* with it; names do not change here.                                      *)
DimensionId(group_by, row) == row[group_by]

(* query_stats_table: the statistics of the rows of a table by dimension.  *)
StatItems(group_by, rows) ==
  [id \in {DimensionId(group_by, row) : row \in rows} |->
     Stat({row \in rows : DimensionId(group_by, row) = id})]

(* The arithmetic of merge_stat_items and merge_two_totals.                *)
MergeTwo(a, b) ==
  [requests |-> a.requests + b.requests,
   tokens |-> a.tokens + b.tokens,
   spent |-> a.spent + b.spent,
   least |-> Min({a.least, b.least}),
   most |-> Max({a.most, b.most})]

\* Mutant: the item of the second table replaces the one of the first.
MergeReplacing(map, items) ==
  [id \in DOMAIN map \cup DOMAIN items |->
     IF id \in DOMAIN items THEN items[id] ELSE map[id]]

MergeStatItems(map, items) ==
  [id \in DOMAIN map \cup DOMAIN items |->
     IF id \in DOMAIN map \cap DOMAIN items THEN MergeTwo(map[id], items[id])
     ELSE IF id \in DOMAIN map THEN map[id] ELSE items[id]]

\* Mutant: the raw table is read for ranges that reach today only.
DateRangesToday(start, end, today) ==
  [historical |-> start = NotGiven \/ end = NotGiven \/ start < today,
   recent |-> start = NotGiven \/ end = NotGiven \/ end >= today]

(* compute_date_ranges: which of the tables are read.                      *)
DateRanges(start, end, today) ==
  [historical |-> start = NotGiven \/ end = NotGiven \/ start < today,
   recent |-> start = NotGiven \/ end = NotGiven \/ end >= today - 1]
=============================================================================
