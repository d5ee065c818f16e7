---------------------------- MODULE UsageTracker ----------------------------
(***************************************************************************)
(* Usage metering of the gateway (crates/core/src/usage.rs,                *)
(* crates/core/src/store/usage.rs, the hourly flush loop of                *)
(* crates/server/src/main.rs and crates/cli/src/cmd/serve.rs).             *)
(*                                                                         *)
(* A count is in one of three places: the `live` map, the batch a flush is *)
(* carrying to SQLite, or the usage_hourly table.  Requests record, the    *)
(* one flush loop moves and an API query reads at the same time; the map   *)
(* is locked per entry only, so drain, merge_back and the query's walk     *)
(* take one step per key.                                                  *)
(*                                                                         *)
(* A key's three counters are added to, moved and summed alike, so one     *)
(* stands for them, in units of one call of record_*.  The table is held   *)
(* as what query_usage returns: stored[h][k] sums the rows of k with       *)
(* ts_hour >= h.                                                           *)
(***************************************************************************)
EXTENDS Naturals

CONSTANTS Keys,      \* (route, token_id) pairs
          MaxHour,   \* bound on the clock, in hours
          MaxCount   \* bound on the calls of record_* per key

ASSUME UsageAssumption == MaxHour \in Nat /\ MaxCount \in [Keys -> Nat]

Hours == 0 .. MaxHour
Counts == [Keys -> Nat]
Zero == [k \in Keys |-> 0]

VARIABLES live,      \* UsageTracker.live
          batch,     \* the `drained` map of the running flush
          flushing,  \* where the flush is
          fkeys,     \* keys its drain or merge_back has still to visit
          stamp,     \* ts_hour of its rows
          stored,    \* the usage_hourly table; survives a crash
          asking,    \* where the query is
          qkeys,     \* keys its walk over live has still to visit
          since,     \* its since_hour
          agg,       \* its sums so far
          due,       \* what had been recorded, and not lost, when it began
          quiet,     \* no flush has been running since it began
          recorded,  \* recorded[h]: calls of record_* in hour h or later
          lost,      \* counts that died with a process
          hour       \* hour_floor(now_unix())

flush == <<batch, flushing, fkeys, stamp>>
query == <<asking, qkeys, since, agg, due, quiet>>
usageVars == <<live, flush, stored, query, recorded, lost, hour>>

UsageTypeOK ==
  /\ live \in Counts /\ batch \in Counts /\ lost \in Counts
  /\ agg \in Counts /\ due \in Counts
  /\ flushing \in {"no", "drain", "upsert", "merge"}
  /\ asking \in {"no", "walk", "done"}
  /\ fkeys \subseteq Keys /\ qkeys \subseteq Keys
  /\ stored \in [Hours -> Counts] /\ recorded \in [Hours -> Counts]
  /\ stamp \in Hours /\ since \in Hours /\ hour \in Hours
  /\ quiet \in BOOLEAN

UsageInit ==
  /\ live = Zero /\ batch = Zero /\ lost = Zero /\ agg = Zero /\ due = Zero
  /\ flushing = "no" /\ asking = "no"
  /\ fkeys = {} /\ qkeys = {}
  /\ stored = [h \in Hours |-> Zero] /\ recorded = [h \in Hours |-> Zero]
  /\ stamp = 0 /\ since = 0 /\ hour = 0
  /\ quiet = TRUE

-----------------------------------------------------------------------------
Add(f, g) == [k \in Keys |-> f[k] + g[k]]

(* record_request, record_bytes_out: entry().or_default(), then fetch_add. *)
record(k) ==
  /\ recorded[0][k] < MaxCount[k]
  /\ live' = [live EXCEPT ![k] = @ + 1]
  /\ recorded' = [h \in Hours |-> IF h <= hour
                                    THEN [recorded[h] EXCEPT ![k] = @ + 1]
                                    ELSE recorded[h]]
  /\ UNCHANGED <<flush, stored, query, lost, hour>>

(* The interval ticks: flush() starts to drain. *)
FlushStart ==
  /\ flushing = "no"
  /\ flushing' = "drain"
  /\ fkeys' = Keys
  /\ quiet' = FALSE
  /\ UNCHANGED <<live, batch, stamp, stored, asking, qkeys, since, agg, due,
                 recorded, lost, hour>>

(* retain(): the entry is read and erased under its shard's lock. *)
drain(k) ==
  /\ flushing = "drain" /\ k \in fkeys
  /\ batch' = [batch EXCEPT ![k] = live[k]]
  /\ live' = [live EXCEPT ![k] = 0]
  /\ fkeys' = fkeys \ {k}
  /\ UNCHANGED <<flushing, stamp, stored, query, recorded, lost, hour>>

StampedOnce ==
  /\ flushing = "drain" /\ fkeys = {}
  /\ flushing' = IF batch = Zero THEN "no" ELSE "upsert"
  /\ UNCHANGED <<live, batch, fkeys, stamp, stored, query, recorded, lost,
                 hour>>

(* Nothing drained: return.  Otherwise the rows get the hour of this moment. *)
Stamp ==
  /\ flushing = "drain" /\ fkeys = {}
  /\ IF batch = Zero THEN flushing' = "no" /\ stamp' = stamp
                     ELSE flushing' = "upsert" /\ stamp' = hour
  /\ UNCHANGED <<live, batch, fkeys, stored, query, recorded, lost, hour>>

(* Seeded fault: a refused batch is dropped. *)
UpsertFailsDropping ==
  /\ flushing = "upsert"
  /\ batch' = Zero
  /\ flushing' = "no"
  /\ UNCHANGED <<live, fkeys, stamp, stored, query, recorded, lost, hour>>

(* upsert_usage: one transaction, rows of one key and hour accumulate. *)
upsert_usage ==
  /\ flushing = "upsert"
  /\ stored' = [h \in Hours |-> IF h <= stamp THEN Add(stored[h], batch)
                                              ELSE stored[h]]
  /\ batch' = Zero
  /\ flushing' = "no"
  /\ UNCHANGED <<live, fkeys, stamp, query, recorded, lost, hour>>

(* The transaction is rolled back, or its task panicked. *)
UpsertFails ==
  /\ flushing = "upsert"
  /\ flushing' = "merge"
  /\ fkeys' = Keys
  /\ UNCHANGED <<live, batch, stamp, stored, query, recorded, lost, hour>>

(* Seeded fault: an entry rebuilt since the drain is overwritten. *)
merge_back_overwriting(k) ==
  /\ flushing = "merge" /\ k \in fkeys
  /\ live' = [live EXCEPT ![k] = IF batch[k] > 0 THEN batch[k] ELSE @]
  /\ batch' = [batch EXCEPT ![k] = 0]
  /\ fkeys' = fkeys \ {k}
  /\ flushing' = IF fkeys = {k} THEN "no" ELSE "merge"
  /\ UNCHANGED <<stamp, stored, query, recorded, lost, hour>>

(* and_modify / or_insert_with, entry by entry; then flush() returns Err. *)
merge_back(k) ==
  /\ flushing = "merge" /\ k \in fkeys
  /\ live' = [live EXCEPT ![k] = @ + batch[k]]
  /\ batch' = [batch EXCEPT ![k] = 0]
  /\ fkeys' = fkeys \ {k}
  /\ flushing' = IF fkeys = {k} THEN "no" ELSE "merge"
  /\ UNCHANGED <<stamp, stored, query, recorded, lost, hour>>

(* query(): first the table.  (A route or token filter only leaves out keys;
   a table that cannot be read answers an error and changes nothing.) *)
QueryTable(h) ==
  /\ asking = "no"
  /\ asking' = "walk"
  /\ since' = h
  /\ qkeys' = Keys
  /\ agg' = stored[h]
  /\ due' = [k \in Keys |-> IF recorded[h][k] > lost[k]
                              THEN recorded[h][k] - lost[k] ELSE 0]
  /\ quiet' = (flushing = "no")
  /\ UNCHANGED <<live, flush, stored, recorded, lost, hour>>

(* ... then the walk over live, entry by entry. *)
QueryLive(k) ==
  /\ asking = "walk" /\ k \in qkeys
  /\ agg' = [agg EXCEPT ![k] = @ + live[k]]
  /\ qkeys' = qkeys \ {k}
  /\ asking' = IF qkeys = {k} THEN "done" ELSE "walk"
  /\ UNCHANGED <<live, flush, stored, since, due, quiet, recorded, lost, hour>>

QueryAnswered ==
  /\ asking = "done"
  /\ asking' = "no"
  /\ agg' = Zero /\ due' = Zero /\ since' = 0 /\ quiet' = TRUE
  /\ UNCHANGED <<live, flush, stored, qkeys, recorded, lost, hour>>

(* The process dies and is started again: no final flush. *)
Crash ==
  /\ lost' = [k \in Keys |-> lost[k] + live[k] + batch[k]]
  /\ live' = Zero /\ batch' = Zero
  /\ flushing' = "no" /\ fkeys' = {}
  /\ asking' = "no" /\ qkeys' = {}
  /\ agg' = Zero /\ due' = Zero /\ since' = 0 /\ quiet' = TRUE
  /\ UNCHANGED <<stamp, stored, recorded, hour>>

NextHour ==
  /\ hour < MaxHour
  /\ hour' = hour + 1
  /\ UNCHANGED <<live, flush, stored, query, recorded, lost>>

flushStep ==
  \/ FlushStart \/ Stamp \/ upsert_usage \/ UpsertFails
  \/ \E k \in Keys : drain(k) \/ merge_back(k)

queryStep ==
  \/ \E h \in Hours : QueryTable(h)
  \/ \E k \in Keys : QueryLive(k)
  \/ QueryAnswered

UsageNext ==
  \/ \E k \in Keys : record(k)
  \/ flushStep
  \/ queryStep
  \/ Crash
  \/ NextHour

(* The flush loop never stops, and the table can be written again after some
   failed attempts. *)
Fairness == WF_usageVars(flushStep) /\ SF_usageVars(upsert_usage)

UsageSpec == UsageInit /\ [][UsageNext]_usageVars
FairUsageSpec == UsageSpec /\ Fairness

-----------------------------------------------------------------------------
(* No count is lost, and none is counted twice, by drains, failed and retried
   flushes that race with requests; only a crash loses what was in memory
   ("成功丢弃、失败合并回 live，计数不丢", usage.rs:5). *)
Conserved ==
  \A k \in Keys :
    stored[0][k] + batch[k] + live[k] + lost[k] = recorded[0][k]

(* A count is never booked to an hour before the one it was recorded in: what
   happened in the last n hours is all in the last n hours' answer, however
   late it was flushed and although the drain takes time. *)
NeverBackdated ==
  \A h \in Hours, k \in Keys :
    recorded[h][k] <= stored[h][k] + batch[k] + live[k] + lost[k]

(* A query never reports more than was recorded, although it reads the table
   and the map at different moments and a flush may move counts between. *)
NoOvercount == \A k \in Keys : agg[k] <= recorded[0][k]

(* A query during which no flush runs reports everything that had been
   recorded in its window when it began. *)
QuietQueryComplete ==
  asking = "done" /\ quiet => \A k \in Keys : due[k] <= agg[k]

(* Every recorded count reaches the table, unless a crash takes it. *)
Persisted ==
  \A k \in Keys : \A n \in 1 .. MaxCount[k] :
    recorded[0][k] >= n ~> stored[0][k] + lost[k] >= n

(* The inductive strengthening: what the flush and the query know. *)
FlushInv ==
  /\ flushing = "no" => batch = Zero
  /\ flushing = "drain" => \A k \in fkeys : batch[k] = 0
  /\ flushing = "merge" => \A k \in Keys \ fkeys : batch[k] = 0

(* Of the rows of later hours the table holds no more than of all, and a
   batch on its way was recorded no later than its stamp. *)
HourInv ==
  /\ \A h \in Hours, k \in Keys : stored[h][k] <= stored[0][k]
  /\ \A h \in Hours, k \in Keys : h > hour => recorded[h][k] = 0
  /\ stamp <= hour
  /\ flushing = "upsert" =>
       \A h \in Hours, k \in Keys :
         h > stamp => recorded[h][k] <= stored[h][k] + live[k] + lost[k]

QueryInv ==
  /\ asking = "no" => agg = Zero
  /\ asking = "walk" => \A k \in qkeys : agg[k] <= stored[0][k]
  /\ quiet /\ asking # "no" => flushing = "no"
  /\ quiet /\ asking = "walk" =>
       \A k \in qkeys : agg[k] = stored[since][k] /\ due[k] <= agg[k] + live[k]
  /\ quiet /\ asking # "no" => \A k \in Keys \ qkeys : due[k] <= agg[k]
  /\ asking = "done" => qkeys = {}

UsageInv ==
  /\ UsageTypeOK /\ FlushInv /\ Conserved /\ NeverBackdated /\ HourInv
  /\ NoOvercount /\ QueryInv
=============================================================================
