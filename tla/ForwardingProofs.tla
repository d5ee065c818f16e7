-------------------------- MODULE ForwardingProofs --------------------------
(***************************************************************************)
(* Proofs about a request's way through the gateway, for any routes,       *)
(* workers, requests, edges and keys.  UsageTracker, which counts it: its  *)
(* inductive invariant UsageInv, one lemma per action, and what follows.   *)
(* RouteTable and Forwarding, which send it: the routes in memory are a    *)
(* whole version of the table (refinement of LaggingTable), a request is   *)
(* sent only where some version of its route pointed, and one that may not *)
(* be repeated is sent again only by the failover.                         *)
(***************************************************************************)
EXTENDS Forwarding, UsageTracker, TLAPS

-----------------------------------------------------------------------------
(* Usage (UsageTracker). *)

(* Hour 0, which stands for the whole table, is an hour, and hours are
   numbers. *)
LEMMA HourFacts == 0 \in Hours /\ \A h \in Hours : h \in Nat /\ 0 <= h
BY UsageAssumption DEF Hours

(* Every count is a number. *)
Nats ==
  /\ \A k \in Keys : live[k] \in Nat /\ batch[k] \in Nat /\ lost[k] \in Nat
  /\ \A k \in Keys : agg[k] \in Nat /\ due[k] \in Nat
  /\ \A h \in Hours, k \in Keys : stored[h][k] \in Nat /\ recorded[h][k] \in Nat
  /\ hour \in Nat /\ stamp \in Nat

(* Every count is a number (the types of usage.rs). *)
LEMMA NatFacts == UsageTypeOK => Nats
<1> SUFFICES ASSUME UsageTypeOK PROVE Nats
  OBVIOUS
<1>1. \A h \in Hours : stored[h] \in Counts /\ recorded[h] \in Counts
  BY DEF UsageTypeOK
<1> QED BY <1>1, HourFacts DEF UsageTypeOK, Counts, Nats

(* A sum of counts is a count, key by key. *)
LEMMA AddFacts ==
  ASSUME NEW f \in Counts, NEW g \in Counts
  PROVE  Add(f, g) \in Counts /\ \A k \in Keys : Add(f, g)[k] = f[k] + g[k]
BY DEF Add, Counts

(* A tracker that has just been constructed satisfies the invariant. *)
LEMMA UsageInitInv == UsageInit => UsageInv
BY UsageAssumption, HourFacts
   DEF UsageInit, UsageInv, UsageTypeOK, FlushInv, Conserved, NeverBackdated, HourInv,
       NoOvercount, QueryInv, Counts, Zero, Hours

(* A request is counted while a flush or a query is under way
   (record_request, record_bytes_out). *)
LEMMA UsageRecord ==
  ASSUME UsageInv, NEW k \in Keys, record(k)
  PROVE  UsageInv'
<1> USE HourFacts
<1>1. Nats
  BY NatFacts DEF UsageInv
<1>2. UNCHANGED <<batch, flushing, fkeys, stamp, stored, asking, qkeys, since,
                  agg, due, quiet, lost, hour>>
  BY DEF record, flush, query
<1>3. \A j \in Keys : live'[j] = IF j = k THEN live[j] + 1 ELSE live[j]
  BY DEF record, UsageInv, UsageTypeOK, Counts
<1>4. \A h \in Hours, j \in Keys :
        recorded'[h][j] = IF h <= hour /\ j = k THEN recorded[h][j] + 1
                                               ELSE recorded[h][j]
  BY DEF record, UsageInv, UsageTypeOK, Counts
<1>5. UsageTypeOK'
  <2>1. live' \in Counts
    BY <1>1 DEF record, UsageInv, UsageTypeOK, Counts, Nats
  <2>2. \A h \in Hours : [recorded[h] EXCEPT ![k] = @ + 1] \in Counts
    BY <1>1 DEF UsageInv, UsageTypeOK, Counts, Nats
  <2>3. recorded' \in [Hours -> Counts]
    BY <2>2 DEF record, UsageInv, UsageTypeOK
  <2> QED BY <1>2, <2>1, <2>3 DEF UsageInv, UsageTypeOK
<1>6. FlushInv'
  BY <1>2 DEF UsageInv, FlushInv
<1>7. Conserved'
  BY <1>1, <1>2, <1>3, <1>4 DEF UsageInv, Conserved, Nats
<1>8. NeverBackdated'
  BY <1>1, <1>2, <1>3, <1>4 DEF UsageInv, NeverBackdated, Nats
<1>9. HourInv'
  BY <1>1, <1>2, <1>3, <1>4 DEF UsageInv, HourInv, Nats
<1>10. NoOvercount'
  BY <1>1, <1>2, <1>4 DEF UsageInv, NoOvercount, Nats
<1>11. QueryInv'
  <2>1. \A j \in Keys : live[j] <= live'[j] /\ live'[j] \in Nat
    BY <1>1, <1>3 DEF Nats
  <2>2. qkeys \subseteq Keys
    BY DEF UsageInv, UsageTypeOK
  <2> QED BY <1>1, <1>2, <2>1, <2>2 DEF UsageInv, QueryInv, Nats
<1> QED BY <1>5, <1>6, <1>7, <1>8, <1>9, <1>10, <1>11 DEF UsageInv

(* The flush loop wakes up (flush). *)
LEMMA UsageFlushStart ==
  ASSUME UsageInv, FlushStart
  PROVE  UsageInv'
<1>1. UNCHANGED <<live, batch, stamp, stored, asking, qkeys, since, agg, due,
                  recorded, lost, hour>>
  BY DEF FlushStart
<1>2. flushing = "no" /\ flushing' = "drain" /\ fkeys' = Keys /\ quiet' = FALSE
  BY DEF FlushStart
<1>3. UsageTypeOK'
  BY <1>1, <1>2 DEF UsageInv, UsageTypeOK
<1>4. FlushInv'
  BY <1>1, <1>2 DEF UsageInv, FlushInv, Zero
<1>5. Conserved' /\ NeverBackdated' /\ NoOvercount'
  BY <1>1 DEF UsageInv, Conserved, NeverBackdated, NoOvercount
<1>6. HourInv'
  BY <1>1, <1>2 DEF UsageInv, HourInv
<1>7. QueryInv'
  BY <1>1, <1>2 DEF UsageInv, QueryInv
<1> QED BY <1>3, <1>4, <1>5, <1>6, <1>7 DEF UsageInv

(* An entry moves from the live map into the batch (drain). *)
LEMMA UsageDrain ==
  ASSUME UsageInv, NEW k \in Keys, drain(k)
  PROVE  UsageInv'
<1> USE HourFacts
<1>1. Nats
  BY NatFacts DEF UsageInv
<1>2. UNCHANGED <<flushing, stamp, stored, asking, qkeys, since, agg, due,
                  quiet, recorded, lost, hour>>
  BY DEF drain, query
<1>3. flushing = "drain" /\ k \in fkeys /\ fkeys' = fkeys \ {k} /\ batch[k] = 0
  BY DEF drain, UsageInv, FlushInv
<1>4. \A j \in Keys : /\ live'[j] = IF j = k THEN 0 ELSE live[j]
                      /\ batch'[j] = IF j = k THEN live[j] ELSE batch[j]
  BY DEF drain, UsageInv, UsageTypeOK, Counts
<1>5. UsageTypeOK'
  <2>1. live' \in Counts /\ batch' \in Counts
    BY <1>1 DEF drain, UsageInv, UsageTypeOK, Counts, Nats
  <2> QED BY <1>2, <1>3, <2>1 DEF UsageInv, UsageTypeOK
<1>6. FlushInv'
  BY <1>2, <1>3, <1>4 DEF UsageInv, FlushInv, UsageTypeOK
<1>7. \A j \in Keys : /\ live'[j] + batch'[j] = live[j] + batch[j]
                      /\ live'[j] \in Nat /\ batch'[j] \in Nat
  BY <1>1, <1>3, <1>4 DEF Nats
<1>8. Conserved' /\ NeverBackdated'
  BY <1>1, <1>2, <1>7 DEF UsageInv, Conserved, NeverBackdated, Nats
<1>9. HourInv'
  BY <1>2, <1>3 DEF UsageInv, HourInv
<1>10. NoOvercount'
  BY <1>2 DEF UsageInv, NoOvercount
<1>11. QueryInv'
  BY <1>2, <1>3 DEF UsageInv, QueryInv
<1> QED BY <1>5, <1>6, <1>8, <1>9, <1>10, <1>11 DEF UsageInv

(* The batch gets its hour, or there is nothing to write (flush). *)
LEMMA UsageStamp ==
  ASSUME UsageInv, Stamp
  PROVE  UsageInv'
<1>1. Nats
  BY NatFacts DEF UsageInv
<1>2. UNCHANGED <<live, batch, fkeys, stored, asking, qkeys, since, agg, due,
                  quiet, recorded, lost, hour>>
  BY DEF Stamp, query
<1>3. /\ flushing = "drain"
      /\ \/ batch = Zero /\ flushing' = "no" /\ stamp' = stamp
         \/ flushing' = "upsert" /\ stamp' = hour
  BY DEF Stamp
<1>4. UsageTypeOK'
  BY <1>2, <1>3 DEF UsageInv, UsageTypeOK
<1>5. FlushInv'
  BY <1>2, <1>3 DEF UsageInv, FlushInv
<1>6. Conserved' /\ NeverBackdated' /\ NoOvercount'
  BY <1>2 DEF UsageInv, Conserved, NeverBackdated, NoOvercount
<1>7. HourInv'
  <2>1. \A h \in Hours, k \in Keys :
          h > hour => recorded[h][k] <= stored[h][k] + live[k] + lost[k]
    BY <1>1, HourFacts DEF UsageInv, HourInv, Nats
  <2> QED BY <1>1, <1>2, <1>3, <2>1 DEF UsageInv, HourInv, Nats
<1>8. QueryInv'
  BY <1>2, <1>3 DEF UsageInv, QueryInv
<1> QED BY <1>4, <1>5, <1>6, <1>7, <1>8 DEF UsageInv

(* The batch becomes part of the table (upsert_usage). *)
LEMMA UsageUpsertusage ==
  ASSUME UsageInv, upsert_usage
  PROVE  UsageInv'
<1> USE HourFacts
<1>1. Nats
  BY NatFacts DEF UsageInv
<1>2. UNCHANGED <<live, fkeys, stamp, asking, qkeys, since, agg, due, quiet,
                  recorded, lost, hour>>
  BY DEF upsert_usage, query
<1>3. flushing = "upsert" /\ flushing' = "no" /\ batch' = Zero
  BY DEF upsert_usage
<1>4. \A h \in Hours : Add(stored[h], batch) \in Counts
  BY AddFacts DEF UsageInv, UsageTypeOK
<1>5. \A h \in Hours, k \in Keys :
        stored'[h][k] = IF h <= stamp THEN stored[h][k] + batch[k]
                                      ELSE stored[h][k]
  BY AddFacts DEF upsert_usage, UsageInv, UsageTypeOK
<1>6. \A k \in Keys : batch'[k] = 0
  BY <1>3 DEF Zero
<1>7. UsageTypeOK'
  <2>1. stored' \in [Hours -> Counts]
    BY <1>4 DEF upsert_usage, UsageInv, UsageTypeOK
  <2>2. batch' \in Counts
    BY <1>3 DEF Zero, Counts
  <2> QED BY <1>2, <1>3, <2>1, <2>2 DEF UsageInv, UsageTypeOK
<1>8. FlushInv'
  BY <1>3 DEF FlushInv
<1>9. Conserved'
  BY <1>1, <1>2, <1>5, <1>6 DEF UsageInv, Conserved, Nats
<1>10. NeverBackdated'
  <2> SUFFICES ASSUME NEW h \in Hours, NEW k \in Keys
               PROVE  recorded[h][k] <= stored'[h][k] + 0 + live[k] + lost[k]
    BY <1>2, <1>6 DEF NeverBackdated
  <2>1. CASE h <= stamp
    BY <2>1, <1>1, <1>5 DEF UsageInv, NeverBackdated, Nats
  <2>2. CASE h > stamp
    BY <2>2, <1>1, <1>3, <1>5 DEF UsageInv, HourInv, Nats
  <2> QED BY <2>1, <2>2, <1>1 DEF Nats
<1>11. HourInv'
  BY <1>1, <1>2, <1>3, <1>5 DEF UsageInv, HourInv, Nats
<1>12. NoOvercount'
  BY <1>2 DEF UsageInv, NoOvercount
<1>13. QueryInv'
  <2>1. ~(quiet /\ asking # "no")
    BY <1>3 DEF UsageInv, QueryInv
  <2>2. \A k \in Keys : stored[0][k] <= stored'[0][k] /\ stored'[0][k] \in Nat
    BY <1>1, <1>5 DEF Nats
  <2>3. qkeys \subseteq Keys
    BY DEF UsageInv, UsageTypeOK
  <2> QED BY <1>1, <1>2, <2>1, <2>2, <2>3 DEF UsageInv, QueryInv, Nats
<1> QED BY <1>7, <1>8, <1>9, <1>10, <1>11, <1>12, <1>13 DEF UsageInv

(* The transaction fails; the batch is still in hand (flush). *)
LEMMA UsageUpsertFails ==
  ASSUME UsageInv, UpsertFails
  PROVE  UsageInv'
<1>1. UNCHANGED <<live, batch, stamp, stored, asking, qkeys, since, agg, due,
                  quiet, recorded, lost, hour>>
  BY DEF UpsertFails, query
<1>2. flushing = "upsert" /\ flushing' = "merge" /\ fkeys' = Keys
  BY DEF UpsertFails
<1>3. UsageTypeOK'
  BY <1>1, <1>2 DEF UsageInv, UsageTypeOK
<1>4. FlushInv'
  BY <1>2 DEF FlushInv
<1>5. Conserved' /\ NeverBackdated' /\ NoOvercount'
  BY <1>1 DEF UsageInv, Conserved, NeverBackdated, NoOvercount
<1>6. HourInv'
  BY <1>1, <1>2 DEF UsageInv, HourInv
<1>7. QueryInv'
  BY <1>1, <1>2 DEF UsageInv, QueryInv
<1> QED BY <1>3, <1>4, <1>5, <1>6, <1>7 DEF UsageInv

(* An entry of a refused batch is added to the live map (merge_back). *)
LEMMA UsageMergeback ==
  ASSUME UsageInv, NEW k \in Keys, merge_back(k)
  PROVE  UsageInv'
<1> USE HourFacts
<1>1. Nats
  BY NatFacts DEF UsageInv
<1>2. UNCHANGED <<stamp, stored, asking, qkeys, since, agg, due, quiet,
                  recorded, lost, hour>>
  BY DEF merge_back, query
<1>3. /\ flushing = "merge" /\ k \in fkeys /\ fkeys' = fkeys \ {k}
      /\ flushing' = IF fkeys = {k} THEN "no" ELSE "merge"
  BY DEF merge_back
<1>4. \A j \in Keys : /\ live'[j] = IF j = k THEN live[j] + batch[j] ELSE live[j]
                      /\ batch'[j] = IF j = k THEN 0 ELSE batch[j]
  BY DEF merge_back, UsageInv, UsageTypeOK, Counts
<1>5. live' \in Counts /\ batch' \in Counts
  BY <1>1 DEF merge_back, UsageInv, UsageTypeOK, Counts, Nats
<1>6. UsageTypeOK'
  BY <1>2, <1>3, <1>5 DEF UsageInv, UsageTypeOK
<1>7. FlushInv'
  <2>1. \A j \in Keys \ fkeys' : batch'[j] = 0
    BY <1>3, <1>4 DEF UsageInv, FlushInv
  <2>2. CASE fkeys = {k}
    <3>1. \A j \in Keys : batch'[j] = 0
      BY <1>3, <2>1, <2>2
    <3>2. batch' = Zero
      BY <3>1, <1>5 DEF Zero, Counts
    <3> QED BY <1>3, <2>2, <3>2 DEF FlushInv
  <2>3. CASE fkeys # {k}
    BY <1>3, <2>1, <2>3 DEF FlushInv
  <2> QED BY <2>2, <2>3
<1>8. \A j \in Keys : /\ live'[j] + batch'[j] = live[j] + batch[j]
                      /\ live'[j] \in Nat /\ batch'[j] \in Nat
                      /\ live[j] <= live'[j]
  BY <1>1, <1>4 DEF Nats
<1>9. Conserved' /\ NeverBackdated'
  BY <1>1, <1>2, <1>8 DEF UsageInv, Conserved, NeverBackdated, Nats
<1>10. HourInv'
  BY <1>2, <1>3 DEF UsageInv, HourInv
<1>11. NoOvercount'
  BY <1>2 DEF UsageInv, NoOvercount
<1>12. QueryInv'
  BY <1>2, <1>3 DEF UsageInv, QueryInv
<1> QED BY <1>6, <1>7, <1>9, <1>10, <1>11, <1>12 DEF UsageInv

(* A query reads the table (query). *)
LEMMA UsageQueryTable ==
  ASSUME UsageInv, NEW h \in Hours, QueryTable(h)
  PROVE  UsageInv'
<1> USE HourFacts
<1>1. Nats
  BY NatFacts DEF UsageInv
<1>2. UNCHANGED <<live, batch, flushing, fkeys, stamp, stored, recorded, lost,
                  hour>>
  BY DEF QueryTable, flush
<1>3. /\ asking' = "walk" /\ since' = h /\ qkeys' = Keys /\ agg' = stored[h]
      /\ quiet' = (flushing = "no")
  BY DEF QueryTable
<1>4. \A k \in Keys : due'[k] = IF recorded[h][k] > lost[k]
                                  THEN recorded[h][k] - lost[k] ELSE 0
  BY DEF QueryTable
<1>5. UsageTypeOK'
  <2>1. due' \in Counts
    BY <1>1 DEF QueryTable, Counts, Nats
  <2>2. agg' \in Counts
    BY <1>3 DEF UsageInv, UsageTypeOK
  <2>3. quiet' \in BOOLEAN
    BY <1>3
  <2> QED BY <1>2, <1>3, <2>1, <2>2, <2>3 DEF UsageInv, UsageTypeOK
<1>6. FlushInv' /\ Conserved' /\ NeverBackdated' /\ HourInv'
  BY <1>2 DEF UsageInv, FlushInv, Conserved, NeverBackdated, HourInv
<1>7. \A k \in Keys : agg'[k] = stored[h][k] /\ agg'[k] <= stored[0][k]
  BY <1>3 DEF UsageInv, HourInv
<1>8. NoOvercount'
  BY <1>1, <1>2, <1>7 DEF UsageInv, Conserved, NoOvercount, Nats
<1>9. QueryInv'
  <2>1. ASSUME quiet', NEW k \in Keys PROVE due'[k] <= agg'[k] + live'[k]
    <3>1. batch[k] = 0
      BY <2>1, <1>3 DEF UsageInv, FlushInv, Zero
    <3>2. recorded[h][k] <= stored[h][k] + live[k] + lost[k]
      BY <1>1, <3>1 DEF UsageInv, NeverBackdated, Nats
    <3> QED BY <1>1, <1>2, <1>4, <1>7, <3>2 DEF Nats
  <2>2. quiet' => flushing' = "no"
    BY <1>2, <1>3
  <2> QED BY <1>2, <1>3, <1>7, <2>1, <2>2 DEF QueryInv
<1> QED BY <1>5, <1>6, <1>8, <1>9 DEF UsageInv

(* A query adds one entry of the live map (query). *)
LEMMA UsageQueryLive ==
  ASSUME UsageInv, NEW k \in Keys, QueryLive(k)
  PROVE  UsageInv'
<1> USE HourFacts
<1>1. Nats
  BY NatFacts DEF UsageInv
<1>2. UNCHANGED <<live, batch, flushing, fkeys, stamp, stored, since, due,
                  quiet, recorded, lost, hour>>
  BY DEF QueryLive, flush
<1>3. /\ asking = "walk" /\ k \in qkeys /\ qkeys' = qkeys \ {k}
      /\ asking' = IF qkeys = {k} THEN "done" ELSE "walk"
  BY DEF QueryLive
<1>4. \A j \in Keys : agg'[j] = IF j = k THEN agg[j] + live[j] ELSE agg[j]
  BY DEF QueryLive, UsageInv, UsageTypeOK, Counts
<1>5. UsageTypeOK'
  <2>1. agg' \in Counts
    BY <1>1 DEF QueryLive, UsageInv, UsageTypeOK, Counts, Nats
  <2> QED BY <1>2, <1>3, <2>1 DEF UsageInv, UsageTypeOK
<1>6. FlushInv' /\ Conserved' /\ NeverBackdated' /\ HourInv'
  BY <1>2 DEF UsageInv, FlushInv, Conserved, NeverBackdated, HourInv
<1>7. NoOvercount'
  <2>1. agg[k] <= stored[0][k]
    BY <1>3 DEF UsageInv, QueryInv
  <2>2. agg'[k] <= recorded[0][k]
    BY <1>1, <1>4, <2>1 DEF UsageInv, Conserved, Nats
  <2> QED BY <1>2, <1>4, <2>2 DEF UsageInv, NoOvercount
<1>8. QueryInv'
  <2>1. qkeys \subseteq Keys
    BY DEF UsageInv, UsageTypeOK
  <2>2. \A j \in qkeys' : agg'[j] = agg[j] /\ j \in qkeys /\ j \in Keys
    BY <1>3, <1>4, <2>1
  <2>3. ASSUME quiet, NEW j \in Keys \ qkeys' PROVE due[j] <= agg'[j]
    BY <1>3, <1>4, <2>3 DEF UsageInv, QueryInv
  <2>4. asking' = "done" => qkeys' = {}
    BY <1>3
  <2> QED BY <1>2, <1>3, <2>2, <2>3, <2>4 DEF UsageInv, QueryInv
<1> QED BY <1>5, <1>6, <1>7, <1>8 DEF UsageInv

(* A query returns (query). *)
LEMMA UsageQueryAnswered ==
  ASSUME UsageInv, QueryAnswered
  PROVE  UsageInv'
<1>1. Nats
  BY NatFacts DEF UsageInv
<1>2. UNCHANGED <<live, batch, flushing, fkeys, stamp, stored, qkeys,
                  recorded, lost, hour>>
  BY DEF QueryAnswered, flush
<1>3. asking' = "no" /\ agg' = Zero /\ due' = Zero /\ since' = 0 /\ quiet' = TRUE
  BY DEF QueryAnswered
<1>4. UsageTypeOK'
  <2>1. Zero \in Counts
    BY DEF Zero, Counts
  <2> QED BY <1>2, <1>3, <2>1, HourFacts DEF UsageInv, UsageTypeOK
<1>5. FlushInv' /\ Conserved' /\ NeverBackdated' /\ HourInv'
  BY <1>2 DEF UsageInv, FlushInv, Conserved, NeverBackdated, HourInv
<1>6. NoOvercount'
  BY <1>1, <1>2, <1>3, HourFacts DEF NoOvercount, Zero, Nats
<1>7. QueryInv'
  BY <1>3 DEF QueryInv
<1> QED BY <1>4, <1>5, <1>6, <1>7 DEF UsageInv

(* The process dies, and what was in memory with it. *)
LEMMA UsageCrash ==
  ASSUME UsageInv, Crash
  PROVE  UsageInv'
<1> USE HourFacts
<1>1. Nats
  BY NatFacts DEF UsageInv
<1>2. UNCHANGED <<stamp, stored, recorded, hour>>
  BY DEF Crash
<1>3. /\ live' = Zero /\ batch' = Zero /\ agg' = Zero /\ due' = Zero
      /\ flushing' = "no" /\ asking' = "no" /\ fkeys' = {} /\ qkeys' = {}
      /\ since' = 0 /\ quiet' = TRUE
  BY DEF Crash
<1>4. \A k \in Keys : /\ live'[k] = 0 /\ batch'[k] = 0 /\ agg'[k] = 0
                      /\ lost'[k] = lost[k] + live[k] + batch[k]
  BY <1>3 DEF Crash, Zero
<1>5. UsageTypeOK'
  <2>1. Zero \in Counts
    BY DEF Zero, Counts
  <2>2. lost' \in Counts
    BY <1>1 DEF Crash, Counts, Nats
  <2> QED BY <1>2, <1>3, <2>1, <2>2 DEF UsageInv, UsageTypeOK
<1>6. FlushInv' /\ QueryInv'
  BY <1>3 DEF FlushInv, QueryInv
<1>7. Conserved' /\ NeverBackdated'
  BY <1>1, <1>2, <1>4 DEF UsageInv, Conserved, NeverBackdated, Nats
<1>8. HourInv'
  BY <1>2, <1>3 DEF UsageInv, HourInv
<1>9. NoOvercount'
  BY <1>1, <1>2, <1>4 DEF NoOvercount, Nats
<1> QED BY <1>5, <1>6, <1>7, <1>8, <1>9 DEF UsageInv

(* The clock reaches the next hour. *)
LEMMA UsageNextHour ==
  ASSUME UsageInv, NextHour
  PROVE  UsageInv'
<1>1. UNCHANGED <<live, batch, flushing, fkeys, stamp, stored, asking, qkeys,
                  since, agg, due, quiet, recorded, lost>>
  BY DEF NextHour, flush, query
<1>2. hour' = hour + 1 /\ hour < MaxHour /\ hour \in Nat
  BY HourFacts DEF NextHour, UsageInv, UsageTypeOK
<1>3. hour' \in Hours
  BY <1>2, UsageAssumption DEF Hours
<1>4. UsageTypeOK'
  BY <1>1, <1>3 DEF UsageInv, UsageTypeOK
<1>5. FlushInv' /\ Conserved' /\ NeverBackdated' /\ NoOvercount' /\ QueryInv'
  BY <1>1 DEF UsageInv, FlushInv, Conserved, NeverBackdated, NoOvercount, QueryInv
<1>6. HourInv'
  <2>1. stamp \in Nat
    BY HourFacts DEF UsageInv, UsageTypeOK
  <2> QED BY <1>1, <1>2, <2>1, HourFacts DEF UsageInv, HourInv
<1> QED BY <1>4, <1>5, <1>6 DEF UsageInv

(* The steps in which nothing happens. *)
LEMMA UsageStutter == UsageInv /\ UNCHANGED usageVars => UsageInv'
BY DEF UsageInv, UsageTypeOK, FlushInv, Conserved, NeverBackdated, HourInv,
      NoOvercount, QueryInv, Counts, Zero, Hours, usageVars, flush, query

(* UsageInv is an invariant of the usage tracker (usage.rs, store/usage.rs). *)
THEOREM UsageInvariance == UsageSpec => []UsageInv
<1>1. UsageInv /\ [UsageNext]_usageVars => UsageInv'
  BY UsageRecord, UsageFlushStart, UsageDrain, UsageStamp, UsageUpsertusage,
     UsageUpsertFails, UsageMergeback, UsageQueryTable, UsageQueryLive,
     UsageQueryAnswered, UsageCrash, UsageNextHour, UsageStutter
     DEF UsageNext, flushStep, queryStep
<1> QED BY UsageInitInv, <1>1, PTL DEF UsageSpec

(* Type correctness of the tracker's state. *)
THEOREM UsageTypeCorrect == UsageSpec => []UsageTypeOK
<1>1. UsageInv => UsageTypeOK
  BY DEF UsageInv
<1> QED BY UsageInvariance, <1>1, PTL

(* Counts are neither lost nor duplicated by flushing, whatever fails and
   whatever is recorded meanwhile (flush, drain, merge_back). *)
THEOREM CountsConserved == UsageSpec => []Conserved
<1>1. UsageInv => Conserved
  BY DEF UsageInv
<1> QED BY UsageInvariance, <1>1, PTL

(* No count is booked to an hour before it was recorded (flush's ts_hour). *)
THEOREM CountsNeverBackdated == UsageSpec => []NeverBackdated
<1>1. UsageInv => NeverBackdated
  BY DEF UsageInv
<1> QED BY UsageInvariance, <1>1, PTL

(* A query racing with a flush never counts anything twice (query). *)
THEOREM QueriesNeverOvercount == UsageSpec => []NoOvercount
<1>1. UsageInv => NoOvercount
  BY DEF UsageInv
<1> QED BY UsageInvariance, <1>1, PTL

(* A query that no flush overlaps misses nothing (query). *)
THEOREM QuietQueriesComplete == UsageSpec => []QuietQueryComplete
<1>1. UsageInv => QuietQueryComplete
  BY DEF UsageInv, QueryInv, QuietQueryComplete
<1> QED BY UsageInvariance, <1>1, PTL

-----------------------------------------------------------------------------
(* Routes and forwarding. *)

USE RouteAssumption, ForwardAssumption

(* What is in memory, and what is about to be, are versions of the table. *)
VersionInv ==
  /\ db \in history
  /\ table \in history
  /\ \A w \in Workers : pc[w] = "install" => snap[w] \in history

-----------------------------------------------------------------------------
(* Every row a management call stores is a row. *)
LEMMA InsertedRow ==
  ASSUME NEW r, valid_route(r)
  PROVE  [host |-> r.host, over |-> r.over, backup |-> r.backup, enabled |-> TRUE] \in Row
BY DEF valid_route, validate_host, valid_override, Row, Upstreams

LEMMA EditedRow ==
  ASSUME NEW row \in Row, NEW e \in Edits,
         e.over \notin {Keep, None} => valid_override(e.over),
         e.backup \notin {Keep, None} => valid_override(e.backup)
  PROVE  Edited(row, e) \in Row
<1>1. Changed(row.over, e.over) \in Upstreams \cup {None}
  BY DEF Changed, valid_override, Row, Upstreams
<1>2. Changed(row.backup, e.backup) \in Upstreams \cup {None}
  BY DEF Changed, valid_override, Row, Upstreams
<1>3. Changed(row.enabled, e.enabled) \in BOOLEAN
  BY DEF Changed, Row
<1> QED BY <1>1, <1>2, <1>3 DEF Edited, Row

(* A store of a table keeps the types and extends the versions. *)
LEMMA StoreStep ==
  ASSUME RouteTypeOK, VersionInv, NEW t \in Tables, NEW w \in Workers,
         Store(t), Reloading(w)
  PROVE  /\ RouteTypeOK' /\ VersionInv'
         /\ db' \in history' /\ history' = history \cup {db'} /\ UNCHANGED table
<1>1. RouteTypeOK'
  BY DEF RouteTypeOK, Store, Reloading
<1>2. VersionInv'
  BY DEF RouteTypeOK, VersionInv, Store, Reloading
<1> QED BY <1>1, <1>2 DEF Store, Reloading

(* A management step either writes the table, adding a version, or installs a
   version in memory, or does neither. *)
LEMMA ManageStep ==
  ASSUME RouteTypeOK, VersionInv, NEW w \in Workers, Manage(w)
  PROVE  /\ RouteTypeOK' /\ VersionInv'
         /\ \/ history' = history \cup {db'} /\ UNCHANGED table
            \/ table' \in history /\ UNCHANGED <<db, history>>
<1>1. ASSUME NEW n \in Names, NEW r \in NewRoutes, create_route(w, n, r)
      PROVE  RouteTypeOK' /\ VersionInv' /\ history' = history \cup {db'} /\ UNCHANGED table
  <2> DEFINE t == [db EXCEPT ![n] = [host |-> r.host, over |-> r.over,
                                     backup |-> r.backup, enabled |-> TRUE]]
  <2>1. t \in Tables
    BY <1>1, InsertedRow DEF create_route, RouteTypeOK, Tables
  <2>2. Store(t) /\ Reloading(w)
    BY <1>1 DEF create_route, insert_route
  <2> QED BY <2>1, <2>2, StoreStep
<1>2. ASSUME NEW n \in Names, NEW e \in Edits, update_route(w, n, e)
      PROVE  RouteTypeOK' /\ VersionInv' /\ history' = history \cup {db'} /\ UNCHANGED table
  <2> DEFINE t == [db EXCEPT ![n] = Edited(db[n], e)]
  <2>1. db[n] \in Row
    BY <1>2 DEF update_route, RouteTypeOK, Tables
  <2>2. Edited(db[n], e) \in Row
    BY <1>2, <2>1, EditedRow DEF update_route
  <2>3. t \in Tables
    BY <2>2 DEF RouteTypeOK, Tables
  <2>4. Store(t) /\ Reloading(w)
    BY <1>2 DEF update_route
  <2> QED BY <2>3, <2>4, StoreStep
<1>3. ASSUME NEW n \in Names, delete_route(w, n)
      PROVE  RouteTypeOK' /\ VersionInv' /\ history' = history \cup {db'} /\ UNCHANGED table
  <2> DEFINE t == [db EXCEPT ![n] = NoRow]
  <2>1. t \in Tables
    BY DEF RouteTypeOK, Tables
  <2>2. Store(t) /\ Reloading(w)
    BY <1>3 DEF delete_route
  <2> QED BY <2>1, <2>2, StoreStep
<1>4. CASE ReloadList(w)
  BY <1>4 DEF ReloadList, RouteTypeOK, VersionInv
<1>5. CASE ReloadFails(w)
  BY <1>5 DEF ReloadFails, RouteTypeOK, VersionInv
<1>6. CASE ReloadInstall(w)
  <2>1. [n \in Names |-> NoRow] \in Tables
    BY DEF Tables
  <2> QED BY <1>6, <2>1 DEF ReloadInstall, RouteTypeOK, VersionInv
<1> QED BY <1>1, <1>2, <1>3, <1>4, <1>5, <1>6 DEF Manage

-----------------------------------------------------------------------------
(* The routes the data plane resolves against, in every behaviour of the
   server, are those of a table with a view that lags. *)
RouteInv == RouteTypeOK /\ VersionInv

LEMMA RouteInvInit == Init => RouteInv
<1> SUFFICES ASSUME Init PROVE RouteInv
  OBVIOUS
<1>1. [n \in Names |-> NoRow] \in Tables
  BY DEF Tables
<1> QED BY <1>1 DEF Init, RouteInit, RouteInv, RouteTypeOK, VersionInv

LEMMA RouteStep ==
  ASSUME RouteInv, [Next]_vars
  PROVE  /\ RouteInv'
         /\ \/ history' = history \cup {db'} /\ UNCHANGED table
            \/ table' \in history /\ UNCHANGED <<db, history>>
<1>1. CASE \E w \in Workers : Manage(w)
  BY <1>1, ManageStep DEF RouteInv
<1>2. CASE UNCHANGED routeVars
  BY <1>2 DEF RouteInv, RouteTypeOK, VersionInv, routeVars
<1>3. ASSUME NEW r \in Reqs, NEW t \in Targets, NEW m \in Methods,
             Refused(r, t, m) \/ Arrive(r, t, m)
      PROVE  UNCHANGED routeVars
  BY <1>3 DEF Refused, Arrive
<1>4. ASSUME NEW r \in Reqs, Handle(r)
      PROVE  UNCHANGED routeVars
  BY <1>4 DEF Handle, Serve, BodyRefused, BodyRead, execute_attempt, Failover, Finish,
              StreamChunk, StreamEnd
<1> QED BY <1>1, <1>2, <1>3, <1>4 DEF Next, vars

(* The route table implements LaggingTable: whatever calls overlap and
   whichever reload fails or is overtaken, the map behind RouteTable::resolve
   is one whole version of the routes table. *)
THEOREM RoutesLagBehindStore == Spec => LagsBehindStore
<1>1. Init => Lagging!LTInit
  BY DEF Init, RouteInit, Lagging!LTInit
<1>2. RouteInv /\ [Next]_vars => [Lagging!Write \/ Lagging!Refresh]_<<db, table, history>>
  <2> SUFFICES ASSUME RouteInv, [Next]_vars
               PROVE  [Lagging!Write \/ Lagging!Refresh]_<<db, table, history>>
    OBVIOUS
  <2>1. CASE history' = history \cup {db'} /\ UNCHANGED table
    <3>1. CASE db' = db
      BY <2>1, <3>1 DEF RouteInv, VersionInv
    <3>2. CASE db' # db
      BY <2>1, <3>2 DEF Lagging!Write
    <3> QED BY <3>1, <3>2
  <2>2. CASE table' \in history /\ UNCHANGED <<db, history>>
    BY <2>2 DEF Lagging!Refresh
  <2> QED BY <2>1, <2>2, RouteStep
<1>3. RouteInv /\ [Next]_vars => RouteInv'
  BY RouteStep
<1> QED BY <1>1, <1>2, <1>3, RouteInvInit, PTL DEF Spec, LagsBehindStore, Lagging!LTSpec

-----------------------------------------------------------------------------
(* The edge u is one that some version of the route of request r names. *)
Named(r, u) ==
  \E t \in history : /\ t[ctx[r].route] # NoRow
                     /\ u \in {pick_upstream(t[ctx[r].route]), t[ctx[r].route].backup}

(* A request that is under way is bound for such an edge, and one that has not
   begun has been sent nowhere. *)
BoundInv ==
  \A r \in Reqs :
    /\ stage[r] = "new" => sends[r] = NotSent
    /\ stage[r] \in {"routed", "send", "judge"} => edge[r] \in Upstreams /\ Named(r, edge[r])

SentInv ==
  \A r \in Reqs : \A u \in sends[r].edges : Named(r, u)

FInv == TypeOK /\ VersionInv /\ BoundInv /\ SentInv

(* What a target's credentials are made of. *)
LEMMA CredentialTypes ==
  ASSUME NEW t \in Targets
  PROVE  credentials(t) \in [token : Tokens \cup {None},
                             route : Tokens \cup Names \cup {BadInput, None}]
<1>1. /\ t.path \in Seq(Tokens \cup Names \cup {BadInput})
      /\ t.header \in Tokens \cup {None}
  BY DEF Target
<1>2. t.path # <<>> => t.path[1] \in Tokens \cup Names \cup {BadInput}
  BY <1>1
<1>3. Len(t.path) > 1 => t.path[2] \in Tokens \cup Names \cup {BadInput}
  BY <1>1
<1> QED BY <1>1, <1>2, <1>3 DEF credentials

(* Routes change, no request moves: versions are only added. *)
LEMMA ManageKeeps ==
  ASSUME FInv, NEW w \in Workers, Manage(w), UNCHANGED reqVars
  PROVE  FInv'
<1>1. RouteTypeOK' /\ VersionInv' /\ history \subseteq history'
  BY ManageStep DEF FInv, TypeOK
<1>2. TypeOK'
  BY <1>1 DEF FInv, TypeOK, reqVars
<1>3. ASSUME NEW r \in Reqs, NEW u, Named(r, u)
      PROVE  Named(r, u)'
  BY <1>1, <1>3 DEF Named, reqVars, pick_upstream
<1>4. BoundInv'
  BY <1>3 DEF FInv, BoundInv, reqVars
<1>5. SentInv'
  BY <1>3 DEF FInv, SentInv, reqVars
<1> QED BY <1>1, <1>2, <1>4, <1>5 DEF FInv

(* A step that leaves the routes, the contexts and the counts alone and binds
   the requests it moves to edges they may go to. *)
LEMMA QuietStep ==
  ASSUME FInv, TypeOK', UNCHANGED <<routeVars, ctx, sends>>,
         \A r \in Reqs : stage'[r] = "new" => stage[r] = "new",
         \A r \in Reqs : stage'[r] \in {"routed", "send", "judge"} =>
                            edge'[r] \in Upstreams /\ Named(r, edge'[r])
  PROVE  FInv'
<1>1. ASSUME NEW r \in Reqs, NEW u, Named(r, u)
      PROVE  Named(r, u)'
  BY <1>1 DEF Named, routeVars, pick_upstream
<1>2. VersionInv'
  BY DEF FInv, VersionInv, routeVars
<1>3. BoundInv'
  BY <1>1 DEF FInv, BoundInv
<1>4. SentInv'
  BY <1>1 DEF FInv, SentInv
<1> QED BY <1>2, <1>3, <1>4 DEF FInv

LEMMA RefusedKeeps ==
  ASSUME FInv, NEW r \in Reqs, NEW t \in Targets, NEW m \in Methods, Refused(r, t, m)
  PROVE  FInv'
<1>1. auth_middleware(t) \in Answers
  BY DEF Refused, auth_middleware, Answers
<1>2. TypeOK'
  BY <1>1 DEF FInv, TypeOK, RouteTypeOK, routeVars, Refused, Answer
<1>3. stage' = [stage EXCEPT ![r] = "done"] /\ UNCHANGED <<routeVars, ctx, sends, edge>>
  BY DEF Refused, Answer
<1>4. \A q \in Reqs : stage'[q] \in {stage[q], "done"}
  BY <1>3 DEF FInv, TypeOK
<1> QED BY <1>2, <1>3, <1>4, QuietStep DEF FInv, BoundInv

(* A request that is admitted is bound for the edge its route's row in memory,
   a version of the table, names. *)
LEMMA ArriveKeeps ==
  ASSUME FInv, NEW r \in Reqs, NEW t \in Targets, NEW m \in Methods, Arrive(r, t, m)
  PROVE  FInv'
<1> DEFINE c == credentials(t)
<1>0. c \in [token : Tokens \cup {None}, route : Tokens \cup Names \cup {BadInput, None}]
  BY CredentialTypes
<1>1. resolvable(table, c.route) =>
        /\ table[c.route] # NoRow
        /\ pick_upstream(table[c.route]) \in Upstreams
  BY DEF resolvable, pick_upstream, FInv, TypeOK, RouteTypeOK, Tables, Row, Upstreams
<1> HIDE DEF c
<1>2. /\ stage[r] = "new" /\ ctx' = [ctx EXCEPT ![r] = c]
      /\ UNCHANGED <<routeVars, sends>>
      /\ \/ /\ resolvable(table, c.route)
            /\ edge' = [edge EXCEPT ![r] = pick_upstream(table[c.route])]
            /\ stage' = [stage EXCEPT ![r] = "routed"] /\ UNCHANGED answer
         \/ /\ stage' = [stage EXCEPT ![r] = "done"] /\ UNCHANGED edge
            /\ answer' = [answer EXCEPT ![r] = "404"]
  BY DEF Arrive, Goto, Answer, c
<1>3. TypeOK'
  <2>1. RouteTypeOK'
    BY <1>2 DEF FInv, TypeOK, RouteTypeOK, routeVars
  <2>2. ctx' \in [Reqs -> [token : Tokens \cup {None},
                          route : Tokens \cup Names \cup {BadInput, None}]]
    BY <1>0, <1>2 DEF FInv, TypeOK
  <2>3. edge' \in [Reqs -> Upstreams \cup {None}]
    BY <1>1, <1>2 DEF FInv, TypeOK
  <2>4. /\ stage' \in [Reqs -> {"new", "routed", "send", "judge", "stream", "done"}]
        /\ answer' \in [Reqs -> Answers]
    BY <1>2 DEF FInv, TypeOK, Answers
  <2>5. method' \in [Reqs -> Methods]
    BY DEF FInv, TypeOK, Arrive
  <2>6. UNCHANGED <<onBackup, attempt, last, sends, counted, chunks, metered>>
    BY DEF Arrive
  <2> QED BY <2>1, <2>2, <2>3, <2>4, <2>5, <2>6 DEF FInv, TypeOK
<1>4. VersionInv'
  BY <1>2 DEF FInv, VersionInv, routeVars
<1>5. ASSUME NEW q \in Reqs, NEW u, q # r, Named(q, u)
      PROVE  Named(q, u)'
  BY <1>2, <1>5 DEF Named, FInv, TypeOK, routeVars, pick_upstream
<1>6. ASSUME stage'[r] = "routed" PROVE edge'[r] \in Upstreams /\ Named(r, edge[r])'
  <2>1. resolvable(table, c.route) /\ edge'[r] = pick_upstream(table[c.route])
    BY <1>2, <1>6 DEF FInv, TypeOK
  <2>2. ctx'[r] = c /\ history' = history /\ table \in history
    BY <1>2 DEF FInv, TypeOK, VersionInv, routeVars
  <2> QED BY <1>1, <2>1, <2>2 DEF Named, pick_upstream
<1>7. BoundInv'
  <2> SUFFICES ASSUME NEW q \in Reqs
               PROVE  /\ stage'[q] = "new" => sends'[q] = NotSent
                      /\ stage'[q] \in {"routed", "send", "judge"} =>
                           edge'[q] \in Upstreams /\ Named(q, edge[q])'
    BY DEF BoundInv
  <2>1. CASE q = r
    BY <1>2, <1>6, <2>1 DEF FInv, TypeOK
  <2>2. CASE q # r
    BY <1>2, <1>5, <2>2 DEF FInv, TypeOK, BoundInv
  <2> QED BY <2>1, <2>2
<1>8. SentInv'
  <2> SUFFICES ASSUME NEW q \in Reqs, NEW u \in sends'[q].edges
               PROVE  Named(q, u)'
    BY DEF SentInv
  <2>1. q # r
    BY <1>2 DEF FInv, BoundInv, NotSent
  <2> QED BY <1>2, <1>5, <2>1 DEF FInv, SentInv
<1> QED BY <1>3, <1>4, <1>7, <1>8 DEF FInv

(* One attempt: the count of the edge the request is bound for may grow. *)
LEMMA AttemptKeeps ==
  ASSUME FInv, NEW r \in Reqs, NEW o \in Outcomes, execute_attempt(r, o)
  PROVE  FInv'
<1>1. stage[r] = "send" /\ UNCHANGED <<routeVars, ctx, edge>>
  BY DEF execute_attempt
<1>2. stage' = stage \/ stage' = [stage EXCEPT ![r] = "judge"]
  BY DEF execute_attempt
<1>3. sends' = sends \/ sends' = [sends EXCEPT ![r] = Sent(sends[r], edge[r])]
  BY DEF execute_attempt
<1>4. TypeOK'
  <2>1. sends' \in [Reqs -> Deliveries]
    <3>1. edge[r] \in Upstreams /\ sends \in [Reqs -> Deliveries]
      BY <1>1 DEF FInv, TypeOK, BoundInv
    <3>2. Sent(sends[r], edge[r]) \in Deliveries
      BY <3>1 DEF Sent, Deliveries
    <3> QED BY <1>3, <3>1, <3>2
  <2>2. attempt' \in [Reqs -> Nat] /\ last' \in [Reqs -> Outcomes]
    <3>1. attempt \in [Reqs -> Nat] /\ last \in [Reqs -> Outcomes]
      BY DEF FInv, TypeOK
    <3>2. \/ attempt' = [attempt EXCEPT ![r] = attempt[r] + 1] /\ last' = last
          \/ attempt' = [attempt EXCEPT ![r] = 0] /\ last' = [last EXCEPT ![r] = o]
      BY DEF execute_attempt
    <3> QED BY <3>1, <3>2
  <2>3. stage' \in [Reqs -> {"new", "routed", "send", "judge", "stream", "done"}]
    BY <1>2 DEF FInv, TypeOK
  <2>4. RouteTypeOK'
    BY <1>1 DEF FInv, TypeOK, RouteTypeOK, routeVars
  <2> QED BY <2>1, <2>2, <2>3, <2>4 DEF FInv, TypeOK, execute_attempt
<1>5. ASSUME NEW q \in Reqs, NEW u, Named(q, u)
      PROVE  Named(q, u)'
  BY <1>1, <1>5 DEF Named, routeVars, pick_upstream
<1>6. VersionInv'
  BY <1>1 DEF FInv, VersionInv, routeVars
<1>7. Named(r, edge[r])
  BY <1>1 DEF FInv, BoundInv
<1>8. \A q \in Reqs : /\ q # r => sends'[q] = sends[q]
                      /\ sends'[q].edges \subseteq sends[q].edges \cup {edge[q]}
  BY <1>3 DEF FInv, TypeOK, Sent
<1>9. BoundInv'
  <2> SUFFICES ASSUME NEW q \in Reqs
               PROVE  /\ stage'[q] = "new" => sends'[q] = NotSent
                      /\ stage'[q] \in {"routed", "send", "judge"} =>
                           edge'[q] \in Upstreams /\ Named(q, edge[q])'
    BY DEF BoundInv
  <2>1. stage'[q] = stage[q] \/ (q = r /\ stage'[q] = "judge")
    BY <1>2 DEF FInv, TypeOK
  <2>2. stage'[q] = "new" => sends'[q] = NotSent
    BY <1>1, <1>8, <2>1 DEF FInv, BoundInv
  <2>3. stage'[q] \in {"routed", "send", "judge"} => edge'[q] \in Upstreams /\ Named(q, edge[q])
    BY <1>1, <1>7, <2>1 DEF FInv, BoundInv
  <2>4. ASSUME Named(q, edge[q]) PROVE Named(q, edge[q])'
    BY <1>1, <2>4 DEF Named, routeVars, pick_upstream
  <2> QED BY <2>2, <2>3, <2>4
<1>10. SentInv'
  <2> SUFFICES ASSUME NEW q \in Reqs, NEW u \in sends'[q].edges
               PROVE  Named(q, u)
    BY <1>5 DEF SentInv
  <2>1. CASE q = r
    BY <1>7, <1>8, <2>1 DEF FInv, SentInv
  <2>2. CASE q # r
    BY <1>8, <2>2 DEF FInv, SentInv
  <2> QED BY <2>1, <2>2
<1> QED BY <1>4, <1>6, <1>9, <1>10 DEF FInv

(* The failover: the backup is read from the map as it is now, again a version
   of the table. *)
LEMMA FailoverKeeps ==
  ASSUME FInv, NEW r \in Reqs, Failover(r)
  PROVE  FInv'
<1> DEFINE b == backup_upstream(ctx[r].route)
<1>1. b \in Edges /\ b # None /\ b \in Upstreams
  BY DEF Failover, FailsOver, Upstreams
<1>2. table[ctx[r].route] # NoRow /\ b = table[ctx[r].route].backup
  BY <1>1 DEF backup_upstream
<1>3. Named(r, b)
  BY <1>2 DEF Named, FInv, VersionInv
<1> HIDE DEF b
<1>4. /\ edge' = [edge EXCEPT ![r] = b] /\ stage' = [stage EXCEPT ![r] = "send"]
      /\ UNCHANGED <<routeVars, ctx, sends>>
  BY DEF Failover, Goto, b
<1>5. TypeOK'
  BY <1>1, <1>4 DEF FInv, TypeOK, RouteTypeOK, routeVars, Failover, Goto
<1>6. \A q \in Reqs : stage'[q] \in {"routed", "send", "judge"} =>
                          edge'[q] \in Upstreams /\ Named(q, edge'[q])
  BY <1>1, <1>3, <1>4 DEF FInv, TypeOK, BoundInv
<1>7. \A q \in Reqs : stage'[q] = "new" => stage[q] = "new"
  BY <1>4 DEF FInv, TypeOK
<1> QED BY <1>4, <1>5, <1>6, <1>7, QuietStep

(* The steps that only move a request on or answer it. *)
LEMMA MoveKeeps ==
  ASSUME FInv, NEW r \in Reqs,
         BodyRefused(r) \/ BodyRead(r) \/ Finish(r) \/ StreamChunk(r) \/ StreamEnd(r)
  PROVE  FInv'
<1>1. UNCHANGED <<routeVars, ctx, sends, edge>>
  BY DEF BodyRefused, BodyRead, Finish, StreamChunk, StreamEnd
<1>2. TypeOK'
  <2>1. RouteTypeOK'
    BY <1>1 DEF FInv, TypeOK, RouteTypeOK, routeVars
  <2>2. /\ stage' \in [Reqs -> {"new", "routed", "send", "judge", "stream", "done"}]
        /\ answer' \in [Reqs -> Answers]
    <3>1. /\ stage' \in {stage} \cup {[stage EXCEPT ![r] = x] : x \in {"send", "stream", "done"}}
          /\ answer' \in {answer} \cup {[answer EXCEPT ![r] = x] : x \in {"413", "502", "upstream"}}
      BY DEF BodyRefused, BodyRead, Finish, StreamChunk, StreamEnd, Answer, Goto
    <3>2. /\ stage \in [Reqs -> {"new", "routed", "send", "judge", "stream", "done"}]
          /\ answer \in [Reqs -> Answers]
      BY DEF FInv, TypeOK
    <3> QED BY <3>1, <3>2 DEF Answers
  <2>3. /\ counted' \in [Reqs -> Nat] /\ chunks' \in [Reqs -> Nat]
        /\ metered' \in [Reqs -> Nat]
    <3>1. /\ counted' \in {counted, [counted EXCEPT ![r] = counted[r] + 1]}
          /\ chunks' \in {chunks, [chunks EXCEPT ![r] = chunks[r] + 1]}
          /\ metered' \in {metered, [metered EXCEPT ![r] = metered[r] + 1]}
      BY DEF BodyRefused, BodyRead, Finish, StreamChunk, StreamEnd
    <3>2. /\ counted \in [Reqs -> Nat] /\ chunks \in [Reqs -> Nat]
          /\ metered \in [Reqs -> Nat]
      BY DEF FInv, TypeOK
    <3> QED BY <3>1, <3>2
  <2>4. UNCHANGED <<method, onBackup, attempt, last>>
    BY DEF BodyRefused, BodyRead, Finish, StreamChunk, StreamEnd
  <2> QED BY <1>1, <2>1, <2>2, <2>3, <2>4 DEF FInv, TypeOK
<1>3. \/ stage' \in {stage, [stage EXCEPT ![r] = "done"], [stage EXCEPT ![r] = "stream"]}
      \/ stage' = [stage EXCEPT ![r] = "send"] /\ stage[r] = "routed"
  BY DEF BodyRefused, BodyRead, Finish, StreamChunk, StreamEnd, Answer, Goto
<1>4. \A q \in Reqs : \/ stage'[q] \in {stage[q], "done", "stream"}
                      \/ stage'[q] = "send" /\ stage[q] = "routed"
  BY <1>3 DEF FInv, TypeOK
<1> QED BY <1>1, <1>2, <1>4, QuietStep DEF FInv, BoundInv

LEMMA FInvStep ==
  ASSUME FInv, [Next]_vars
  PROVE  FInv'
<1>1. CASE UNCHANGED vars
  BY <1>1 DEF FInv, TypeOK, RouteTypeOK, VersionInv, BoundInv, SentInv, Named,
              pick_upstream, vars, routeVars, reqVars
<1>2. ASSUME NEW r \in Reqs, Handle(r)
      PROVE  FInv'
  BY <1>2, AttemptKeeps, FailoverKeeps, MoveKeeps DEF Handle, Serve
<1> QED BY <1>1, <1>2, ManageKeeps, RefusedKeeps, ArriveKeeps DEF Next

LEMMA FInvInit == Init => FInv
<1> SUFFICES ASSUME Init PROVE FInv
  OBVIOUS
<1>1. RouteTypeOK /\ VersionInv
  BY RouteInvInit DEF RouteInv
<1>2. TypeOK
  BY <1>1 DEF Init, TypeOK, NoCtx, Outcomes, Answers, Methods, Deliveries, NotSent
<1>3. BoundInv /\ SentInv
  BY DEF Init, BoundInv, SentInv, NotSent
<1> QED BY <1>1, <1>2, <1>3 DEF FInv

(* The state of routes and requests keeps its types. *)
THEOREM ForwardingTypeCorrect == Spec => []TypeOK
<1>1. FInv => TypeOK
  BY DEF FInv
<1> QED BY <1>1, FInvInit, FInvStep, PTL DEF Spec

(* A request reaches only edges that some version of its route named as its
   upstream or its backup, although forward_handler reads the table twice and
   calls edit and delete the route between the two. *)
THEOREM NeverMisrouted == Spec => []SentWhereRouted
<1>1. FInv => SentWhereRouted
  BY DEF FInv, SentInv, Named, SentWhereRouted
<1> QED BY <1>1, FInvInit, FInvStep, PTL DEF Spec

-----------------------------------------------------------------------------
(* How often a request that may not be repeated has been sent: not yet when it
   is handed to an edge the first time, once at most when it fails over. *)
ResendInv ==
  \A r \in Reqs :
    /\ stage[r] \in {"new", "routed"} => sends[r].times = 0 /\ ~onBackup[r]
    /\ method[r] = "bare" =>
         sends[r].times <= IF stage[r] = "send" THEN (IF onBackup[r] THEN 1 ELSE 0)
                                                ELSE (IF onBackup[r] THEN 2 ELSE 1)

LEMMA ResendStep == TypeOK /\ ResendInv /\ [Next]_vars => ResendInv'
<1> SUFFICES ASSUME TypeOK, ResendInv, [Next]_vars PROVE ResendInv'
  OBVIOUS
<1>1. \A r \in Reqs : sends[r].times \in 0 .. 3
  BY DEF TypeOK, Deliveries
<1>2. ASSUME UNCHANGED reqVars PROVE ResendInv'
  BY <1>2 DEF ResendInv, reqVars
<1>3. ASSUME NEW r \in Reqs, NEW t \in Targets, NEW m \in Methods,
             Refused(r, t, m) \/ Arrive(r, t, m)
      PROVE  ResendInv'
  BY <1>1, <1>3 DEF TypeOK, ResendInv, Refused, Arrive, Answer, Goto
<1>4. ASSUME NEW r \in Reqs, NEW o \in Outcomes, execute_attempt(r, o) PROVE ResendInv'
  <2>1. \A q \in Reqs \ {r} : /\ sends'[q] = sends[q] /\ stage'[q] = stage[q]
                              /\ method'[q] = method[q] /\ onBackup'[q] = onBackup[q]
    BY <1>4 DEF TypeOK, execute_attempt
  <2>2. method'[r] = method[r] /\ onBackup'[r] = onBackup[r] /\ stage[r] = "send"
    BY <1>4 DEF execute_attempt
  <2>3. \/ sends'[r] = sends[r]
        \/ sends'[r].times = (IF sends[r].times = 3 THEN 3 ELSE sends[r].times + 1)
    BY <1>4 DEF TypeOK, execute_attempt, Sent
  <2>4. stage'[r] = "send" /\ method[r] = "bare" => sends'[r] = sends[r]
    BY <1>4 DEF TypeOK, execute_attempt, retryable
  <2>5. stage'[r] \in {"send", "judge"}
    BY <1>4 DEF TypeOK, execute_attempt
  <2> QED BY <1>1, <2>1, <2>2, <2>3, <2>4, <2>5 DEF TypeOK, ResendInv
<1>5. ASSUME NEW r \in Reqs, Failover(r) PROVE ResendInv'
  BY <1>1, <1>5 DEF TypeOK, ResendInv, Failover, FailsOver, should_failover, Goto
<1>6. ASSUME NEW r \in Reqs, BodyRefused(r) \/ BodyRead(r) \/ Finish(r) PROVE ResendInv'
  BY <1>1, <1>6 DEF TypeOK, ResendInv, BodyRefused, BodyRead, Finish, Answer, Goto
<1>7. ASSUME NEW r \in Reqs, StreamChunk(r) \/ StreamEnd(r) PROVE ResendInv'
  BY <1>1, <1>7 DEF TypeOK, ResendInv, StreamChunk, StreamEnd, Goto
<1>8. UNCHANGED vars => UNCHANGED reqVars
  BY DEF vars
<1> QED BY <1>2, <1>3, <1>4, <1>5, <1>6, <1>7, <1>8 DEF Next, Handle, Serve

(* A request without an idempotency key that is not GET, HEAD or OPTIONS
   reaches an edge at most once for each edge it is handed to: the loop of
   execute_with_attempts never repeats it, whatever the outcome and whatever
   becomes of its route meanwhile. *)
THEOREM ResentOnlyByFailover == Spec => []ResendOnlyByFailover
<1>1. Init => ResendInv
  BY DEF Init, ResendInv, NotSent
<1>2. TypeOK /\ ResendInv => ResendOnlyByFailover
  BY DEF TypeOK, Deliveries, ResendInv, ResendOnlyByFailover
<1> QED BY <1>1, <1>2, ResendStep, ForwardingTypeCorrect, PTL DEF Spec
=============================================================================
