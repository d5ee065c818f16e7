---------------------------- MODULE QuotaMonitor ----------------------------
(* The quota monitor: server/src/monitor.rs polls the providers, stores their
   samples (core/src/store/monitor.rs), raises an alert when a sample crosses
   the threshold (core/src/alert.rs) and posts it to a webhook.  The table of
   alerts outlives the process; the health of the sources, the last percentage
   of each and the posts under way do not.

   A percentage is what Percents offers for it; the sentinel -1 stands for a
   quota nobody knows.  All three sources are polled in a fixed order; two of
   them, cf and gate_cf, are of one kind (CfCollector), the third reports two
   metrics without a quota. *)
EXTENDS Integers, Sequences, FiniteSetsExt

CONSTANTS
  Metered,     \* sources with a quota, in the order in which they are polled
  HasVercel,   \* whether a Vercel token is configured
  Percents,    \* percentages a metered source may report
  Threshold,   \* PPROXY_ALERT_THRESHOLD_PCT
  Critical,    \* CRITICAL_PCT
  Webhook,     \* whether PPROXY_ALERT_WEBHOOK_URL is configured
  MaxTicks,    \* bound: polls in a behaviour
  None

ASSUME MonitorAssumption ==
  /\ Len(Metered) \in Nat
  /\ None \notin 0 .. 200 /\ None \notin {"warning", "critical"}
  /\ Percents \subseteq 0 .. 200
  /\ Threshold \in 0 .. 100
  /\ HasVercel \in BOOLEAN /\ Webhook \in BOOLEAN
  /\ MaxTicks \in Nat

VARIABLES
  health,    \* MonitorHandle: source -> state shown by /api/quota
  last_pct,  \* last percentage evaluated, per metered source
  tick,      \* what the poll under way does next
  pending,   \* alerts whose post to the webhook is under way
  alerts,    \* table alerts: in order of identifiers
  latest,    \* table quota_snapshots: the newest percentage of each source
  ticks,     \* polls so far
  seen,      \* history: percentages stored by this process, per source
  told,      \* history: alerts this process stored, per source
  missed     \* history: alerts this process could not store, per source

monitorState == <<health, last_pct, tick, pending, seen, told, missed>>
monitorStore == <<alerts, latest, ticks>>
monitorVars == <<monitorState, monitorStore>>

Vercel == "vercel"
Src == {Metered[i] : i \in 1 .. Len(Metered)}
Sources == Src \cup {Vercel}
Sentinel == -1
Resting == [at |-> "idle", src |-> None, pct |-> Sentinel, err |-> FALSE]

Alerts == [src : Src, level : {"warning", "critical"}, read : BOOLEAN]

MonitorTypeOK ==
  /\ health \in [Sources -> {"ok", "disabled", "error", "unsupported_plan"}]
  /\ last_pct \in [Src -> Percents \cup {None}]
  /\ tick.at \in {"idle", "collect", "persist", "insert", "vercel", "metric", "prune"}
  /\ pending \subseteq 1 .. Len(alerts)
  /\ alerts \in Seq(Alerts)
  /\ ticks \in 0 .. MaxTicks

(* MonitorHandle::new and run_loop: nothing is known of earlier processes. *)
MonitorFresh ==
  /\ health' = [s \in Sources |->
                 IF s = Vercel /\ ~HasVercel THEN "disabled" ELSE "error"]
  /\ last_pct' = [s \in Src |-> None]
  /\ tick' = Resting
  /\ pending' = {}
  /\ seen' = [s \in Src |-> <<>>]
  /\ told' = [s \in Src |-> 0]
  /\ missed' = [s \in Src |-> 0]

MonitorInit ==
  /\ health = [s \in Sources |-> "disabled"]
  /\ last_pct = [s \in Src |-> None]
  /\ tick = Resting
  /\ pending = {}
  /\ alerts = <<>>
  /\ latest = [s \in Sources |-> None]
  /\ ticks = 0
  /\ seen = [s \in Src |-> <<>>]
  /\ told = [s \in Src |-> 0]
  /\ missed = [s \in Src |-> 0]

-----------------------------------------------------------------------------
(* The comparison without the last percentage: every poll above repeats it. *)
evaluate_level(last, now) ==
  IF now < Threshold THEN None
  ELSE IF now >= Critical THEN "critical" ELSE "warning"

(* evaluate_crossing: only the step from below the threshold to it raises an
   alert; a source never evaluated counts as having been below. *)
evaluate_crossing(last, now) ==
  IF now < 0 \/ now < Threshold \/ (last # None /\ last >= Threshold)
  THEN None
  ELSE IF now >= Critical THEN "critical" ELSE "warning"

(* A poll from its i-th metered source on, and what follows source s. *)
PollFrom(i) ==
  IF i <= Len(Metered)
  THEN [Resting EXCEPT !.at = "collect", !.src = Metered[i]]
  ELSE [Resting EXCEPT !.at = IF HasVercel THEN "vercel" ELSE "prune"]

After(s) == PollFrom(1 + CHOOSE k \in 1 .. Len(Metered) : Metered[k] = s)

(* The interval fires; the first poll comes at once. *)
TickBegin ==
  /\ tick.at = "idle"
  /\ ticks < MaxTicks
  /\ ticks' = ticks + 1
  /\ tick' = PollFrom(1)
  /\ UNCHANGED <<health, last_pct, pending, seen, told, missed, alerts, latest>>

(* collect_daily_requests: a timeout, a status or a body that is not what was
   asked for is an error, retried at the next poll. *)
Collect ==
  /\ tick.at = "collect"
  /\ \E p \in Percents : tick' = [tick EXCEPT !.at = "persist", !.pct = p]
  /\ UNCHANGED <<health, last_pct, pending, seen, told, missed, monitorStore>>

CollectFails ==
  /\ tick.at = "collect"
  /\ health' = [health EXCEPT ![tick.src] = "error"]
  /\ tick' = After(tick.src)
  /\ UNCHANGED <<last_pct, pending, seen, told, missed, monitorStore>>

(* persist_sample, set_ok and the evaluation, which remembers the percentage
   before it stores the alert. *)
Persist ==
  LET s == tick.src IN
  /\ tick.at = "persist"
  /\ latest' = [latest EXCEPT ![s] = tick.pct]
  /\ health' = [health EXCEPT ![s] = "ok"]
  /\ last_pct' = [last_pct EXCEPT ![s] = tick.pct]
  /\ seen' = [seen EXCEPT ![s] = Append(@, tick.pct)]
  /\ tick' = IF evaluate_crossing(last_pct[s], tick.pct) = None
             THEN After(s)
             ELSE [tick EXCEPT !.at = "insert"]
  /\ UNCHANGED <<pending, told, missed, alerts, ticks>>

(* An error of the store leaves the percentage out of the comparison. *)
PersistFails ==
  /\ tick.at = "persist"
  /\ health' = [health EXCEPT ![tick.src] = "error"]
  /\ tick' = After(tick.src)
  /\ UNCHANGED <<last_pct, pending, seen, told, missed, monitorStore>>

(* insert_alert, then the post in a task of its own. *)
InsertAlert ==
  LET s == tick.src
      level == IF tick.pct >= Critical THEN "critical" ELSE "warning" IN
  /\ tick.at = "insert"
  /\ alerts' = Append(alerts, [src |-> s, level |-> level, read |-> FALSE])
  /\ pending' = IF Webhook THEN pending \cup {Len(alerts) + 1} ELSE pending
  /\ told' = [told EXCEPT ![s] = @ + 1]
  /\ tick' = After(s)
  /\ UNCHANGED <<health, last_pct, seen, missed, latest, ticks>>

InsertAlertFails ==
  /\ tick.at = "insert"
  /\ missed' = [missed EXCEPT ![tick.src] = @ + 1]
  /\ tick' = After(tick.src)
  /\ UNCHANGED <<health, last_pct, pending, seen, told, monitorStore>>

(* collect_usage: an error, a plan without the figures, or two metrics. *)
CollectVercel ==
  /\ tick.at = "vercel"
  /\ \E outcome \in {"error", "unsupported_plan", "samples"} :
       IF outcome = "samples"
       THEN tick' = [tick EXCEPT !.at = "metric"] /\ health' = health
       ELSE /\ tick' = [Resting EXCEPT !.at = "prune"]
            /\ health' = [health EXCEPT ![Vercel] = outcome]
  /\ UNCHANGED <<last_pct, pending, seen, told, missed, monitorStore>>

(* Both metrics are stored, or tried, before the health is set; their
   percentage is the sentinel, which is never compared. *)
PersistVercel ==
  /\ tick.at = "metric"
  /\ \E ok \in BOOLEAN :
       /\ latest' = IF ok THEN [latest EXCEPT ![Vercel] = Sentinel] ELSE latest
       /\ health' = [health EXCEPT ![Vercel] = IF ok THEN "ok" ELSE "error"]
  /\ tick' = [Resting EXCEPT !.at = "prune"]
  /\ UNCHANGED <<last_pct, pending, seen, told, missed, alerts, ticks>>

(* prune_retention ends the poll; what it deletes is older than the bound on
   polls reaches. *)
Prune ==
  /\ tick.at = "prune"
  /\ tick' = Resting
  /\ UNCHANGED <<health, last_pct, pending, seen, told, missed, monitorStore>>

(* WebhookChannel::send: delivered or not, it is not tried again. *)
Post ==
  /\ \E id \in pending : pending' = pending \ {id}
  /\ UNCHANGED <<health, last_pct, tick, seen, told, missed, monitorStore>>

(* mark_alert_read: marking twice changes nothing. *)
mark_alert_read(id) ==
  /\ id \in 1 .. Len(alerts)
  /\ alerts' = [alerts EXCEPT ![id].read = TRUE]
  /\ UNCHANGED <<monitorState, latest, ticks>>

-----------------------------------------------------------------------------
(* The times a sequence of percentages comes up to the threshold. *)
Crossings(p) ==
  Cardinality({i \in 1 .. Len(p) : /\ p[i] >= Threshold
                                   /\ i = 1 \/ p[i - 1] < Threshold})

(* Every time the stored samples of a source come up to the threshold there
   is one alert, and none while they stay above: polls that failed in between
   change nothing, and the alerts that are missing are those the store
   refused. *)
AlertPerCrossing ==
  \A s \in Src :
    told[s] + missed[s] + (IF tick.at = "insert" /\ tick.src = s THEN 1 ELSE 0)
      = Crossings(seen[s])
=============================================================================
