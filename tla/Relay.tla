------------------------------- MODULE Relay -------------------------------
(***************************************************************************)
(* The relay of the API: it stores the events of analysed.impact.in in     *)
(* Redis and in PostgreSQL, one event after the other, and redelivers      *)
(* after a crash what was not committed.  Stored rows are named by the     *)
(* place in the topic of the event they were last written from.  Browsers  *)
(* that are connected also get every event; nothing of that is kept.       *)
(***************************************************************************)
EXTENDS AnalysedTopic

VARIABLES
  rpos,        \* events taken
  rcommitted,  \* the offset this process began at
  rat,         \* "idle", or the step of _handle_report that is next
  feed,        \* news:recent
  cache,       \* impact:{news_id}: at most one event per news item
  items,       \* news_items
  reports,     \* impact_reports: at most one event per report id
  audit,       \* analysis_audit: at most one event per report id
  saved        \* history: events whose last delivery was stored

tables    == <<items, reports, audit, saved>>
relayVars == <<rpos, rcommitted, rat, feed, cache, tables>>

RelayInit ==
  /\ rpos = 0 /\ rcommitted = 0
  /\ rat = "idle"
  /\ feed = {} /\ cache = {}
  /\ items = {} /\ reports = {} /\ audit = {}
  /\ saved = {}

Take ==
  /\ rat = "idle"
  /\ rpos < Len(topic)
  /\ rpos' = rpos + 1
  /\ rat' = "redis"
  /\ saved' = saved \ {rpos + 1}
  /\ UNCHANGED <<topic, faults, rcommitted, feed, cache, items, reports, audit>>

\* The first complete event of a report adds its item to the feed; an item
\* with and without summary are different members.
AddToFeed ==
  feed' = IF topic[rpos].kind # "complete" THEN feed
          ELSE feed \cup {[news |-> topic[rpos].news, summary |-> topic[rpos].summary]}

\* Redis: the feed, then the newest event of the news item; an error at
\* either is only logged.
CacheReport ==
  /\ rat = "redis"
  /\ rat' = "db"
  /\ \/ /\ AddToFeed
        /\ cache' = {k \in cache : topic[k].news # topic[rpos].news} \cup {rpos}
        /\ UNCHANGED faults
     \/ /\ Fault("redis")
        /\ AddToFeed \/ UNCHANGED feed
        /\ UNCHANGED cache
  /\ UNCHANGED <<topic, rpos, rcommitted, tables>>

\* news_items: the summary is filled, never cleared (COALESCE).
UpsertItem ==
  LET e == topic[rpos]
      old == {r \in items : r.news = e.news}
  IN  items' = (items \ old)
         \cup {[news |-> e.news, summary |-> e.summary \/ \E r \in old : r.summary]}

\* Mutant: the first event of a report stays.
UpsertReport_DoNothing ==
  reports' = IF \E k \in reports : topic[k].id = topic[rpos].id THEN reports
             ELSE reports \cup {rpos}

\* impact_reports: the last write wins.
UpsertReport ==
  reports' = {k \in reports : topic[k].id # topic[rpos].id} \cup {rpos}

\* Mutant: skeletons are audited as well.
InsertAudit_Partials ==
  audit' = IF \E k \in audit : topic[k].id = topic[rpos].id
           THEN audit ELSE audit \cup {rpos}

\* analysis_audit: the first event that is no skeleton stays.
InsertAudit ==
  audit' = IF \/ topic[rpos].kind = "analysing"
              \/ \E k \in audit : topic[k].id = topic[rpos].id
           THEN audit ELSE audit \cup {rpos}

\* _persist_to_db is one transaction; an error is logged and the event goes on.
Persist ==
  /\ rat = "db"
  /\ rat' = "idle"
  /\ \/ /\ UpsertItem /\ UpsertReport /\ InsertAudit
        /\ saved' = saved \cup {rpos}
        /\ UNCHANGED faults
     \/ /\ Fault("db")
        /\ UNCHANGED tables
  /\ UNCHANGED <<topic, rpos, rcommitted, feed, cache>>

\* Mutant: the offset after the event in hand is committed.
RelayCrash_OneMore ==
  /\ Fault("relay")
  /\ \E offset \in rcommitted..(rpos + 1) : rpos' = offset /\ rcommitted' = offset
  /\ rat' = "idle"
  /\ UNCHANGED <<topic, feed, cache, tables>>

\* The API ends, in the middle of an event or not, and starts again.  The last
\* commit may be of any offset since it began: one is made every few seconds,
\* and by consumer.stop().
RelayCrash ==
  /\ Fault("relay")
  /\ \E offset \in rcommitted..rpos : rpos' = offset /\ rcommitted' = offset
  /\ rat' = "idle"
  /\ UNCHANGED <<topic, feed, cache, tables>>

RelayNext == Take \/ CacheReport \/ Persist \/ RelayCrash

(***************************************************************************)
(* Properties of the relay.                                                *)
(***************************************************************************)
RelayTypeOK ==
  /\ rpos \in 0..Len(topic)
  /\ rcommitted \in 0..rpos
  /\ rat \in {"idle", "redis", "db"}
  /\ rat # "idle" => rpos > 0
  /\ feed \subseteq [news : News, summary : BOOLEAN]
  /\ items \subseteq [news : News, summary : BOOLEAN]
  /\ cache \subseteq DOMAIN topic
  /\ reports \subseteq DOMAIN topic
  /\ audit \subseteq DOMAIN topic
  /\ saved \subseteq DOMAIN topic

CaughtUp == rat = "idle" /\ rpos = Len(topic)

\* _handle_report, "plain last-write-wins upserts are correct": when the relay
\* has caught up, no report shows an earlier stage of its analysis than an
\* event whose last delivery was stored, also after events came again.
NewestReport ==
  CaughtUp => \A k \in saved : \E j \in reports :
                 /\ topic[j].id = topic[k].id
                 /\ Rank[topic[j].kind] >= Rank[topic[k].kind]

\* _attach_summary_later, "even a mis-ordered consumer cannot lose it": a
\* summary that was stored stays, through retries of the item that have none
\* and through redelivery of the events before it.
SummaryKept ==
  \A k \in saved : topic[k].summary => [news |-> topic[k].news, summary |-> TRUE] \in items

\* _persist_to_db, "First COMPLETE event wins": each report that shows a result
\* has one audit row, with that result.
AuditTrue ==
  /\ \A k \in audit : topic[k].kind # "analysing"
  /\ \A j, k \in audit : topic[j].id = topic[k].id => j = k
  /\ \A j \in reports : topic[j].kind # "analysing" =>
        \E k \in audit : topic[k].id = topic[j].id /\ topic[k].impacts = topic[j].impacts

=============================================================================
