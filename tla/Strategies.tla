----------------------------- MODULE Strategies -----------------------------
(***************************************************************************)
(* The rules of the paper book: one report after the other runs through a  *)
(* cascade of gates into intents, live ones and rejected ones.  What the   *)
(* book does with them is in PaperLedger, whose Evaluate leaves the        *)
(* verdict open; here it is decided.                                       *)
(***************************************************************************)
EXTENDS Integers, Sequences, SequencesExt, FiniteSets

CONSTANTS
  Enabled,         \* strategies the environment enables
  HeadwindMin,     \* HEADWIND_MIN_MAG
  CacheTicks,      \* SUE_THRESHOLD_CACHE_S
  CommentaryMode,  \* PAPER_C0_MODE: "off", "shadow", "enforce"
  Tradable,        \* symbols with a future
  Reports,         \* bound: the reports that may come
  Scores,          \* bound: surprise scores, in ascending order of good news
  Findings,        \* bound: sets of facts an extraction may return
  MaxReportsRead, MaxRuleTime, MaxRuleFaults    \* bounds

StrategyOrder == <<"headwind_short", "pead_long", "orderwin_long", "tailwind_long">>

ASSUME StrategiesAssumption ==
  /\ Enabled \subseteq Range(StrategyOrder)
  /\ HeadwindMin \in 1..5 /\ CacheTicks \in Nat \ {0} /\ Scores \subseteq Nat
  /\ CommentaryMode \in {"off", "shadow", "enforce"}
  /\ \A r \in Reports :
       /\ {r.relevant, r.filing, r.fresh, r.resultsBody} \subseteq BOOLEAN
       /\ r.type \in {"results", "order_win", "other"}
       /\ \A i \in DOMAIN r.impacts :
            r.impacts[i].sentiment \in {"negative", "neutral", "positive"}

VARIABLES
  report,       \* being evaluated
  pairs,        \* set of <<impact, strategy>> that are still to be evaluated
  intents,      \* of the report
  handled,      \* of the evaluation: "busy", "done", "raised"
  artifact,     \* MaterialityGate.loaded
  threshold,    \* _sue_thr, _sue_thr_at
  percentile,   \* history: the 90th percentile of the scores, tick by tick
  reportsRead, ruleFaults

strategyVars == <<report, pairs, intents, handled, artifact, threshold, percentile,
                  reportsRead, ruleFaults>>

NoScore  == -1
NoReport == [relevant |-> FALSE, filing |-> FALSE, fresh |-> FALSE, type |-> "other",
             resultsBody |-> FALSE, impacts |-> <<>>]
RuleTime == Len(percentile)

StrategiesInit ==
  /\ report = NoReport /\ pairs = {} /\ intents = <<>> /\ handled = "done"
  /\ artifact \in BOOLEAN
  /\ threshold = [value |-> NoScore, at |-> 0]
  /\ percentile \in {<<p>> : p \in Scores \cup {NoScore}}
  /\ reportsRead = 0 /\ ruleFaults = 0

-----------------------------------------------------------------------------
(* The world.                                                              *)

\* Surprises are announced or leave the window.
TimePasses ==
  /\ RuleTime < MaxRuleTime
  /\ \E p \in Scores \cup {NoScore} : percentile' = Append(percentile, p)
  /\ UNCHANGED <<report, pairs, intents, handled, artifact, threshold, reportsRead,
                 ruleFaults>>

-----------------------------------------------------------------------------
(* The cascade.                                                            *)

\* evaluate_report: of a relevant filing the direct impacts, each against the
\* strategies in their order.
ToEvaluate(r) ==
  IF r.relevant /\ r.filing
  THEN {i \in DOMAIN r.impacts : r.impacts[i].hop = 0} \X Enabled
  ELSE {}

Place(strategy) == CHOOSE n \in DOMAIN StrategyOrder : StrategyOrder[n] = strategy

Precedes(one, other) ==
  one[1] < other[1] \/ (one[1] = other[1] /\ Place(one[2]) <= Place(other[2]))

ReadReport ==
  /\ handled # "busy" /\ reportsRead < MaxReportsRead
  /\ reportsRead' = reportsRead + 1
  /\ \E r \in Reports :
       report' = r /\ pairs' = ToEvaluate(r)
  /\ intents' = <<>> /\ handled' = "busy"
  /\ UNCHANGED <<artifact, threshold, percentile, ruleFaults>>

\* The conditions under which a strategy has something to say at all.
Triggered(type, impact, strategy) ==
  CASE strategy = "headwind_short" ->
         impact.sentiment = "negative" /\ impact.magnitude >= HeadwindMin
    [] strategy = "pead_long"      -> type = "results"
    [] strategy = "orderwin_long"  -> impact.sentiment = "positive" /\ type = "order_win"
    [] strategy = "tailwind_long"  -> impact.sentiment = "positive" /\ impact.magnitude >= 4

\* _sue_threshold, when the query returns `asked': what is compared with, and
\* the cache afterwards.  An empty window is not remembered, and a query that
\* fails leaves the last value in force, however old.
CacheFresh == threshold.value # NoScore /\ RuleTime - threshold.at < CacheTicks

\* Mutant: a query that fails renews the old value.
Looked_Renewed(fails) ==
  LET asked == Last(percentile)
  IN  IF CacheFresh THEN [use |-> threshold.value, cache |-> threshold]
      ELSE IF fails THEN [use |-> threshold.value, cache |-> [threshold EXCEPT !.at = RuleTime]]
      ELSE [use |-> asked,
            cache |-> IF asked = NoScore THEN threshold ELSE [value |-> asked, at |-> RuleTime]]

Looked(fails) ==
  LET asked == Last(percentile)
  IN  IF CacheFresh THEN [use |-> threshold.value, cache |-> threshold]
      ELSE IF fails THEN [use |-> threshold.value, cache |-> threshold]
      ELSE [use |-> asked,
            cache |-> IF asked = NoScore THEN threshold ELSE [value |-> asked, at |-> RuleTime]]

\* An intent, with the reason it is rejected for, or "".
Intent(pair, reason) ==
  LET symbol == report.impacts[pair[1]].symbol
  IN  [impact |-> pair[1], strategy |-> pair[2], reason |-> reason,
       future |-> reason = "" /\ symbol \in Tradable
                  /\ pair[2] \in {"headwind_short", "tailwind_long"},
       score |-> NoScore, against |-> NoScore, at |-> RuleTime, blind |-> FALSE, vetoed |-> FALSE]

Keep(pair, reason) ==
  intents' = Append(intents, Intent(pair, reason)) /\ UNCHANGED <<threshold, ruleFaults>>

\* _headwind_short and _orderwin_long: materiality is a gate of the first and a
\* record of the second; without artifact, or when the features fail, the gate
\* is open.
Material(pair) ==
  \/ Keep(pair, "")
  \/ artifact /\ pair[2] = "headwind_short" /\ Keep(pair, "materiality_gated")

\* _pead_long after its first gates.
Surprise(pair) ==
  \E score \in Scores \cup {NoScore}, fails \in BOOLEAN :
    LET seen == Looked(fails)
        reason == CASE score = NoScore -> "no_sue_row"
                    [] score # NoScore /\ seen.use = NoScore -> "sue_thr_missing"
                    [] score # NoScore /\ seen.use # NoScore /\ score < seen.use -> "sue_below_thr"
                    [] OTHER -> ""
    IN  /\ fails => ~CacheFresh /\ ruleFaults < MaxRuleFaults
        /\ ruleFaults' = IF fails THEN ruleFaults + 1 ELSE ruleFaults
        /\ threshold' = seen.cache
        /\ intents' = Append(intents, [Intent(pair, reason) EXCEPT
                        !.score = score, !.against = seen.use, !.blind = fails])

\* One strategy on one impact: silent, stale, a duplicate of a live position
\* (_dup_reject; the positions are in PaperLedger), or what its own gates say.
Verdict(pair) ==
  LET triggered == Triggered(report.type, report.impacts[pair[1]], pair[2])
  IN  \/ ~triggered /\ UNCHANGED <<intents, threshold, ruleFaults>>
      \/ triggered /\ ~report.fresh /\ Keep(pair, "stale_event")
      \/ /\ triggered /\ report.fresh
         /\ \/ Keep(pair, "duplicate_position")
            \/ pair[2] = "pead_long" /\ Surprise(pair)
            \/ pair[2] \in {"headwind_short", "orderwin_long"} /\ Material(pair)
            \/ pair[2] = "tailwind_long" /\ Keep(pair, "")

Judge ==
  /\ \E pair \in pairs :
       /\ \A other \in pairs : Precedes(pair, other)
       /\ pairs' = pairs \ {pair}
       /\ Verdict(pair)
  /\ UNCHANGED <<report, handled, artifact, percentile, reportsRead>>

\* A lookup raises (positions, surprise row, list of futures): no intent of the
\* report is left.
Raises ==
  /\ handled = "busy" /\ pairs # {} /\ ruleFaults < MaxRuleFaults
  /\ ruleFaults' = ruleFaults + 1
  /\ pairs' = {} /\ intents' = <<>> /\ handled' = "raised"
  /\ UNCHANGED <<report, artifact, threshold, percentile, reportsRead>>

-----------------------------------------------------------------------------
(* The commentary veto.                                                    *)

\* veto_decision: the facts that speak against a side.
Against(strategy) ==
  IF strategy = "headwind_short"
  THEN {"guidance_reaffirmed", "one_off_quantified", "quantified_recovery"}
  ELSE {"warning_language", "hedging_high"}

\* _c0_commentary: one extraction for the report, of the first live directional
\* intent's company; a failed one finds nothing.  Shadow mode only notes it.
Directional(intent) == intent.reason = "" /\ intent.strategy \in {"headwind_short", "tailwind_long"}

ResultsGenre == report.type = "results" \/ report.resultsBody

Vetoed(intent, found) ==
  IF Directional(intent) /\ found \cap Against(intent.strategy) # {}
  THEN [intent EXCEPT !.vetoed = TRUE,
                      !.reason = IF CommentaryMode = "enforce" THEN "commentary_veto" ELSE @]
  ELSE intent

Conclude ==
  /\ handled = "busy" /\ pairs = {}
  /\ \E found \in Findings \cup {{}} :
       LET asked == CommentaryMode # "off" /\ ResultsGenre
                    /\ \E i \in DOMAIN intents : Directional(intents[i])
       IN  /\ ~asked => found = {}
           /\ intents' = [i \in DOMAIN intents |-> Vetoed(intents[i], found)]
  /\ handled' = "done"
  /\ UNCHANGED <<report, pairs, artifact, threshold, percentile, reportsRead, ruleFaults>>

StrategiesNext == TimePasses \/ ReadReport \/ Judge \/ Raises \/ Conclude

StrategiesSpec == StrategiesInit /\ [][StrategiesNext]_strategyVars

-----------------------------------------------------------------------------
(* Properties.                                                             *)

StrategiesTypeOK ==
  /\ handled \in {"busy", "done", "raised"} /\ artifact \in BOOLEAN
  /\ threshold.value \in Scores \cup {NoScore} /\ threshold.at \in 0..RuleTime
  /\ \A i \in DOMAIN intents :
       /\ intents[i].impact \in DOMAIN report.impacts /\ intents[i].strategy \in Enabled
       /\ intents[i].vetoed \in BOOLEAN /\ intents[i].blind \in BOOLEAN

\* An evaluation that ends accounts for every direct impact: each strategy that
\* has something to say about it leaves one intent, live or rejected
\* (rules.py:227, "EVERY gate outcome is an auditable row"); none is live on a
\* stale event or, in enforce mode alone, against the commentary; and a live
\* pead_long beat a percentile that was true within the last hour, unless the
\* query for it failed (rules.py:583).
IntentsAccountable ==
  handled = "done" =>
    /\ report.relevant /\ report.filing =>
         \A i \in DOMAIN report.impacts, s \in Enabled :
           LET mine == {k \in DOMAIN intents : intents[k].impact = i /\ intents[k].strategy = s}
           IN  Cardinality(mine) =
                 IF report.impacts[i].hop = 0 /\ Triggered(report.type, report.impacts[i], s) THEN 1 ELSE 0
    /\ \A k \in DOMAIN intents :
         LET one == intents[k]
         IN  /\ one.reason = "" => report.fresh /\ (one.vetoed => CommentaryMode = "shadow")
             /\ one.reason = "commentary_veto" => CommentaryMode = "enforce"
             /\ one.reason = "" /\ one.strategy = "pead_long" /\ ~one.blind =>
                  \E t \in 1..one.at :
                    /\ one.at - t < CacheTicks
                    /\ percentile[t] # NoScore /\ percentile[t] <= one.score

=============================================================================
