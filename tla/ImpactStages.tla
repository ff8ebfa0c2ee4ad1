---------------------------- MODULE ImpactStages ----------------------------
(***************************************************************************)
(* What a run of the pipeline does between relevance and report, which     *)
(* AnalysisWorker leaves open: extraction, routing, scoring, the priced-in *)
(* downgrade, propagation through the graph of companies, signals.  The    *)
(* runs here are of one item of news that was delivered more than once:    *)
(* they share what stage 3 leaves for the report under the id of the item. *)
(* Weights are in percent.                                                 *)
(***************************************************************************)
EXTENDS Integers, Sequences, SequencesExt, FiniteSets, Positions, TLC

CONSTANTS
  Filing,         \* the item is of an exchange
  Mentioned,      \* symbols_mentioned, in order
  Extractions,    \* bound: what the extraction may add, in order
  FundSchemes,    \* is_fund_scheme, or suspended and of unknown type
  ParaA,          \* the item has a Para-A leaf
  Answers,        \* bound: what the scoring model may answer
  Moves,          \* bound: recent moves in percent
  Signallable,    \* bound: <<symbol, way>> of the signals the model may propose
  Graph,          \* edges of each symbol, as the graph service returns them
  MaxCandidates,  \* symbols that are scored
  MinWeight,      \* MIN_EDGE_WEIGHT
  Neighbours,     \* of one company at each hop
  TopHop1,        \* companies of hop 1 that go on
  MinMove, BigMove,             \* PRICED_IN_MIN_MOVE_PCT, PRICED_IN_BIG_MOVE_PCT
  Deliveries, MaxStageFaults    \* bounds

Scopes == {"company_specific", "supply_chain", "sector_wide", "macro"}
Channels == {"ownership", "competition", "supply_chain"}
Companies == DOMAIN Graph
NoWeight == -1

ASSUME StagesAssumption ==
  /\ {Filing, ParaA} \subseteq BOOLEAN
  /\ MaxCandidates \in Nat \ {0} /\ TopHop1 \in Nat \ {0}
  /\ Neighbours \in [1..2 -> Nat \ {0}]
  /\ MinWeight \in 1..100 /\ MinMove \in Nat \ {0} /\ BigMove >= MinMove
  /\ Deliveries \in Nat \ {0} /\ MaxStageFaults \in Nat
  /\ Mentioned \in Seq(Companies) /\ Extractions \subseteq Seq(Companies)
  /\ \A s \in Companies :
       Graph[s] \in Seq([target : Companies, channel : Channels, weight : Int])
  /\ \A answer \in Answers :
       /\ answer.items \in Seq(Range(answer.items))
       /\ \A i \in DOMAIN answer.items : answer.items[i].magnitude \in 1..5

VARIABLES
  run,         \* the runs of the item
  registry,    \* _ROUTER_META of the item
  prefetched,  \* _CTX_PREFETCH of the item: which contexts arrived
  emittedOnce, \* signal:emitted
  returned,    \* what each run returned
  stageFaults

stageVars == <<run, registry, prefetched, emittedOnce, returned, stageFaults>>

Runs     == 1..Deliveries
NoMeta   == [of |-> 0]
NoMove   == 0
Waiting  == [stage |-> "waiting", alone |-> TRUE]
InFlight == {r \in Runs : run[r].stage \notin {"waiting", "over"}}

StagesInit ==
  /\ run = [r \in Runs |-> Waiting]
  /\ registry = NoMeta /\ prefetched = <<>>
  /\ emittedOnce = {} /\ returned = [r \in Runs |-> <<>>]
  /\ stageFaults = 0

Upon(r, stage) == run[r].stage = stage
Goes(r, next) == run' = [run EXCEPT ![r] = next]

-----------------------------------------------------------------------------
(* Stages 1 and 2.                                                         *)

\* The item comes, or comes again while the first run may still be at work.
Delivered(r) ==
  /\ Upon(r, "waiting") /\ \A q \in 1..(r - 1) : ~Upon(q, "waiting")
  /\ run' = [q \in Runs |->
       IF q = r THEN [stage |-> "relevance", alone |-> InFlight = {}, symbols |-> <<>>,
                      meta |-> NoMeta, failed |-> FALSE, impacts |-> <<>>,
                      scope |-> "company_specific"]
       ELSE IF q \in InFlight THEN [run[q] EXCEPT !.alone = FALSE] ELSE run[q]]
  /\ UNCHANGED <<registry, prefetched, emittedOnce, returned, stageFaults>>

\* classify_relevance with skip_node: whatever fails there is for the item.
Relevance(r) ==
  /\ Upon(r, "relevance")
  /\ \/ Goes(r, [run[r] EXCEPT !.stage = "extract"]) /\ UNCHANGED returned
     \/ /\ Goes(r, [run[r] EXCEPT !.stage = "over"])
        /\ returned' = [returned EXCEPT ![r] = <<[relevant |-> FALSE]>>]
  /\ UNCHANGED <<registry, prefetched, emittedOnce, stageFaults>>

FirstOf(symbols) == SubSeq(symbols, 1, IF Len(symbols) < MaxCandidates THEN Len(symbols) ELSE MaxCandidates)

\* stage2_node with prefetch_company_contexts and extract_entities: what the
\* item mentions, then what the model names and the knowledge base resolves;
\* after an error only the former.
Extract(r) ==
  /\ Upon(r, "extract")
  /\ \E arrives \in BOOLEAN :
       prefetched' = IF Filing /\ Mentioned # <<>> /\ prefetched = <<>>
                     THEN [i \in DOMAIN FirstOf(Mentioned) |->
                             [symbol |-> Mentioned[i], known |-> arrives]]
                     ELSE prefetched
  /\ \E named \in Extractions :
       Goes(r, [run[r] EXCEPT !.stage = "route",
                                !.symbols = Mentioned \o Those(named, {i \in DOMAIN named : named[i] \notin Range(Mentioned)})])
  /\ UNCHANGED <<registry, emittedOnce, returned, stageFaults>>

-----------------------------------------------------------------------------
(* Stage 3.                                                                *)

\* route and _suppression: a fund scheme, if its context came.
Suppressed(symbol, known) == symbol \in FundSchemes /\ symbol \in known

\* score_impacts up to the call of the model: nothing to score leaves nothing
\* behind; otherwise the contexts, those prefetched and those fetched now, give
\* the routing, and its record is stashed under the id of the item.
Route(r) ==
  /\ Upon(r, "route")
  /\ LET symbols == FirstOf(run[r].symbols)
         early   == {i \in DOMAIN prefetched : prefetched[i].symbol \in Range(symbols)}
     IN  IF symbols = <<>>
         THEN /\ Goes(r, [run[r] EXCEPT !.stage = "pricedIn"])
              /\ UNCHANGED <<registry, prefetched>>
         ELSE \E late \in {{}, Range(symbols)} :
                LET known == {s \in Range(symbols) :
                                IF \E i \in early : prefetched[i].symbol = s
                                THEN \E i \in early : prefetched[i].symbol = s /\ prefetched[i].known
                                ELSE s \in late}
                    scored == Those(symbols, {i \in DOMAIN symbols : ~Suppressed(symbols[i], known)})
                    meta == [of |-> r, scored |-> Range(scored), floored |-> {}, failed |-> FALSE]
                IN  /\ registry' = meta /\ prefetched' = <<>>
                    /\ Goes(r, [run[r] EXCEPT !.stage = IF scored = <<>> THEN "pricedIn" ELSE "score",
                                                !.symbols = scored, !.meta = meta])
  /\ UNCHANGED <<emittedOnce, returned, stageFaults>>

\* Whose impact an item of the answer is: of the symbol it names, and of the
\* only one that was asked for whatever it names.
Canonical(item, symbols) ==
  IF item.symbol \in Range(symbols) \/ Len(symbols) # 1 THEN item.symbol ELSE symbols[1]

Floor(magnitude) == IF ParaA /\ magnitude < 3 THEN 3 ELSE magnitude

\* The items of the answer that name a symbol that was asked for, one for each,
\* the first.
Counted(answer, symbols) ==
  LET whose(i) == Canonical(answer[i], symbols)
  IN  {i \in DOMAIN answer :
         whose(i) \in Range(symbols) /\ \A j \in 1..(i - 1) : whose(j) # whose(i)}

Scored(answer, symbols) ==
  LET impact(item) == [symbol |-> Canonical(item, symbols), sentiment |-> item.sentiment,
                       magnitude |-> Floor(item.magnitude), hop |-> 0,
                       via |-> Canonical(item, symbols)]
  IN  Those([i \in DOMAIN answer |-> impact(answer[i])], Counted(answer, symbols))

\* Those the floor lifted, for the record.
Floored(answer, symbols) ==
  {Canonical(answer[i], symbols) :
     i \in {i \in Counted(answer, symbols) : Floor(answer[i].magnitude) # answer[i].magnitude}}

\* score_impacts after the call.  The record in the registry is the very one of
\* the run, unless another run has put its own there: the floors show in it.
\* An error stashes it again with the error, and leaves no impacts.
Score(r) ==
  /\ Upon(r, "score")
  /\ \/ \E answer \in Answers :
          LET meta == [run[r].meta EXCEPT !.floored = Floored(answer.items, run[r].symbols)]
          IN  /\ registry' = IF registry = run[r].meta THEN meta ELSE registry
              /\ Goes(r, [run[r] EXCEPT
                   !.stage = "pricedIn", !.meta = meta,
                   !.impacts = Scored(answer.items, run[r].symbols),
                   !.scope = IF answer.scope \in Scopes THEN answer.scope ELSE "company_specific"])
              /\ UNCHANGED stageFaults
     \/ /\ stageFaults < MaxStageFaults /\ stageFaults' = stageFaults + 1
        /\ registry' = [run[r].meta EXCEPT !.failed = TRUE]
        /\ Goes(r, [run[r] EXCEPT !.stage = "pricedIn", !.failed = TRUE])
  /\ UNCHANGED <<prefetched, emittedOnce, returned>>

-----------------------------------------------------------------------------
(* The downgrade of what the market knows already.                         *)

\* compute_downgrade.
Downgraded(impact, move) ==
  LET same == \/ impact.sentiment = "positive" /\ move >= MinMove
              \/ impact.sentiment = "negative" /\ -move >= MinMove
      step == IF move >= BigMove \/ -move >= BigMove THEN 2 ELSE 1
  IN  IF same THEN [impact EXCEPT !.magnitude = IF @ > step THEN @ - step ELSE 1] ELSE impact

\* apply_priced_in; an unknown move counts as none.
PricedIn(r) ==
  /\ Upon(r, "pricedIn")
  /\ \E move \in [DOMAIN run[r].impacts -> Moves \cup {NoMove}] :
       Goes(r, [run[r] EXCEPT !.stage = "propagate",
                !.impacts = [i \in DOMAIN @ |-> Downgraded(@[i], move[i])]])
  /\ UNCHANGED <<registry, prefetched, emittedOnce, returned, stageFaults>>

-----------------------------------------------------------------------------
(* Stage 4.                                                                *)

\* ALLOWED_CHANNELS.
Transmits(scope, channel) ==
  \/ channel = "ownership"
  \/ channel = "competition" /\ scope \in {"sector_wide", "macro"}
  \/ channel = "supply_chain" /\ scope \in {"supply_chain", "macro"}

\* round(), halves to the even neighbour, of hundredths.
Rounded(n) ==
  IF n % 100 > 50 \/ (n % 100 = 50 /\ (n \div 100) % 2 = 1) THEN n \div 100 + 1 ELSE n \div 100

\* apply_decay: by the weight of the edge, or by the hop if it has none.
Decay(weight, hop) ==
  IF weight > 0 THEN (IF weight < 10 THEN 10 ELSE IF weight > 90 THEN 90 ELSE weight)
  ELSE IF hop = 1 THEN 60 ELSE 35

Passed(source, edge, hop) ==
  LET magnitude == Rounded(source.magnitude * Decay(edge.weight, hop))
  IN  [symbol |-> edge.target, sentiment |-> source.sentiment, hop |-> hop, via |-> source.symbol,
       magnitude |-> IF magnitude < 1 THEN 1 ELSE magnitude]

\* The strongest edges of a company whose fetch went well.
Strongest(symbol, hop, failing) ==
  LET edges  == Graph[symbol]
      ranked == Ranked(DOMAIN edges,
                  [i \in DOMAIN edges |-> IF edges[i].weight = NoWeight THEN 0 ELSE edges[i].weight])
      most   == IF Len(edges) < Neighbours[hop] THEN Len(edges) ELSE Neighbours[hop]
  IN  IF symbol \in failing THEN <<>> ELSE [n \in 1..most |-> edges[ranked[n]]]

Open(edge, scope) ==
  (edge.weight = NoWeight \/ edge.weight >= MinWeight) /\ Transmits(scope, edge.channel)

Symbols(impacts) == {impacts[i].symbol : i \in DOMAIN impacts}

\* What a source passes on, along those of them that transmit, to companies that
\* have no impact yet.
PassedOn(source, known, hop, scope, failing) ==
  LET edges == Strongest(source.symbol, hop, failing)
  IN  Those([k \in DOMAIN edges |-> Passed(source, edges[k], hop)],
            {k \in DOMAIN edges : Open(edges[k], scope) /\ edges[k].target \notin known})

\* Mutant: a neighbour that has an impact of its own is not left out.
Reached_Again(sources, known, hop, scope, failing) ==
  FlattenSeq([i \in DOMAIN sources |-> PassedOn(sources[i], {}, hop, scope, failing)])

Reached(sources, known, hop, scope, failing) ==
  FlattenSeq([i \in DOMAIN sources |-> PassedOn(sources[i], known, hop, scope, failing)])

\* The first impact on each company.
FirstEach(impacts) ==
  Those(impacts, {i \in DOMAIN impacts : \A j \in 1..(i - 1) : impacts[j].symbol # impacts[i].symbol})

\* Strongest first, equal ones as they come.
ByMagnitude(impacts) ==
  LET ranked == Ranked(DOMAIN impacts, [i \in DOMAIN impacts |-> impacts[i].magnitude])
  IN  [n \in DOMAIN impacts |-> impacts[ranked[n]]]

\* The strongest impact on each company, in the order in which the companies come.
BestEach(impacts) ==
  LET on(symbol) == Those(impacts, {i \in DOMAIN impacts : impacts[i].symbol = symbol})
      firsts     == FirstEach(impacts)
  IN  [n \in DOMAIN firsts |-> ByMagnitude(on(firsts[n].symbol))[1]]

\* propagate_impacts: hop 1 keeps the best impact of each company, hop 2 starts
\* from the strongest of these and keeps the first.
Spread(direct, scope, failing) ==
  LET hop1 == BestEach(Reached(direct, Symbols(direct), 1, scope, failing))
      known == Symbols(direct) \cup Symbols(hop1)
      top  == ByMagnitude(hop1)
      next == Reached(SubSeq(top, 1, IF Len(top) < TopHop1 THEN Len(top) ELSE TopHop1),
                      known, 2, scope, failing)
  IN  direct \o hop1 \o FirstEach(next)

Propagate(r) ==
  /\ Upon(r, "propagate")
  /\ \E failing \in {{}} \cup {{s} : s \in DOMAIN Graph} :
       /\ failing # {} => stageFaults < MaxStageFaults
       /\ stageFaults' = IF failing = {} THEN stageFaults ELSE stageFaults + 1
       /\ Goes(r, [run[r] EXCEPT !.stage = "signals",
                                 !.impacts = Spread(@, run[r].scope, failing)])
  /\ UNCHANGED <<registry, prefetched, emittedOnce, returned>>

-----------------------------------------------------------------------------
(* Stage 5 and the report.                                                 *)

\* stage5_node and generate_signals: none while the market is open, of a
\* headline that only tells of moves, or of a stale item (left open); otherwise
\* what the model proposes when a direct impact is material, without the pairs
\* that were signalled before.  No signal is bound to the company of an impact.
Signals(r) ==
  /\ Upon(r, "signals")
  /\ LET material == \E i \in DOMAIN run[r].impacts :
                       run[r].impacts[i].hop = 0 /\ run[r].impacts[i].magnitude >= 3
     IN  \E proposed \in {{}} \cup {{s} : s \in Signallable} :
           /\ proposed # {} => material
           /\ emittedOnce' = emittedOnce \cup proposed
           /\ Goes(r, [run[r] EXCEPT !.stage = "finalize"])
  /\ UNCHANGED <<registry, prefetched, returned, stageFaults>>

\* finalize_node: the report takes whatever is stashed under the item.
Finalize(r) ==
  /\ Upon(r, "finalize")
  /\ returned' = [returned EXCEPT ![r] = <<[relevant |-> TRUE, impacts |-> run[r].impacts,
                                        scope |-> run[r].scope, meta |-> registry]>>]
  /\ registry' = NoMeta
  /\ Goes(r, [run[r] EXCEPT !.stage = "over"])
  /\ UNCHANGED <<prefetched, emittedOnce, stageFaults>>

\* The run is cut off by its time limit, wherever it is; its record stays.
CutOff(r) ==
  /\ r \in InFlight /\ stageFaults < MaxStageFaults
  /\ stageFaults' = stageFaults + 1
  /\ Goes(r, [run[r] EXCEPT !.stage = "over"])
  /\ UNCHANGED <<registry, prefetched, emittedOnce, returned>>

StagesNext ==
  \E r \in Runs :
    \/ Delivered(r) \/ Relevance(r) \/ Extract(r) \/ Route(r) \/ Score(r) \/ PricedIn(r)
    \/ Propagate(r) \/ Signals(r) \/ Finalize(r) \/ CutOff(r)

StagesSpec == StagesInit /\ [][StagesNext]_stageVars

-----------------------------------------------------------------------------
(* Properties.                                                             *)

StagesTypeOK ==
  /\ \A r \in Runs : run[r].stage \in {"waiting", "relevance", "extract", "route", "score",
                       "pricedIn", "propagate", "signals", "finalize", "over"}
  /\ registry.of \in 0..Deliveries /\ stageFaults \in 0..MaxStageFaults

\* An indirect impact has a source of the hop before in the same report, of the
\* same sentiment and at least its magnitude, and an edge that is strong enough
\* and carries an event of this scope.
Sourced(one, impacts, scope) ==
  \E i \in DOMAIN impacts :
    LET source == impacts[i]
    IN  /\ source.symbol = one.via /\ source.hop = one.hop - 1
        /\ source.sentiment = one.sentiment /\ source.magnitude >= one.magnitude
        /\ \E k \in DOMAIN Graph[one.via] :
             Graph[one.via][k].target = one.symbol /\ Open(Graph[one.via][k], scope)

\* One impact per company, the direct ones of companies that were scored, the
\* others with their source.
ImpactsSourced ==
  \A r \in Runs :
    returned[r] # <<>> /\ returned[r][1].relevant =>
      LET it == returned[r][1]
      IN  /\ \A i, j \in DOMAIN it.impacts :
               i # j => it.impacts[i].symbol # it.impacts[j].symbol
          /\ \A i \in DOMAIN it.impacts :
               IF it.impacts[i].hop = 0 THEN it.impacts[i].symbol \in run[r].meta.scored
               ELSE Sourced(it.impacts[i], it.impacts, it.scope)

\* A report whose scoring failed says so, and no other does, unless another run
\* of the item was at work at the same time and may have taken or replaced the
\* record.
ScoringTold ==
  \A r \in Runs :
    returned[r] # <<>> /\ returned[r][1].relevant /\ run[r].alone /\ run[r].meta # NoMeta =>
      returned[r][1].meta.of = r /\ returned[r][1].meta.failed = run[r].failed

\* Every report of a run can be accounted for: its impacts, and what its record
\* says (stage3_impact.py:157, stage4_propagation.py:175, pipeline.py:315).
ReportAccountable == ImpactsSourced /\ ScoringTold

=====
