----------------------------- MODULE MC_Reports -----------------------------
(***************************************************************************)
(* How a report comes about, what the strategies make of it and of the     *)
(* results of a quarter, what became of the signals, and what a route of a *)
(* report goes by, for TLC.  As in MC_Services, `focus' picks the one that *)
(* moves.                                                                  *)
(***************************************************************************)
EXTENDS ImpactStages, Strategies, BseResults, Outcomes, Classification

VARIABLE focus

NeighboursValue == <<3, 2>>
MentionedValue  == <<"a">>
ExtractionsValue == {<<>>, <<"f", "b">>}

Item(symbol, sentiment, magnitude) ==
  [symbol |-> symbol, sentiment |-> sentiment, magnitude |-> magnitude]

\* A symbol nobody asked for, one that is answered twice, a scope that is none.
AnswersValue ==
  {[scope |-> "macro", items |-> <<Item("a", "negative", 5), Item("b", "positive", 2)>>],
   [scope |-> "odd",
    items |-> <<Item("?", "positive", 4), Item("b", "negative", 1), Item("b", "positive", 5)>>]}

\* Two companies that own each other, two ways to most of the others, an edge
\* below the least weight and one without weight.
GraphValue ==
  LET Edge(target, channel, weight) == [target |-> target, channel |-> channel, weight |-> weight]
  IN  [s \in {"a", "b", "c", "d", "e", "f"} |->
         CASE s = "a" -> <<Edge("d", "competition", 20), Edge("b", "ownership", 56),
                           Edge("c", "supply_chain", NoWeight), Edge("e", "ownership", 10)>>
           [] s = "b" -> <<Edge("c", "ownership", 95), Edge("a", "ownership", 56),
                           Edge("d", "competition", 50)>>
           [] s = "c" -> <<Edge("d", "ownership", 30), Edge("e", "competition", NoWeight)>>
           [] s = "d" -> <<Edge("e", "competition", 40)>>
           [] OTHER -> <<>>]

MovesValue       == {-5}
SignallableValue == {<<"a", "short">>}

Impact(symbol, hop, sentiment, magnitude) ==
  [symbol |-> symbol, hop |-> hop, sentiment |-> sentiment, magnitude |-> magnitude]

\* Filings of results and of an order, one of them stale, and a piece of news.
ReportsValue ==
  LET Report(filing, recent, type, impacts) ==
        [relevant |-> TRUE, filing |-> filing, fresh |-> recent, type |-> type,
         resultsBody |-> FALSE, impacts |-> impacts]
  IN  {Report(TRUE, TRUE, "results", <<Impact("x", 0, "negative", 4), Impact("y", 0, "negative", 3)>>),
       Report(TRUE, TRUE, "order_win", <<Impact("x", 0, "positive", 4), Impact("y", 1, "negative", 5)>>),
       Report(TRUE, FALSE, "results", <<Impact("x", 0, "negative", 3)>>),
       Report(FALSE, TRUE, "results", <<Impact("x", 0, "negative", 5)>>)}

\* A first filing, its revision two days later for the other basis, the
\* half-year that ends with the quarter, and the year.
IndexValue ==
  LET Doc(d, span, consolidated, eps, dated) ==
        [day |-> d, span |-> span, consolidated |-> consolidated, eps |-> eps, dated |-> dated]
  IN  <<Doc(1, "quarter", TRUE, 2, TRUE), Doc(0, "quarter", FALSE, 1, TRUE),
        Doc(0, "half", FALSE, 3, FALSE), Doc(0, "annual", FALSE, 4, TRUE)>>
BucketsValue == <<1, 2, 3>>

\* A signal of a report and one of a surprise, whose symbol pauses before it.
SourceValue   == [s \in Trades |-> IF s = "r" THEN "report" ELSE "pead"]
BornValue     == [s \in Trades |-> 1]
CloseValue    == [s \in Trades |-> IF s = "r" THEN <<2, 3, 3, 2, 1>> ELSE <<0, 2, 3, 4, 1>>]
HorizonsValue == <<1, 2>>

\* What the lists say when the share is on all of them, when it is on none, the
\* band being that of a series that is not kept, and when ESM alone names it,
\* without a stage.
ReadingsValue ==
  LET Row(asm, gsm, esm, band) == [asm |-> asm, gsm |-> gsm, esm |-> esm, band |-> band]
      Asm(long, short) == [longterm  |-> [code |-> long, indicator |-> ""],
                             shortterm |-> [code |-> "", indicator |-> short]]
      Gsm(present, code, desc) == [present |-> present, code |-> code, desc |-> desc]
      Esm(present, code) == [present |-> present, indicator |-> "", code |-> code]
      Band(series, band) == [series |-> series, band |-> band]
  IN  {[s \in {"a"} |-> Row(Asm("I", "II"), Gsm(TRUE, "", "III"), Esm(TRUE, "II"), Band("EQ", "5"))],
       [s \in {"a"} |-> Row(Asm("", ""), Gsm(FALSE, "", ""), Esm(FALSE, ""), Band("SM", "20"))],
       [s \in {"a"} |-> Row(Asm("", ""), Gsm(FALSE, "", ""), Esm(TRUE, ""), Band("SM", "20"))]}
OutagesValue == {{}, {"gsm"}}

\* A scheme of a fund, and a broker that lives off dividends and is not traded.
EvidenceValue ==
  LET Quarter(taxonomy, dividends, income) ==
        [taxonomy |-> taxonomy, interest |-> 0, dividends |-> dividends, income |-> income]
      Known(name, quarters, traded, marks) ==
        [name |-> name, quarters |-> quarters, mcap |-> 450, revenue |-> Len(quarters) * 5,
         pat |-> -1, traded |-> traded, marks |-> marks]
  IN  {Known({"fund"}, <<>>, TRUE, {}),
       Known({"broker"}, <<Quarter("", 0, 0), Quarter("nbfc", 91, 100)>>, FALSE,
             {"psu", "cic_declared"})}

Topics == {"stages", "strategies", "results", "outcomes", "classification"}

reportVars == <<stageVars, strategyVars, resultVars, outcomeVars, classVars>>

ReportsInit ==
  /\ focus \in Topics
  /\ StagesInit /\ StrategiesInit /\ ResultsInit /\ OutcomesInit
  /\ ClassificationInit
  /\ focus # "strategies" => artifact /\ percentile = <<NoScore>>

StagesMove ==
  /\ focus = "stages" /\ StagesNext
  /\ UNCHANGED <<strategyVars, resultVars, outcomeVars, classVars>>
StrategiesMove ==
  /\ focus = "strategies" /\ StrategiesNext
  /\ UNCHANGED <<stageVars, resultVars, outcomeVars, classVars>>
ResultsMove ==
  /\ focus = "results" /\ ResultsNext
  /\ UNCHANGED <<stageVars, strategyVars, outcomeVars, classVars>>
OutcomesMove ==
  /\ focus = "outcomes" /\ OutcomesNext
  /\ UNCHANGED <<stageVars, strategyVars, resultVars, classVars>>

ClassificationMoves ==
  /\ focus = "classification" /\ ClassificationNext
  /\ UNCHANGED <<stageVars, strategyVars, resultVars, outcomeVars>>

ReportsNext ==
  /\ \/ StagesMove \/ StrategiesMove \/ ResultsMove \/ OutcomesMove
     \/ ClassificationMoves
  /\ UNCHANGED focus

\* OutcomesFairness, when the outcomes move.
ReportsFairness ==
  /\ WF_outcomeVars(focus = "outcomes" /\ Tomorrow)
  /\ WF_outcomeVars(focus = "outcomes" /\ SyncDay)
  /\ WF_outcomeVars(focus = "outcomes" /\ Evaluation("nightly"))
  /\ WF_outcomeVars(focus = "outcomes" /\ (ReadCloses("cli") \/ WriteOutcome("cli")))

ReportsSpec ==
  ReportsInit /\ [][ReportsNext]_<<focus, reportVars>> /\ ReportsFairness

\* The variables of the five modules have their types.
ReportsTypeOK ==
  /\ focus \in Topics
  /\ StagesTypeOK /\ StrategiesTypeOK /\ ResultsTypeOK /\ OutcomesTypeOK
  /\ ClassificationTypeOK

\* What is kept of a quarter on BSE, its row and its surprise, is sound whatever
\* scan and sweep did (ResultsKept and SurpriseSound of BseResults).
QuarterSound == ResultsKept /\ SurpriseSound

\* The state of a share can be traced: the table keeps what each list last said,
\* and a route or an agent goes by what the tables held a short while ago
\* (FeedsKept and VerdictHeld of Classification).
StateTraceable == FeedsKept /\ VerdictHeld

=============================================================================
