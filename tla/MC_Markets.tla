----------------------------- MODULE MC_Markets -----------------------------
(***************************************************************************)
(* The services that live by prices, for TLC.  As in MC_Services, `focus'  *)
(* picks the one that moves.                                               *)
(***************************************************************************)
EXTENDS PaperLoops, LivePrice, LtpFeed, LlmCalls, CommodityShocks, Sentiment, DailyTables

VARIABLE focus

\* Listed on both exchanges, on one of them and missing in the file; delisted,
\* and a name for which the search finds others.
ListedValue  == [s \in Symbols |-> CASE s = "a" -> {"NSE", "BSE"}
                                     [] s = "b" -> {"BSE"}
                                     [] OTHER -> {}]
BatchesValue == {<<"a", "c", "d", "b">>}
NeverValue   == -1

\* A company that suffers when the commodity rises.
BetaValue == [c \in Companies |-> -1]
ConfidenceValue == [c \in Companies |-> "medium"]

\* Most companies of BSE are listed on it alone.
NamesValue == [nse |-> 2000, both |-> 193, bse |-> 1438]

Markets == {"hedge", "marks", "prices", "feed", "llm", "shocks", "sentiment", "tables"}

marketVars == <<hedgeVars, marksVars, priceVars, feedVars, llmVars, shockVars, sentimentVars,
                tableVars>>

MarketsInit ==
  /\ focus \in Markets
  /\ HedgeInit /\ MarksInit /\ PriceInit /\ FeedInit /\ LlmInit /\ ShockInit
  /\ SentimentInit /\ TablesInit
  /\ focus # "prices" => cached = NoCache
  /\ \A c \in Companies : marked[<<c, "long">>] = 0
  /\ focus # "sentiment" => marked = [p \in DOMAIN marked |-> 0]

HedgeMoves ==
  /\ focus = "hedge" /\ HedgeNext
  /\ UNCHANGED <<marksVars, priceVars, feedVars, llmVars, shockVars, sentimentVars, tableVars>>
MarksMoves ==
  /\ focus = "marks" /\ MarksNext
  /\ UNCHANGED <<hedgeVars, priceVars, feedVars, llmVars, shockVars, sentimentVars, tableVars>>
PricesMoves ==
  /\ focus = "prices" /\ PriceNext
  /\ UNCHANGED <<hedgeVars, marksVars, feedVars, llmVars, shockVars, sentimentVars, tableVars>>
FeedMoves ==
  /\ focus = "feed" /\ FeedNext
  /\ UNCHANGED <<hedgeVars, marksVars, priceVars, llmVars, shockVars, sentimentVars, tableVars>>
LlmMoves ==
  /\ focus = "llm" /\ LlmNext
  /\ UNCHANGED <<hedgeVars, marksVars, priceVars, feedVars, shockVars, sentimentVars, tableVars>>
ShocksMoves ==
  /\ focus = "shocks" /\ ShockNext
  /\ UNCHANGED <<hedgeVars, marksVars, priceVars, feedVars, llmVars, sentimentVars, tableVars>>

SentimentMoves ==
  /\ focus = "sentiment" /\ SentimentNext
  /\ UNCHANGED <<hedgeVars, marksVars, priceVars, feedVars, llmVars, shockVars, tableVars>>

TablesMove ==
  /\ focus = "tables" /\ TablesNext
  /\ UNCHANGED <<hedgeVars, marksVars, priceVars, feedVars, llmVars, shockVars, sentimentVars>>

MarketsNext ==
  /\ \/ HedgeMoves \/ MarksMoves \/ PricesMoves \/ FeedMoves \/ LlmMoves \/ ShocksMoves
     \/ SentimentMoves \/ TablesMove
  /\ UNCHANGED focus

\* HedgeFairness, PriceFairness and FeedFairness, of the service that moves.
MarketsFairness ==
  /\ WF_hedgeVars(focus = "hedge" /\ HedgeStep)
  /\ \A c \in Callers : WF_priceVars(focus = "prices" /\ (LoadCached(c) \/ ResolveNext(c) \/ Search(c)))
  /\ WF_feedVars(focus = "feed" /\ KeepAlive)
  /\ WF_feedVars(focus = "feed" /\ (ReadDemand \/ AddStocks \/ DropStocks))
  /\ \A g \in 1..MaxSockets : WF_feedVars(focus = "feed" /\ ForgetSubscriptions(g))

MarketsSpec == MarketsInit /\ [][MarketsNext]_<<focus, marketVars>> /\ MarketsFairness

\* Each service's variables have their types (the type invariants of the
\* modules).
MarketsTypeOK ==
  /\ focus \in Markets
  /\ HedgeTypeOK /\ MarksTypeOK /\ PriceTypeOK /\ FeedTypeOK /\ LlmTypeOK /\ ShockTypeOK
  /\ SentimentTypeOK /\ TablesTypeOK

\* Two limits on how often something happens hold whatever restarts or runs at
\* once: paced calls in a minute, shocks in a cooldown (PacedWithinLimit of
\* LlmCalls, ShocksSpaced of CommodityShocks).
RatesKept == PacedWithinLimit /\ ShocksSpaced

\* Who goes on asking gets an answer: a token for a listed symbol, a stream for
\* a stock somebody looks at (ListedGetsToken of LivePrice, DemandServed of
\* LtpFeed).
AskersServed == ListedGetsToken /\ DemandServed

=============================================================================
