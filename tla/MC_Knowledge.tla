---------------------------- MODULE MC_Knowledge ----------------------------
(***************************************************************************)
(* The services that keep knowledge about companies, and the talks with a   *)
(* model about them, for TLC.  As in MC_Services, `focus' picks the one     *)
(* that moves.                                                             *)
(***************************************************************************)
EXTENDS Dossiers, MemoryIndex, Guidance, Conversations, Holdings

VARIABLE focus

ScopesValue     == <<"market">>

\* A level that is guided for the first quarter in crores or in lakh.
MetricValue == [l \in {"sales"} |-> [key |-> "revenue", better |-> "higher", formula |-> "level"]]
UnitValue   == [u \in {"Rs cr", "Rs lakh"} |-> IF u = "Rs cr" THEN "cr" ELSE "lakh"]
PeriodValue == [p \in {"next quarter"} |-> [key |-> "Q1", kind |-> "Q", end |-> 1]]
FiguresValue == [q \in {1} |-> [consolidated |-> 195]]
StatementsValue ==
  LET Said(low, high, unit) ==
        {[label |-> "sales", low |-> low, high |-> high, unit |-> unit, period |-> "next quarter"]}
  IN  {Said(2, NoValue, "Rs cr"), Said(190, 195, "Rs lakh")}

Part(type, name, signed) == [type |-> type, name |-> name, signed |-> signed]

\* A hidden thought and two calls at once, words, and nothing at all.
ChatRepliesValue ==
  {<<Part("empty", "", TRUE), Part("use", "search", FALSE), Part("use", "returns", TRUE)>>,
   <<Part("text", "", TRUE)>>, <<Part("empty", "", TRUE)>>}

\* Submissions among other calls, two of them in one turn, and words.
AgentRepliesValue ==
  {<<Part("text", "", TRUE), Part("use", "context", TRUE), Part("use", "web_search", FALSE)>>,
   <<Part("empty", "", TRUE), Part("use", "nothing", TRUE)>>,
   <<Part("use", "nothing", FALSE), Part("use", "filing", TRUE)>>,
   <<Part("use", "agent-derived", TRUE)>>, <<Part("text", "", FALSE)>>}

\* The refs an answer names: one twice, and one that was perhaps never issued.
MentionsValue == {<<3, 1, 3, 5>>}

Filing(q, names) == [quarter |-> q, names |-> names, owners |-> names]
\* The second submission revises the first and names somebody else.
SubmissionsValue ==
  LET revised == <<Filing(1, {"x"}), Filing(1, {"y"})>>
  IN  [n |-> revised, b |-> revised \o <<Filing(2, {"x"})>>]
CorpActionsValue == [n |-> <<>>, b |-> <<"bonus", "bonus">>]

Subjects == {"dossiers", "memory", "guidance", "conversations", "NSE owners", "BSE owners"}

knowledgeVars == <<dossierVars, memoryVars, guidanceVars, conversationVars, holdingVars>>

KnowledgeInit ==
  /\ focus \in Subjects
  /\ DossierInit /\ MemoryInit /\ GuidanceInit /\ ConversationInit
  /\ HoldingsInit
  /\ focus # "conversations" => provider = "claude" /\ service = Chats

DossiersMove ==
  /\ focus = "dossiers" /\ DossierNext
  /\ UNCHANGED <<memoryVars, guidanceVars, conversationVars, holdingVars>>
MemoryMoves ==
  /\ focus = "memory" /\ MemoryNext
  /\ UNCHANGED <<dossierVars, guidanceVars, conversationVars, holdingVars>>
GuidanceMoves ==
  /\ focus = "guidance" /\ GuidanceNext
  /\ UNCHANGED <<dossierVars, memoryVars, conversationVars, holdingVars>>

ConversationsMove ==
  /\ focus = "conversations" /\ ConversationNext
  /\ UNCHANGED <<dossierVars, memoryVars, guidanceVars, holdingVars>>

\* The companies of the other exchange submit nothing, and nobody asks for them.
OthersRest(companies, sweepers) ==
  /\ \A c \in companies : submitted'[c] = 0 /\ declared'[c] = 0
  /\ \A j \in sweepers : stage'[j] = "idle"

NseOwnersMove ==
  /\ focus = "NSE owners" /\ HoldingsNext /\ OthersRest(BseNames, {"bse"})
  /\ UNCHANGED <<dossierVars, memoryVars, guidanceVars, conversationVars>>
BseOwnersMove ==
  /\ focus = "BSE owners" /\ HoldingsNext /\ OthersRest(NseNames, {"nse", "hand"})
  /\ UNCHANGED <<dossierVars, memoryVars, guidanceVars, conversationVars>>

KnowledgeNext ==
  /\ \/ DossiersMove \/ MemoryMoves \/ GuidanceMoves \/ ConversationsMove
     \/ NseOwnersMove \/ BseOwnersMove
  /\ UNCHANGED focus

\* DossierFairness, MemoryFairness and GuidanceFairness, of the subject that
\* moves.
KnowledgeFairness ==
  /\ WF_dossierVars(focus = "dossiers" /\ Night)
  /\ \A r \in Runners, c \in Listed : WF_dossierVars(focus = "dossiers" /\ TaskStep(r, c))
  /\ WF_memoryVars(focus = "memory" /\ IndexStep("monitor"))
  /\ WF_memoryVars(focus = "memory" /\ (BeginDigests \/ WriteDigest))
  /\ WF_guidanceVars(focus = "guidance" /\ ScorerStep("nightly"))

KnowledgeSpec ==
  KnowledgeInit /\ [][KnowledgeNext]_<<focus, knowledgeVars>> /\ KnowledgeFairness

\* Each subject's variables have their types (the type invariants of the five
\* modules).
KnowledgeTypeOK ==
  /\ focus \in Subjects
  /\ DossierTypeOK /\ MemoryTypeOK /\ GuidanceTypeOK /\ ConversationTypeOK
  /\ HoldingsTypeOK

\* What a talk gives out can be accounted for: the provider gets its own words
\* back, and the user citations of what was looked up (HistoryAccepted and
\* AnswerGrounded of Conversations).
TalkSound == HistoryAccepted /\ AnswerGrounded

=============================================================================
