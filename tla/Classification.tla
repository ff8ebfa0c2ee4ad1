--------------------------- MODULE Classification ---------------------------
(***************************************************************************)
(* What kind of company a share is of, and under which surveillance of the *)
(* exchange it trades: two jobs that are run by hand write it              *)
(* (company_type_sync, market_state_sync), the analysis routes by it       *)
(* through a profile that is cached for hours, and agents read it without  *)
(* the cache.  A stage or a band is a sequence of words, <<>> is NULL, a    *)
(* ratio is in whole units and a share or a growth in percent.             *)
(***************************************************************************)
EXTENDS Integers, Sequences, FiniteSets, FiniteSetsExt, SequencesExt, Functions

CONSTANTS
  Stocks,          \* active companies
  Readings,        \* bound: what the four lists of the exchange may say
  Outages,         \* bound: sets of feeds that may fail in one run
  Evidence,        \* bound: what the tables may say of a company
  Routers,         \* runs of the pipeline that ask for a profile
  AgentsAsking,         \* agents that ask for the classification itself
  ProfileTicks,      \* CACHE_TTL
  DayTicks,        \* ticks of one day
  MaxTicks, MaxWork, MaxStateFaults   \* bounds: MaxWork on the runs and the requests

Feeds == {"asm", "gsm", "esm", "band"}

ASSUME ClassificationAssumption ==
  /\ \A o \in Outages : o \subseteq Feeds
  /\ ProfileTicks \in Nat \ {0} /\ DayTicks \in Nat \ {0}
  /\ Routers \cap AgentsAsking = {} /\ MaxTicks \in Nat /\ MaxStateFaults \in Nat

VARIABLES
  market,      \* market_state: the row of each company and day
  fetched,     \* what the runs of market_state_sync under way have fetched
  types,       \* the classification in companies
  typeRun,     \* the run of company_type_sync
  profiles,    \* company:<symbol> in Redis
  lookup,      \* the readers
  ticks,
  written,     \* history: the committed runs of market_state_sync, in order
  held,        \* history: the classifications and states of each tick
  stateFaults

classVars == <<market, fetched, types, typeRun, profiles, lookup, ticks,
               written, held, stateFaults>>

Today    == ticks \div DayTicks
Days     == 0..(MaxTicks \div DayTicks)
NoEntry  == [listed |-> FALSE, stage |-> <<>>]
NoState  == [day |-> -1]
NoType   == [type |-> "", overlays |-> {}, fund |-> FALSE]
NoLookup == [at |-> "idle", asked |-> 0, of |-> "", type |-> NoType, state |-> NoState,
             came |-> FALSE, verdict |-> {}]
NoProfile == [until |-> 0]
Readers  == Routers \cup AgentsAsking

ClassificationInit ==
  /\ market = [s \in Stocks |-> [d \in Days |-> NoState]]
  /\ fetched = {}
  /\ types = [s \in Stocks |-> NoType]
  /\ typeRun = [at |-> "idle", runs |-> 0] /\ profiles = [s \in Stocks |-> NoProfile]
  /\ lookup = [c \in Readers |-> NoLookup]
  /\ ticks = 0 /\ written = <<>>
  /\ held = [t \in 0..MaxTicks |-> [s \in Stocks |->
       [types |-> IF t = 0 THEN {NoType} ELSE {}, states |-> IF t = 0 THEN {NoState} ELSE {}]]]
  /\ stateFaults = 0

StateFault == stateFaults < MaxStateFaults /\ stateFaults' = stateFaults + 1

-----------------------------------------------------------------------------
(* The lists of the exchange.                                              *)

Word(w) == IF w = "" THEN <<>> ELSE <<w>>

\* The stage in the code of a row, otherwise the one in its indicator or its
\* description.
StageIn(code, other) == IF code # "" THEN Word(code) ELSE Word(other)

Entry(stage) == [listed |-> TRUE, stage |-> stage]

\* parse_asm: a share may be on the long and on the short list; a row without a
\* stage is dropped.
ParseAsm(row) ==
  LET On(list, prefix) == LET stage == StageIn(row[list].code, row[list].indicator)
                          IN  IF stage = <<>> THEN <<>> ELSE <<prefix>> \o stage
      stages == On("longterm", "LT") \o On("shortterm", "ST")
  IN  IF stages = <<>> THEN NoEntry ELSE Entry(stages)

\* parse_gsm: a row without a stage is kept, the share is under surveillance.
ParseGsm(row) ==
  IF row.present THEN Entry(StageIn(row.code, row.desc)) ELSE NoEntry

\* parse_esm keeps such a row too: with nothing else said of the share its row
\* of the day is one of NULLs, and the newest that a reader finds.
ParseEsm(row) ==
  IF row.present THEN Entry(StageIn(row.indicator, row.code)) ELSE NoEntry

ParseSecList(row) ==
  IF row.series \in {"EQ", "BE"} THEN Entry(Word(row.band)) ELSE NoEntry

Parsed(reading, s) ==
  [asm |-> ParseAsm(reading[s].asm), gsm |-> ParseGsm(reading[s].gsm),
   esm |-> ParseEsm(reading[s].esm), band |-> ParseSecList(reading[s].band)]

-----------------------------------------------------------------------------
(* market_state_sync.                                                      *)

StandsAt(c, at) == lookup[c].at = at

\* Runs and requests, those under way included.
Work ==
  LET Begun(c) == lookup[c].asked + (IF StandsAt(c, "idle") THEN 0 ELSE 1)
  IN  Cardinality(fetched) + Len(written) + typeRun.runs
        + SumFunction([c \in Readers |-> Begun(c)])

\* fetch_feeds, each feed by itself: one that fails lists nothing and is not
\* ok.  When all fail there is nothing to write.  The day of the rows is that
\* of the end of the fetch (sync).  Runs may overlap; two that fetched the same
\* are told apart by nothing they do.
FetchFeeds ==
  /\ Work < MaxWork
  /\ \E reading \in Readings, down \in Outages \ {Feeds} :
       fetched' = fetched \cup
         {[ok |-> Feeds \ down, day |-> Today,
           found |-> [s \in Stocks |-> [f \in Feeds |->
                        IF f \in down THEN NoEntry ELSE Parsed(reading, s)[f]]]]}
  /\ UNCHANGED <<market, types, typeRun, profiles, lookup, ticks, written, held,
                 stateFaults>>

\* build_rows: one row for each company that is on any of the lists.
OnAList(run) == {s \in Stocks : \E f \in Feeds : run.found[s][f].listed}

Built(run, s) ==
  [day     |-> run.day,
   stage   |-> [f \in Feeds |-> run.found[s][f].stage],
   payload |-> {f \in Feeds : run.found[s][f].listed}]

\* With the feeds' flags forgotten: every column is overwritten.
MergedRow_All(old, new, ok) ==
  IF old = NoState THEN new ELSE [new EXCEPT !.payload = old.payload \cup @]

\* ON CONFLICT (symbol, as_of): the columns of the feeds that answered, and
\* the payloads side by side.
MergedRow(old, new, ok) ==
  IF old = NoState THEN new
  ELSE [day     |-> new.day,
        stage   |-> [f \in Feeds |-> IF f \in ok THEN new.stage[f] ELSE old.stage[f]],
        payload |-> old.payload \cup new.payload]

\* get_market_state: the row of the newest day.
NewestState(table, s) ==
  LET days == {d \in Days : table[s][d] # NoState}
  IN  IF days = {} THEN NoState ELSE table[s][Max(days)]

\* What the tables now hold is added to what this tick has seen.
Recorded(table, columns) ==
  held' = [held EXCEPT ![ticks] = [s \in Stocks |->
             [types  |-> held[ticks][s].types \cup {columns[s]},
              states |-> held[ticks][s].states \cup {NewestState(table, s)}]]]

\* upsert_rows: all rows in one transaction, which may fail; the log of the run
\* is of no consequence here.
UpsertRows ==
  /\ \E run \in fetched :
       /\ fetched' = fetched \ {run}
       /\ \/ /\ market' = [s \in Stocks |->
                  IF s \notin OnAList(run) THEN market[s]
                  ELSE [market[s] EXCEPT ![run.day] = MergedRow(@, Built(run, s), run.ok)]]
             /\ written' = Append(written, run)
             /\ Recorded(market', types)
             /\ UNCHANGED stateFaults
          \/ StateFault /\ UNCHANGED <<market, written, held>>
  /\ UNCHANGED <<types, typeRun, profiles, lookup, ticks>>

-----------------------------------------------------------------------------
(* company_type_sync.                                                      *)

\* Q_LATEST_TAXONOMY: the quarters are the latest first.
LatestTaxonomy(f) ==
  LET known == {i \in DOMAIN f.quarters : f.quarters[i].taxonomy # ""}
  IN  IF known = {} THEN "" ELSE f.quarters[Min(known)].taxonomy

\* Q_GUARD_IE_ZERO: a lender that earned no interest in its last four quarters.
NoInterest(f) ==
  /\ f.quarters # <<>>
  /\ \A i \in 1..Len(f.quarters) : i <= 4 => f.quarters[i].interest = 0

\* Q_DIVIDEND_SHARE, in percent, of the latest end of a year that has the facts.
DividendShare(f) ==
  LET years == {i \in DOMAIN f.quarters : f.quarters[i].income > 0}
  IN  IF years = {} THEN -1
      ELSE LET y == f.quarters[Min(years)] IN (100 * y.dividends) \div y.income

\* _mcap_rev: -1 for none.
Ratio(f) == IF f.revenue <= 0 THEN -1 ELSE f.mcap \div f.revenue

\* classify_primary: the first rule that holds.
Rules(f) ==
  LET taxonomy == LatestTaxonomy(f)
      lender   == taxonomy \in {"nbfc", "banking"}
      guarded  == lender /\ NoInterest(f) /\ Ratio(f) \in 0..4
      stakes   == Ratio(f) > 20
  IN  << <<"fund" \in f.name, "fund_scheme">>,
         <<guarded, "operating">>,
         <<taxonomy = "banking", "bank">>,
         <<taxonomy = "life_insurance", "insurer_life">>,
         <<taxonomy = "general_insurance", "insurer_general">>,
         <<taxonomy = "nbfc" /\ DividendShare(f) > 50, "holdco">>,
         <<taxonomy = "nbfc" /\ "amc" \in f.name, "amc">>,
         <<taxonomy = "nbfc" /\ "broker" \in f.name, "broker_wealth">>,
         <<taxonomy = "nbfc" /\ stakes, "holdco">>,
         <<taxonomy = "nbfc", "nbfc_lender">>,
         <<"holding" \in f.name /\ stakes, "holdco">>,
         <<f.quarters # <<>>, "operating">>,
         <<TRUE, "unknown">> >>

Primary(f) == LET r == Rules(f) IN r[Min({i \in DOMAIN r : r[i][1]})][2]

\* attach_overlays, of which those that a reader acts upon are told apart.
Overlays(f) ==
  f.marks \cup (IF f.traded THEN {} ELSE {"suspended"})
          \cup (IF f.pat < 0 THEN {"loss_making"} ELSE {})

Classified(f) ==
  [type |-> Primary(f), overlays |-> Overlays(f), fund |-> Primary(f) = "fund_scheme"]

\* compute, on what the other tables say of each company at that moment.
ComputeTypes ==
  /\ typeRun.at = "idle" /\ Work < MaxWork
  /\ \E f \in [Stocks -> Evidence] :
       typeRun' = [at |-> "classified", runs |-> typeRun.runs + 1,
                   result |-> [s \in Stocks |-> Classified(f[s])]]
  /\ UNCHANGED <<market, fetched, types, profiles, lookup, ticks, written, held,
                 stateFaults>>

\* run --execute: one update of each company, one transaction.
WriteTypes ==
  /\ typeRun.at = "classified"
  /\ typeRun' = [at |-> "idle", runs |-> typeRun.runs]
  /\ \/ types' = typeRun.result /\ Recorded(market, types') /\ UNCHANGED stateFaults
     \/ StateFault /\ UNCHANGED <<types, held>>
  /\ UNCHANGED <<market, fetched, profiles, lookup, ticks, written>>

-----------------------------------------------------------------------------
(* The readers.                                                            *)

Proceeds(c, next) == lookup' = [lookup EXCEPT ![c] = next]

\* get_company: a live profile is the answer.  When there is none, or Redis does
\* not answer, the company is read.  An agent asks for the classification
\* itself, past the cache.
Look(c) ==
  /\ StandsAt(c, "idle") /\ Work < MaxWork
  /\ \E s \in Stocks :
       \/ /\ c \in Routers /\ ticks < profiles[s].until
          /\ Proceeds(c, [lookup[c] EXCEPT !.at = "answered", !.of = s,
                            !.type = profiles[s].type, !.state = profiles[s].state])
          /\ UNCHANGED stateFaults
       \/ /\ IF c \in Routers /\ ticks < profiles[s].until THEN StateFault ELSE UNCHANGED stateFaults
          /\ Proceeds(c, [lookup[c] EXCEPT !.at = "company", !.of = s, !.type = types[s]])
  /\ UNCHANGED <<market, fetched, types, typeRun, profiles, ticks, written, held>>

\* get_market_state in a session of its own; an error reads like a share that
\* is on no list.
ReadState(c) ==
  /\ StandsAt(c, "company")
  /\ \/ /\ Proceeds(c, [lookup[c] EXCEPT !.at = IF c \in Routers THEN "store" ELSE "answered",
                                         !.state = NewestState(market, lookup[c].of)])
        /\ UNCHANGED stateFaults
     \/ /\ c \in Routers /\ StateFault
        /\ Proceeds(c, [lookup[c] EXCEPT !.at = "store", !.state = NoState])
  /\ UNCHANGED <<market, fetched, types, typeRun, profiles, ticks, written, held>>

\* The profile is set without an expiry.
StoreProfile_NoExpiry(c) ==
  /\ StandsAt(c, "store") /\ Proceeds(c, [lookup[c] EXCEPT !.at = "answered"])
  /\ \/ /\ profiles' = [profiles EXCEPT ![lookup[c].of] =
                         [until |-> MaxTicks + 1, type |-> lookup[c].type,
                          state |-> lookup[c].state]]
        /\ UNCHANGED stateFaults
     \/ StateFault /\ UNCHANGED profiles
  /\ UNCHANGED <<market, fetched, types, typeRun, ticks, written, held>>

\* The profile is cached for CACHE_TTL, unless Redis does not answer.
StoreProfile(c) ==
  /\ StandsAt(c, "store") /\ Proceeds(c, [lookup[c] EXCEPT !.at = "answered"])
  /\ \/ /\ profiles' = [profiles EXCEPT ![lookup[c].of] =
                         [until |-> ticks + ProfileTicks, type |-> lookup[c].type,
                          state |-> lookup[c].state]]
        /\ UNCHANGED stateFaults
     \/ StateFault /\ UNCHANGED profiles
  /\ UNCHANGED <<market, fetched, types, typeRun, ticks, written, held>>

\* invalidate_cache, of a sync of results.
DropProfile ==
  /\ \E s \in Stocks : profiles[s] # NoProfile /\ profiles' = [profiles EXCEPT ![s] = NoProfile]
  /\ UNCHANGED <<market, fetched, types, typeRun, lookup, ticks, written, held, stateFaults>>

StageOf(state, f) == IF state = NoState THEN <<>> ELSE state.stage[f]

\* _suppression, with its reason.
Suppression(type) ==
  IF type.fund THEN {"fund_scheme"}
  ELSE IF type.type \in {"", "unknown"} /\ "suspended" \in type.overlays
       THEN {"unknown_type_suspended"} ELSE {}

Frozen == {<<"III">>, <<"IV">>, <<"V">>, <<"VI">>}

\* _state_flags.
StateFlags(state) ==
  {f \in {"gsm", "esm"} : IF f = "gsm" THEN StageOf(state, f) \in Frozen
                                     ELSE StageOf(state, f) = <<"II">>}

\* route: a profile that did not come within the two seconds of its caller
\* suppresses and flags nothing.
Routed(type, state, came) ==
  IF came THEN Suppression(type) \cup StateFlags(state) ELSE {}

\* _classification_hints: what an agent is told, one word for each line.
Hints(type, state) ==
  (IF type.fund THEN {"fund scheme"} ELSE {})
    \cup ({type.type} \cap {"holdco", "bank", "insurer_life", "insurer_general"})
    \cup (IF type.type = "holdco" THEN {} ELSE type.overlays \cap {"cic_declared"})
    \cup (type.overlays \cap {"suspended", "circuit_prone"})
    \cup StateFlags(state)
    \cup (IF StageOf(state, "asm") # <<>> THEN {"asm"} ELSE {})
    \cup (IF StageOf(state, "band") \in {<<"2">>, <<"5">>} THEN {"band"} ELSE {})

\* The reader goes by what it was given, which fails open.
TakeVerdict(c) ==
  /\ StandsAt(c, "answered")
  /\ \E came \in BOOLEAN :
       Proceeds(c, [NoLookup EXCEPT
         !.asked = lookup[c].asked + 1, !.of = lookup[c].of, !.came = came,
         !.verdict = IF c \in Routers THEN Routed(lookup[c].type, lookup[c].state, came)
                     ELSE IF came THEN Hints(lookup[c].type, lookup[c].state) ELSE {}])
  /\ UNCHANGED <<market, fetched, types, typeRun, profiles, ticks, written, held, stateFaults>>

\* Time.  Bound: a request is answered, and gone by, within one tick.
Tick ==
  /\ ticks < MaxTicks /\ \A c \in Readers : StandsAt(c, "idle")
  /\ ticks' = ticks + 1
  /\ lookup' = [c \in Readers |-> [NoLookup EXCEPT !.asked = lookup[c].asked]]
  /\ profiles' = [s \in Stocks |-> IF profiles[s].until <= ticks' THEN NoProfile ELSE profiles[s]]
  /\ held' = [held EXCEPT ![ticks'] = [s \in Stocks |->
               [types |-> {types[s]}, states |-> {NewestState(market, s)}]]]
  /\ UNCHANGED <<market, fetched, types, typeRun, written, stateFaults>>

ClassificationNext ==
  \/ FetchFeeds \/ UpsertRows
  \/ ComputeTypes \/ WriteTypes
  \/ \E c \in Readers : Look(c) \/ ReadState(c) \/ StoreProfile(c) \/ TakeVerdict(c)
  \/ DropProfile \/ Tick

ClassificationSpec == ClassificationInit /\ [][ClassificationNext]_classVars

-----------------------------------------------------------------------------
(* Properties.                                                             *)

\* Types of the variables (market_state, companies, the profiles in Redis).
ClassificationTypeOK ==
  /\ \A s \in Stocks, d \in Days :
       market[s][d] # NoState => /\ market[s][d].day = d /\ DOMAIN market[s][d].stage = Feeds
                                 /\ market[s][d].payload \subseteq Feeds
  /\ \A s \in Stocks : profiles[s].until \in 0..(MaxTicks + ProfileTicks)
  /\ \A c \in Routers : StandsAt(c, "idle") /\ lookup[c].came => lookup[c].verdict \subseteq
       {"fund_scheme", "unknown_type_suspended", "gsm", "esm"}
  /\ stateFaults \in 0..MaxStateFaults

\* A stage or a band in the table is the one of the last committed run of that
\* day whose feed answered, among those that saw the company on any list: a run
\* whose feed failed takes back nothing that was read before, whatever else it
\* read, and however runs overlap (market_state_sync.py:26-29, 228-232).
FeedsKept ==
  \A s \in Stocks, d \in Days :
    LET saw      == {i \in DOMAIN written : written[i].day = d /\ s \in OnAList(written[i])}
        heard(f) == {i \in saw : f \in written[i].ok}
    IN  IF saw = {} THEN market[s][d] = NoState
        ELSE /\ market[s][d] # NoState
             /\ \A f \in Feeds : market[s][d].stage[f] =
                  IF heard(f) = {} THEN <<>> ELSE written[Max(heard(f))].found[s][f].stage

\* What a reader goes by was true a short while ago: a route that suppresses or
\* flags a company, or lets it pass, does it by a classification and by a
\* surveillance state that the tables held no longer than the life of a profile
\* ago, each of them or none, and an agent by ones they held during its request
\* (api.py:187-192, grounding/queries.py:187).
VerdictHeld ==
  \A c \in Readers : StandsAt(c, "idle") /\ lookup[c].came =>
    LET since == IF c \in AgentsAsking THEN ticks ELSE Max({0, ticks - ProfileTicks + 1})
        known == UNION {held[t][lookup[c].of].types : t \in since..ticks}
        seen  == UNION {held[t][lookup[c].of].states : t \in since..ticks}
    IN  IF c \in Routers
        THEN \E type \in known, state \in seen \cup {NoState} :
               lookup[c].verdict = Routed(type, state, TRUE)
        ELSE \E type \in known, state \in seen : lookup[c].verdict = Hints(type, state)

=============================================================================
