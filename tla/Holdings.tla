------------------------------ MODULE Holdings ------------------------------
(***************************************************************************)
(* Who owns a company, as it submits it to its exchange every quarter: the *)
(* weekly sweeps of NSE and of BSE read the submissions into               *)
(* shareholding_patterns, take the named holders out of each on the way    *)
(* (investor_holdings), and read corporate actions; NSE's ends with the    *)
(* stakes of listed companies in each other (company_relationships).  A    *)
(* sweep of NSE patterns can be started by hand, and so can the backfill   *)
(* of the holders from the patterns that are there.                        *)
(*                                                                         *)
(* A submission is its number in the order of filing; a listing has the    *)
(* newest first, and the revisions of a quarter are submissions of it.     *)
(***************************************************************************)
EXTENDS Integers, Sequences, FiniteSets

CONSTANTS
  NseNames, BseNames,   \* RESEARCH_UNIVERSE and bse_universe
  Submissions,    \* of each company: quarter, named holders, listed ones
  CorpActions,    \* of each company: ex date and type of what it announces
  ReportQuarters, Stakeholders, ActionKeys,
  QuartersKept,       \* quarters of a sweep
  BackfillQuarters,   \* quarters of a backfill
  MaxHoldingFaults    \* bound

Owned  == NseNames \cup BseNames
NoName == "no company"

ASSUME HoldingsAssumption ==
  /\ NseNames \cap BseNames = {} /\ NoName \notin Owned /\ ReportQuarters \subseteq Nat
  /\ Submissions \in [Owned -> Seq([quarter : ReportQuarters, names : SUBSET Stakeholders,
                                    owners : SUBSET Stakeholders])]
  /\ CorpActions \in [Owned -> Seq(ActionKeys)]
  /\ QuartersKept \in Nat \ {0} /\ BackfillQuarters \in Nat \ {0} /\ MaxHoldingFaults \in Nat

\* The NSE and the BSE sweep, and the one by hand.
Sweepers == {"nse", "bse", "hand"}

VARIABLES
  submitted, declared,   \* submissions and actions of each company so far
  stage, awaited,    \* what a sweep is at, and the companies it has still to visit
  visit,             \* the company in hand
  pattern,           \* shareholding_patterns, by quarter
  holding,           \* investor_holdings: the submission a holder's row is of
  corpAction,        \* corporate_actions, by ex date and type
  stakes, edge,      \* found by the ownership run; company_relationships
  copying,           \* rows the backfill has still to copy
  uncaptured,        \* history: submissions whose holders could not be written
  holdingFaults

holdingVars == <<submitted, declared, stage, awaited, visit, pattern, holding, corpAction,
                 stakes, edge, copying, uncaptured, holdingFaults>>

Paper(c, s) == Submissions[c][s]

\* A row is of a submission; the listing it was picked from and what could not be
\* read of it are history.
TableRow(of, page, unread) == [of |-> of, page |-> page, unread |-> unread]
NoEntry == TableRow(0, 0, {})

Visiting(of, page, next, kept, unread) ==
  [of |-> of, page |-> page, next |-> next, kept |-> kept, unread |-> unread]
NothingKept == [q \in ReportQuarters |-> 0]
Nowhere == Visiting(NoName, 0, 0, NothingKept, {})

HoldingsInit ==
  /\ submitted = [c \in Owned |-> 0] /\ declared = [c \in Owned |-> 0]
  /\ stage = [j \in Sweepers |-> "idle"] /\ awaited = [j \in Sweepers |-> {}]
  /\ visit = [j \in Sweepers |-> Nowhere]
  /\ pattern = [c \in Owned |-> [q \in ReportQuarters |-> NoEntry]]
  /\ holding = [c \in Owned |-> [q \in ReportQuarters |-> [h \in Stakeholders |-> 0]]]
  /\ corpAction = [c \in Owned |-> [k \in ActionKeys |-> NoEntry]]
  /\ stakes = {} /\ edge = [c \in Owned |-> [h \in Stakeholders |-> 0]]
  /\ copying = {} /\ uncaptured = {} /\ holdingFaults = 0

HoldingFault == holdingFaults < MaxHoldingFaults /\ holdingFaults' = holdingFaults + 1

filings == <<submitted, declared>>
sweeps  == <<stage, awaited, visit>>
tables  == <<pattern, holding, corpAction, edge>>

-----------------------------------------------------------------------------
(* The companies.                                                          *)

Submit(c) ==
  /\ submitted[c] < Len(Submissions[c])
  /\ submitted' = [submitted EXCEPT ![c] = @ + 1]
  /\ UNCHANGED <<declared, sweeps, tables, stakes, copying, uncaptured, holdingFaults>>

Declare(c) ==
  /\ declared[c] < Len(CorpActions[c])
  /\ declared' = [declared EXCEPT ![c] = @ + 1]
  /\ UNCHANGED <<submitted, sweeps, tables, stakes, copying, uncaptured, holdingFaults>>

-----------------------------------------------------------------------------
(* The sweeps.                                                             *)

SweptBy(j) == IF j = "bse" THEN BseNames ELSE NseNames

\* NSE: patterns, actions, owners.  BSE: actions, patterns.  By hand: patterns.
StageAfter(j, s) ==
  CASE s = "idle" -> IF j = "bse" THEN "actions" ELSE "patterns"
    [] j = "nse" /\ s = "patterns" -> "actions"
    [] j = "nse" /\ s = "actions" -> "owners"
    [] j = "bse" /\ s = "actions" -> "patterns"
    [] OTHER -> "idle"

EnterStage(j, s) ==
  /\ stage' = [stage EXCEPT ![j] = s]
  /\ awaited' = [awaited EXCEPT ![j] = IF s = "idle" THEN {} ELSE SweptBy(j)]

NextStage(j) ==
  /\ awaited[j] = {} /\ visit[j].of = NoName /\ stage[j] # "owners"
  /\ EnterStage(j, StageAfter(j, stage[j]))
  /\ UNCHANGED <<filings, visit, tables, stakes, copying, uncaptured, holdingFaults>>

OpenListing(j) ==
  /\ stage[j] \in {"patterns", "actions"} /\ visit[j].of = NoName
  /\ \E c \in awaited[j] :
       LET page == IF stage[j] = "patterns" THEN submitted[c] ELSE declared[c]
       IN  visit' = [visit EXCEPT ![j] = Visiting(c, page, page, NothingKept, {})]
  /\ UNCHANGED <<filings, stage, awaited, tables, stakes, copying, uncaptured, holdingFaults>>

\* How far down a listing a sweep goes: of BSE twice as far, for the revisions.
Reach(c) == IF c \in NseNames THEN QuartersKept ELSE 2 * QuartersKept

QuartersSeen(v) == {q \in ReportQuarters : v.kept[q] # 0}

ListingRead(v) ==
  \/ v.next = 0
  \/ v.next <= v.page - Reach(v.of)
  \/ v.of \in BseNames /\ Cardinality(QuartersSeen(v)) >= QuartersKept

\* The company is done with.
LeaveCompany(j) ==
  /\ visit' = [visit EXCEPT ![j] = Nowhere]
  /\ awaited' = [awaited EXCEPT ![j] = @ \ {visit[j].of}]

\* The listing is no JSON; or, of BSE, anything fails but reading a submission.
SkipCompany(j) ==
  LET v == visit[j]
  IN  /\ v.of # NoName
      /\ v.next = v.page \/ (j = "bse" /\ ListingRead(v))
      /\ HoldingFault
      /\ LeaveCompany(j)
      /\ UNCHANGED <<filings, stage, tables, stakes, copying, uncaptured>>

StopSweeps(js) ==
  /\ stage' = [j \in Sweepers |-> IF j \in js THEN "idle" ELSE stage[j]]
  /\ awaited' = [j \in Sweepers |-> IF j \in js THEN {} ELSE awaited[j]]
  /\ visit' = [j \in Sweepers |-> IF j \in js THEN Nowhere ELSE visit[j]]
  /\ stakes' = IF "nse" \in js THEN {} ELSE stakes

\* Of NSE it ends the sweep, and the stages that were to come with it.
AbortSweep(j) ==
  LET v == visit[j]
  IN  /\ j # "bse" /\ stage[j] # "idle"
      /\ stage[j] # "owners" => v.of # NoName /\ (v.next = v.page \/ ListingRead(v))
      /\ HoldingFault
      /\ StopSweeps({j})
      /\ UNCHANGED <<filings, tables, copying, uncaptured>>

MonitorStops ==
  /\ HoldingFault
  /\ StopSweeps({"nse", "bse"})
  /\ UNCHANGED <<filings, tables, copying, uncaptured>>

-----------------------------------------------------------------------------
(* Patterns, and the holders they name.                                    *)

\* Mutant: BSE takes every revision, as NSE does.
Superseded_Never(v) == FALSE

\* A newer revision of the quarter was read: only BSE's sweep looks.
Superseded(v) == v.of \in BseNames /\ v.kept[Paper(v.of, v.next).quarter] # 0

Passed(v, kept, unread) == Visiting(v.of, v.page, v.next - 1, kept, unread)

\* upsert_holdings: whom an earlier revision named keeps a row.
HoldersOf(c, s) ==
  [holding EXCEPT ![c][Paper(c, s).quarter] =
     [h \in Stakeholders |-> IF h \in Paper(c, s).names THEN s ELSE @[h]]]

\* A submission that cannot be read is left out.  The holders of one that can are
\* written at once; that they cannot does not keep the pattern out.
ReadSubmission(j) ==
  LET v == visit[j]
      kept == [v.kept EXCEPT ![Paper(v.of, v.next).quarter] = v.next]
  IN  /\ stage[j] = "patterns" /\ v.of # NoName /\ ~ListingRead(v)
      /\ \/ /\ HoldingFault
            /\ visit' = [visit EXCEPT ![j] = Passed(v, v.kept, v.unread \cup {v.next})]
            /\ UNCHANGED <<holding, uncaptured>>
         \/ /\ Superseded(v)
            /\ visit' = [visit EXCEPT ![j] = Passed(v, v.kept, v.unread)]
            /\ UNCHANGED <<holding, uncaptured, holdingFaults>>
         \/ /\ ~Superseded(v)
            /\ visit' = [visit EXCEPT ![j] = Passed(v, kept, v.unread)]
            /\ holding' = HoldersOf(v.of, v.next)
            /\ UNCHANGED <<uncaptured, holdingFaults>>
         \/ /\ ~Superseded(v) /\ HoldingFault
            /\ visit' = [visit EXCEPT ![j] = Passed(v, kept, v.unread)]
            /\ uncaptured' = uncaptured \cup {<<v.of, v.next>>}
            /\ UNCHANGED holding
      /\ UNCHANGED <<filings, stage, awaited, pattern, corpAction, stakes, edge, copying>>

\* upsert_rows: the rows in the order of the listing, so that of two for a quarter
\* the older one stays.
UpsertPatterns(j) ==
  LET v == visit[j]
  IN  /\ stage[j] = "patterns" /\ v.of # NoName /\ ListingRead(v)
      /\ pattern' = [pattern EXCEPT ![v.of] =
           [q \in ReportQuarters |-> IF v.kept[q] = 0 THEN @[q]
                                     ELSE TableRow(v.kept[q], v.page, v.unread)]]
      /\ LeaveCompany(j)
      /\ UNCHANGED <<filings, stage, holding, corpAction, stakes, edge, copying, uncaptured,
                     holdingFaults>>

-----------------------------------------------------------------------------
(* Corporate actions and owners.                                           *)

\* Number s is the first of its key in a listing of p.
FirstListed(c, p, k, s) ==
  s \in 1..p /\ CorpActions[c][s] = k /\ \A t \in (s + 1)..p : CorpActions[c][t] # k

UpsertActions(j) ==
  LET v == visit[j]
      First(k) == {s \in 1..v.page : FirstListed(v.of, v.page, k, s)}
  IN  /\ stage[j] = "actions" /\ v.of # NoName
      /\ corpAction' = [corpAction EXCEPT ![v.of] =
           [k \in ActionKeys |-> IF First(k) = {} THEN @[k]
                                 ELSE TableRow(CHOOSE s \in First(k) : TRUE, v.page, {})]]
      /\ LeaveCompany(j)
      /\ UNCHANGED <<filings, stage, pattern, holding, stakes, edge, copying, uncaptured,
                     holdingFaults>>

\* The owners are those of the newest submission, which may not be readable.
ReadOwners ==
  /\ stage["nse"] = "owners"
  /\ \E c \in awaited["nse"] :
       /\ awaited' = [awaited EXCEPT !["nse"] = @ \ {c}]
       /\ \/ /\ submitted[c] # 0
             /\ stakes' = stakes \cup
                  ({c} \X Paper(c, submitted[c]).owners \X {submitted[c]})
             /\ UNCHANGED holdingFaults
          \/ submitted[c] = 0 /\ UNCHANGED <<stakes, holdingFaults>>
          \/ HoldingFault /\ UNCHANGED stakes
  /\ UNCHANGED <<filings, stage, visit, tables, copying, uncaptured>>

\* All edges in one transaction, when the last company was read.
WriteEdges ==
  /\ stage["nse"] = "owners" /\ awaited["nse"] = {}
  /\ edge' = [c \in Owned |-> [h \in Stakeholders |->
       LET found == {s \in 1..submitted[c] : <<c, h, s>> \in stakes}
       IN  IF found = {} THEN edge[c][h] ELSE CHOOSE s \in found : TRUE]]
  /\ StopSweeps({"nse"})
  /\ UNCHANGED <<filings, pattern, holding, corpAction, copying, uncaptured, holdingFaults>>

-----------------------------------------------------------------------------
(* The backfill.                                                           *)

Later(c, q) == {r \in ReportQuarters : r > q /\ pattern[c][r].of # 0}

\* The newest quarters of every company, as they are when it begins.
Newest ==
  {p \in Owned \X ReportQuarters :
     pattern[p[1]][p[2]].of # 0 /\ Cardinality(Later(p[1], p[2])) < BackfillQuarters}

StartBackfill ==
  /\ copying = {}
  /\ copying' = {<<p[1], pattern[p[1]][p[2]].of>> : p \in Newest}
  /\ UNCHANGED <<filings, sweeps, tables, stakes, uncaptured, holdingFaults>>

\* A submission is fetched again, if it can be.
CopyHolders ==
  /\ \E r \in copying :
       /\ copying' = copying \ {r}
       /\ \/ holding' = HoldersOf(r[1], r[2]) /\ UNCHANGED holdingFaults
          \/ HoldingFault /\ UNCHANGED holding
  /\ UNCHANGED <<filings, sweeps, pattern, corpAction, edge, stakes, uncaptured>>

BackfillStops ==
  /\ copying # {} /\ HoldingFault /\ copying' = {}
  /\ UNCHANGED <<filings, sweeps, tables, stakes, uncaptured>>

-----------------------------------------------------------------------------
SweepStep(j) ==
  \/ NextStage(j) \/ OpenListing(j) \/ SkipCompany(j) \/ AbortSweep(j)
  \/ ReadSubmission(j) \/ UpsertPatterns(j) \/ UpsertActions(j)

HoldingsNext ==
  \/ \E c \in Owned : Submit(c) \/ Declare(c)
  \/ \E j \in Sweepers : SweepStep(j)
  \/ MonitorStops \/ ReadOwners \/ WriteEdges
  \/ StartBackfill \/ CopyHolders \/ BackfillStops

HoldingsSpec == HoldingsInit /\ [][HoldingsNext]_holdingVars

-----------------------------------------------------------------------------
(* Properties.                                                             *)

Rows == [of : Nat, page : Nat, unread : SUBSET Nat]

HoldingsTypeOK ==
  /\ submitted \in [Owned -> Nat] /\ declared \in [Owned -> Nat]
  /\ stage \in [Sweepers -> {"idle", "patterns", "actions", "owners"}]
  /\ awaited \in [Sweepers -> SUBSET Owned]
  /\ visit \in [Sweepers -> [of : Owned \cup {NoName}, page : Nat, next : Nat,
                             kept : [ReportQuarters -> Nat], unread : SUBSET Nat]]
  /\ pattern \in [Owned -> [ReportQuarters -> Rows]]
  /\ holding \in [Owned -> [ReportQuarters -> [Stakeholders -> Nat]]]
  /\ corpAction \in [Owned -> [ActionKeys -> Rows]]
  /\ stakes \subseteq Owned \X Stakeholders \X Nat
  /\ edge \in [Owned -> [Stakeholders -> Nat]]
  /\ copying \subseteq Owned \X Nat /\ uncaptured \subseteq Owned \X Nat
  /\ holdingFaults \in 0..MaxHoldingFaults

\* Submission s of company c was filed, for quarter q.
FiledFor(c, q, s) == s \in 1..submitted[c] /\ Paper(c, s).quarter = q

\* A pattern is of its quarter, and whom it names has a row, unless the rows could
\* not be written.
PatternsTraced ==
  \A c \in Owned, q \in ReportQuarters :
    LET r == pattern[c][q]
    IN  r.of # 0 =>
          /\ FiledFor(c, q, r.of) /\ r.of <= r.page
          /\ \A h \in Paper(c, r.of).names : holding[c][q][h] # 0 \/ <<c, r.of>> \in uncaptured

\* Of the revisions in a listing BSE's newest counts, and NSE's oldest that is
\* within reach, of those that could be read.
RevisionsKept ==
  \A c \in Owned, q \in ReportQuarters :
    LET r == pattern[c][q]
    IN  r.of # 0 => \A t \in 1..r.page :
          /\ Paper(c, t).quarter = q
          /\ IF c \in BseNames THEN t > r.of ELSE t < r.of /\ t > r.page - QuartersKept
          => t \in r.unread

\* A holder's row is of a submission of that quarter that names the holder.
HoldersTraced ==
  \A c \in Owned, q \in ReportQuarters, h \in Stakeholders :
    LET s == holding[c][q][h]
    IN  s # 0 => FiledFor(c, q, s) /\ h \in Paper(c, s).names

\* An edge is of a submission that has the stake, an action the first of its key in
\* the listing.
OthersTraced ==
  \A c \in Owned :
    /\ \A h \in Stakeholders :
         edge[c][h] # 0 => edge[c][h] \in 1..submitted[c] /\ h \in Paper(c, edge[c][h]).owners
    /\ \A k \in ActionKeys :
         LET r == corpAction[c][k]
         IN  r.of # 0 => r.page <= declared[c] /\ FirstListed(c, r.page, k, r.of)

\* What is known of the owners of a company can be traced to what it submitted
\* (kb/sync/bse_shareholding_sync.py:97, "keep the latest revision").
HoldingsTraced == PatternsTraced /\ RevisionsKept /\ HoldersTraced /\ OthersTraced

=============================================================================
