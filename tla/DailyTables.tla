----------------------------- MODULE DailyTables -----------------------------
(***************************************************************************)
(* The tables that the monitor fills when a day is over: the closes of two *)
(* exchanges, the positions of the participants and the large deals.  Each *)
(* is a loop of its own that wakes at its hour and looks back a few days;  *)
(* the load by hand takes more days and commits several at a time.  Days   *)
(* are numbers, and day 0 is a Monday.  The companies are of three kinds:  *)
(* those kept under NSE, those that NSE lists too but that are kept under  *)
(* BSE, and those that only BSE lists.                                     *)
(***************************************************************************)
EXTENDS Integers, FiniteSets

CONSTANTS
  Holidays,       \* working days without trading
  Names,          \* how many companies there are of each kind
  EnoughRows, EnoughBse,   \* rows with which a date counts as loaded
  DailyDays, ByHandDays,   \* days that a daily run and one by hand look back
  DealDays,       \* days that the BSE deals look back
  CommitEvery,
  FirstDay, LastDay, MaxByHand, MaxTableFaults   \* bounds

NameKinds == {"nse", "both", "bse"}
Days      == 0..LastDay
NoDay     == -1
Sources   == {"NSE", "BSE"}
DealLists == {"NSE deals", "BSE deals"}
Daily     == {"nse", "bse"}
Loads     == Daily \cup {"byHand"}
Evening   == Daily \cup {"oi", "deals"}

\* sync_bse_prices, loaded_threshold
Threshold ==
  LET share == (6 * (Names["both"] + Names["bse"])) \div 10
  IN  IF share > EnoughBse THEN share ELSE EnoughBse

\* The names that NSE prices too do not fill the threshold by themselves.
ASSUME TablesAssumption ==
  /\ Names \in [NameKinds -> Nat] /\ Names["both"] < Threshold
  /\ EnoughRows \in Nat /\ EnoughBse \in Nat /\ DealDays \in Nat
  /\ DailyDays \in Nat \ {0} /\ ByHandDays \in Nat \ {0} /\ CommitEvery \in Nat \ {0}
  /\ FirstDay \in Nat /\ LastDay \in Nat /\ FirstDay <= LastDay
  /\ MaxByHand \in Nat /\ MaxTableFaults \in Nat

VARIABLES
  today,
  due,        \* the jobs of this evening that have not begun
  load,       \* the price jobs: where they are, days left, days not committed
  closes,     \* price_points: by day and kind, the exchange the closes are of
  oi,         \* participant_oi: its days
  deals,      \* market_deals: list and day
  priced,     \* _price_sync_date
  gaps,       \* history: what a run of an evening did not get, by its day
  handLoads, tableFaults

tableVars == <<today, due, load, closes, oi, deals, priced, gaps, handLoads, tableFaults>>

Weekend(d) == d % 7 \in {5, 6}
Trading(d) == ~Weekend(d) /\ d \notin Holidays

\* sync_participant_oi takes the day before.
OiWanted(e) == {d \in Days : d = e - 1 /\ Trading(d)}

Job(at, left, held, count) == [at |-> at, left |-> left, held |-> held, count |-> count]
Asleep == Job("idle", {}, {}, 0)

DueOn(d) == IF Weekend(d) THEN {} ELSE Evening

\* run_monitor asks for the positions once before its loops begin.
TablesInit ==
  /\ today = FirstDay /\ due = DueOn(FirstDay)
  /\ load = [j \in Loads |-> Asleep]
  /\ closes = [d \in Days |-> [k \in NameKinds |-> "none"]]
  /\ oi \in SUBSET OiWanted(FirstDay) /\ deals = {} /\ priced = NoDay
  /\ gaps = {} /\ handLoads = 0 /\ tableFaults = 0

TableFault == tableFaults < MaxTableFaults /\ tableFaults' = tableFaults + 1
LoadGoes(j, next) == load' = [load EXCEPT ![j] = next]
OtherTables == <<oi, deals>>

\* last_trading_day, which knows weekends only
LastWeekday(d) == IF d % 7 = 5 THEN d - 1 ELSE IF d % 7 = 6 THEN d - 2 ELSE d

\* The days of a run on day e that looks back n days.
LookBack(e, n) == {d \in Days : LastWeekday(e) - n < d /\ d <= LastWeekday(e) /\ ~Weekend(d)}

File(j)      == IF j = "bse" THEN "BSE" ELSE "NSE"
Covers(file) == IF file = "NSE" THEN {"nse", "both"} ELSE {"both", "bse"}
Lost(j, days) == IF j = "byHand" THEN {} ELSE {File(j)} \X days \X {today}

-----------------------------------------------------------------------------
(* Closes.                                                                 *)

StartDaily(j) ==
  /\ j \in due /\ load[j] = Asleep /\ (j = "bse" => due \cap {"nse", "oi"} = {})
  /\ due' = due \ {j}
  /\ LoadGoes(j, Job("check", LookBack(today, DailyDays), {}, 0))
  /\ UNCHANGED <<today, closes, OtherTables, priced, gaps, handLoads, tableFaults>>

\* sync_all, or sync-prices of the command line
StartByHand ==
  /\ handLoads < MaxByHand /\ load["byHand"] = Asleep
  /\ handLoads' = handLoads + 1
  /\ LoadGoes("byHand", Job("check", LookBack(today, ByHandDays), {}, 0))
  /\ UNCHANGED <<today, due, closes, OtherTables, priced, gaps, tableFaults>>

\* The newest day comes first.
InHand(j) == CHOOSE d \in load[j].left : \A e \in load[j].left : e <= d

Has(d, k) == IF closes[d][k] = "none" THEN 0 ELSE Names[k]

\* Mutant: a fixed number of rows, as it once was.
Present_Fixed(file, d) ==
  IF file = "NSE" THEN Has(d, "nse") + Has(d, "both") + Has(d, "bse") > EnoughRows
  ELSE Has(d, "both") + Has(d, "bse") > EnoughRows

\* The date counts as loaded: the NSE job counts the rows of every company.
Present(file, d) ==
  IF file = "NSE" THEN Has(d, "nse") + Has(d, "both") + Has(d, "bse") > EnoughRows
  ELSE Has(d, "both") + Has(d, "bse") >= Threshold

DropDay(j, held) == Job("check", load[j].left \ {InHand(j)}, held, load[j].count)
AtDay(j, at)     == Job(at, load[j].left, load[j].held, load[j].count)

CheckDay(j) ==
  /\ load[j].at = "check" /\ load[j].left # {}
  /\ LoadGoes(j, IF Present(File(j), InHand(j)) THEN DropDay(j, load[j].held) ELSE AtDay(j, "fetch"))
  /\ UNCHANGED <<today, due, closes, OtherTables, priced, gaps, handLoads, tableFaults>>

\* fetch_bhavcopy, fetch_bse_bhavcopy: no rows on a day without trading, and none
\* when the download fails, which the run does not tell apart.
FetchDay(j) ==
  /\ load[j].at = "fetch"
  /\ IF ~Trading(InHand(j)) THEN LoadGoes(j, DropDay(j, load[j].held)) /\ UNCHANGED <<gaps, tableFaults>>
     ELSE \/ LoadGoes(j, AtDay(j, "insert")) /\ UNCHANGED <<gaps, tableFaults>>
          \/ /\ TableFault
             /\ LoadGoes(j, DropDay(j, load[j].held))
             /\ gaps' = gaps \cup Lost(j, {InHand(j)})
  /\ UNCHANGED <<today, due, closes, OtherTables, priced, handLoads>>

\* Job i has rows in its transaction that job j would add too.
HoldsRows(i, j, d) ==
  d \in load[i].held /\ \E k \in Covers(File(i)) \cap Covers(File(j)) : closes[d][k] = "none"

\* The rows of a day go into the transaction; those that another one holds are
\* waited for.  An error rolls back the days before it that are not committed.
InsertDay(j) ==
  LET d == InHand(j)
      count == load[j].count + 1
  IN  /\ load[j].at = "insert"
      /\ \A i \in Loads \ {j} : ~HoldsRows(i, j, d)
      /\ \/ /\ LoadGoes(j, Job(IF j = "bse" \/ count % CommitEvery = 0 THEN "commit" ELSE "check",
                                load[j].left \ {d}, load[j].held \cup {d}, count))
            /\ UNCHANGED <<gaps, tableFaults>>
         \/ /\ TableFault
            /\ LoadGoes(j, DropDay(j, {}))
            /\ gaps' = gaps \cup Lost(j, load[j].held \cup {d})
      /\ UNCHANGED <<today, due, closes, OtherTables, priced, handLoads>>

\* ON CONFLICT DO NOTHING: a row that is there stays.
Filled(file, days) ==
  [d \in Days |-> [k \in NameKinds |->
     IF d \in days /\ k \in Covers(file) /\ closes[d][k] = "none" THEN file ELSE closes[d][k]]]

\* The commit of a batch or of the whole run, with which the run is over.  An
\* error ends it, and then the day is not marked as priced.
CommitDays(j) ==
  LET end == load[j].at = "check" /\ load[j].left = {}
  IN  /\ load[j].at = "commit" \/ end
      /\ \/ /\ closes' = Filled(File(j), load[j].held)
            /\ LoadGoes(j, IF end THEN Asleep ELSE Job("check", load[j].left, {}, load[j].count))
            /\ priced' = IF end /\ j = "nse" THEN today ELSE priced
            /\ UNCHANGED <<gaps, tableFaults>>
         \/ /\ TableFault
            /\ LoadGoes(j, Asleep)
            /\ gaps' = gaps \cup Lost(j, load[j].held \cup load[j].left)
            /\ UNCHANGED <<closes, priced>>
      /\ UNCHANGED <<today, due, OtherTables, handLoads>>

LoadStep(j) == CheckDay(j) \/ FetchDay(j) \/ InsertDay(j) \/ CommitDays(j)

-----------------------------------------------------------------------------
(* Positions and deals.                                                    *)

SyncOi ==
  /\ "oi" \in due /\ due' = due \ {"oi"}
  /\ \/ oi' = oi \cup OiWanted(today) /\ UNCHANGED <<gaps, tableFaults>>
     \/ /\ TableFault
        /\ gaps' = gaps \cup ({"OI"} \X OiWanted(today) \X {today})
        /\ UNCHANGED oi
  /\ UNCHANGED <<today, load, closes, deals, priced, handLoads>>

\* NSE publishes the deals of the day, BSE is asked for a few days.
Published(e) ==
  {p \in DealLists \X Days :
     /\ Trading(p[2]) /\ p[2] <= e
     /\ p[2] >= IF p[1] = "NSE deals" THEN e ELSE e - DealDays}

DealsLost(pairs) == {<<p[1], p[2], today>> : p \in pairs}

\* A list that fails is left out; the write is one transaction.
SyncDeals ==
  /\ due = {"deals"}
  /\ due' = due \ {"deals"}
  /\ \/ deals' = deals \cup Published(today) /\ UNCHANGED <<gaps, tableFaults>>
     \/ \E failing \in SUBSET DealLists \ {{}} :
          LET lost == {p \in Published(today) : p[1] \in failing}
          IN  /\ TableFault
              /\ deals' = deals \cup (Published(today) \ lost)
              /\ gaps' = gaps \cup DealsLost(lost)
  /\ UNCHANGED <<today, load, closes, oi, priced, handLoads>>

-----------------------------------------------------------------------------
(* The monitor.                                                            *)

\* What the jobs of an evening would still have brought.
Sought(j) ==
  CASE j \in Daily -> {File(j)} \X LookBack(today, DailyDays) \X {today}
    [] j = "oi"    -> {"OI"} \X OiWanted(today) \X {today}
    [] j = "deals" -> DealsLost(Published(today))

Stopped == UNION {Lost(j, load[j].held \cup load[j].left) : j \in Daily}
Skipped(jobs) == UNION {Sought(j) : j \in jobs}

\* It is restarted: what ran is rolled back, and what has had its hour waits for
\* the next evening.  The positions are asked for at once, which may fail.
MonitorRestarts ==
  /\ TableFault
  /\ \E still \in SUBSET due :
       /\ due' = still
       /\ gaps' = gaps \cup Stopped \cup Skipped(due \ still)
  /\ load' = [j \in Loads |-> IF j \in Daily THEN Asleep ELSE load[j]]
  /\ priced' = NoDay
  /\ oi' \in {oi, oi \cup OiWanted(today)}
  /\ UNCHANGED <<today, closes, deals, handLoads>>

DayOver ==
  /\ today < LastDay /\ due = {} /\ \A j \in Daily : load[j] = Asleep
  /\ today' = today + 1 /\ due' = DueOn(today')
  /\ UNCHANGED <<load, closes, OtherTables, priced, gaps, handLoads, tableFaults>>

TablesNext ==
  \/ \E j \in Daily : StartDaily(j)
  \/ \E j \in Loads : LoadStep(j)
  \/ StartByHand \/ SyncOi \/ SyncDeals \/ MonitorRestarts \/ DayOver

TablesSpec == TablesInit /\ [][TablesNext]_tableVars

-----------------------------------------------------------------------------
(* Properties.                                                             *)

TablesTypeOK ==
  /\ today \in FirstDay..LastDay /\ due \subseteq Evening
  /\ load \in [Loads -> [at : {"idle", "check", "fetch", "insert", "commit"},
                         left : SUBSET Days, held : SUBSET Days, count : Nat]]
  /\ closes \in [Days -> [NameKinds -> Sources \cup {"none"}]]
  /\ oi \subseteq Days /\ deals \subseteq DealLists \X Days /\ priced \in Days \cup {NoDay}
  /\ handLoads \in 0..MaxByHand /\ tableFaults \in 0..MaxTableFaults

\* The job of evening e is over.
Done(j, e) ==
  \/ e < today
  \/ e = today /\ j \notin due /\ (j \in Daily => load[j] = Asleep)

Evenings == {e \in FirstDay..today : ~Weekend(e)}

\* Closes are of a day with trading, under the exchange whose file has them.
ClosesTrue ==
  \A d \in Days, k \in NameKinds : closes[d][k] # "none" =>
    Trading(d) /\ d <= today /\ k \in Covers(closes[d][k])

\* Every day in the reach of an evening is loaded once its run is over, unless that
\* run failed to get it.  A day that NSE misses is not looked at again when the
\* rows of BSE are there (kb/sync/pipeline.py:849).
PricesAccounted ==
  \A e \in Evenings : \A d \in LookBack(e, DailyDays) : Trading(d) =>
    /\ Done("nse", e) => closes[d]["nse"] = "NSE" \/ closes[d]["bse"] = "BSE"
                         \/ <<"NSE", d, e>> \in gaps
    /\ Done("bse", e) => closes[d]["bse"] = "BSE" \/ <<"BSE", d, e>> \in gaps

\* The positions of a day are there after the next evening.  No evening asks for a
\* day before a weekend (kb/sync/participant_oi_sync.py:150), only a restart may.
OiAccounted ==
  /\ \A e \in Evenings : Done("oi", e) =>
       \A d \in OiWanted(e) : d \in oi \/ <<"OI", d, e>> \in gaps
  /\ \A d \in oi : Trading(d) /\ d < today

\* The deals of a day are there, unless every run that could see them failed.
DealsAccounted ==
  \A e \in Evenings : Done("deals", e) =>
    \A p \in Published(e) : p \in deals \/ <<p[1], p[2], e>> \in gaps

\* What the tables of the day show and lack can be accounted for.
DaysAccounted == ClosesTrue /\ PricesAccounted /\ OiAccounted /\ DealsAccounted

=============================================================================
