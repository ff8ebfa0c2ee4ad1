------------------------------ MODULE Dossiers ------------------------------
(***************************************************************************)
(* The dossiers of companies: an agent researches a company and its        *)
(* dossier is saved into three tables, in three transactions.  The monitor *)
(* refreshes every night the dossiers that are older than the company's    *)
(* results; somebody at the command line may run the agent as well.        *)
(* Postgres runs at READ COMMITTED.                                        *)
(***************************************************************************)
EXTENDS Integers, FiniteSets, FiniteSetsExt

CONSTANTS
  Listed,        \* companies
  NightlyCap,    \* DOSSIER_REFRESH_MAX_PER_RUN
  CliSymbols,    \* companies the command line names
  Lists,         \* which of the two lists of a submission have members
  Concurrency,   \* agents one runner has at work
  MaxTurns, MaxNudges,     \* DOSSIER_MAX_TURNS, DOSSIER_MAX_NUDGES
  MaxSaves, MaxQuarters, MaxCliRuns, MaxDossierFaults     \* bounds

ASSUME DossierAssumption ==
  /\ IsFiniteSet(Listed) /\ CliSymbols \subseteq Listed
  /\ Lists \subseteq SUBSET {"sensitivities", "linkages"}
  /\ {NightlyCap, Concurrency, MaxTurns} \subseteq Nat \ {0}
  /\ {MaxNudges, MaxSaves, MaxQuarters, MaxCliRuns, MaxDossierFaults} \subseteq Nat

VARIABLES
  latest,        \* newest period in financial_results, per company
  dossier,       \* company_dossiers: which save, and its source_quarter
  flat,          \* the two flat tables: the saves their rows come from
  task,          \* what a runner does about a company
  cliRuns, dossierFaults

dossierVars == <<latest, dossier, flat, task, cliRuns, dossierFaults>>

Runners   == {"monitor", "cli"}
FlatTables == {"sensitivities", "linkages"}
NoQuarter == -1
Off       == [stage |-> "off"]
Queued    == [stage |-> "queued"]
Stage(r, c) == task[r][c].stage
Working(r)  == {c \in Listed : Stage(r, c) \notin {"off", "queued"}}

DossierInit ==
  /\ latest = [c \in Listed |-> 0]
  /\ dossier = [c \in Listed |-> [save |-> 0, quarter |-> 0]]
  /\ flat = [t \in FlatTables |-> [c \in Listed |-> {0}]]
  /\ task = [r \in Runners |-> [c \in Listed |-> Off]]
  /\ cliRuns = 0 /\ dossierFaults = 0

SetTask(r, c, what) == task' = [task EXCEPT ![r][c] = what]

\* A call goes well, or it fails and this is one of the failures.
Fault == dossierFaults < MaxDossierFaults /\ dossierFaults' = dossierFaults + 1

-----------------------------------------------------------------------------
(* The runs.                                                               *)

\* A company reports a quarter, and the sync of events has stored it.
Reports(c) ==
  /\ latest[c] < MaxQuarters
  /\ latest' = [latest EXCEPT ![c] = @ + 1]
  /\ UNCHANGED <<dossier, flat, task, cliRuns, dossierFaults>>

\* A quarter that is NULL compares with nothing.
Stale(c) == dossier[c].quarter # NoQuarter /\ latest[c] > dossier[c].quarter

\* refresh_stale_dossiers: the newest results first, up to the cap.
Night ==
  /\ \A c \in Listed : task["monitor"][c] = Off
  /\ LET stale == {c \in Listed : Stale(c)}
         size  == IF Cardinality(stale) < NightlyCap THEN Cardinality(stale) ELSE NightlyCap
     IN  /\ stale # {}
         /\ \E chosen \in kSubset(size, stale) :
              /\ \A c \in chosen, d \in stale \ chosen : latest[c] >= latest[d]
              /\ task' = [task EXCEPT !["monitor"] =
                            [c \in Listed |-> IF c \in chosen THEN Queued ELSE Off]]
  /\ UNCHANGED <<latest, dossier, flat, cliRuns, dossierFaults>>

\* _run_dossiers: those of its symbols without a recent dossier, or all of them
\* with --force; how recent is left open.
CliRun ==
  /\ cliRuns < MaxCliRuns
  /\ cliRuns' = cliRuns + 1
  /\ \A c \in Listed : task["cli"][c] = Off
  /\ \E targets \in SUBSET CliSymbols :
       task' = [task EXCEPT !["cli"] = [c \in Listed |-> IF c \in targets THEN Queued ELSE Off]]
  /\ UNCHANGED <<latest, dossier, flat, dossierFaults>>

-----------------------------------------------------------------------------
(* The agent.                                                              *)

\* The loop over turns: the first turn that submits or fails ends it, and so
\* does a turn of text alone once the nudges are spent.
Submits(turns) ==
  LET texts(i) == Cardinality({j \in 1..(i - 1) : turns[j] = "text"})
      ends == {i \in DOMAIN turns :
                 turns[i] \in {"error", "submit"} \/ (turns[i] = "text" /\ texts(i) >= MaxNudges)}
  IN  ends # {} /\ turns[Min(ends)] = "submit"

\* A name for a save that nothing of the company bears any more.
NewSave(c) ==
  Min({n \in 1..MaxSaves :
         /\ n # dossier[c].save /\ \A t \in FlatTables : n \notin flat[t][c]
         /\ \A r \in Runners : Stage(r, c) \notin {"off", "queued"} => n # task[r][c].save})

\* research_company up to the save.  The agent names the newest quarter it saw;
\* to name an older one, or none that is a date, is a fault of the agent, like
\* submitting nothing.  A list it submits may be empty.
Research(r, c) ==
  /\ Stage(r, c) = "queued" /\ Cardinality(Working(r)) < Concurrency
  /\ \E turns \in [1..MaxTurns -> {"error", "text", "tools", "submit"}],
        quarter \in NoQuarter..latest[c], full \in Lists :
       \/ /\ Submits(turns)
          /\ IF quarter = latest[c] THEN UNCHANGED dossierFaults ELSE Fault
          /\ SetTask(r, c, [stage |-> "dossier", save |-> NewSave(c), quarter |-> quarter,
                            full |-> full, began |-> FALSE, waits |-> FALSE, seen |-> {}])
       \/ /\ ~Submits(turns) /\ Fault
          /\ SetTask(r, c, Off)
  /\ UNCHANGED <<latest, dossier, flat, cliRuns>>

\* A failed transaction ends the task: the tables before it stay as they are.
Fails(r, c) ==
  /\ Stage(r, c) \in {"dossier", "sensitivities", "linkages"} /\ Fault
  /\ SetTask(r, c, Off)
  /\ UNCHANGED <<latest, dossier, flat, cliRuns>>

\* The tables whose list is not empty are written, one after the other.
Onward(job) ==
  LET left == job.full \ {job.stage}
      next == IF "sensitivities" \in left THEN "sensitivities" ELSE "linkages"
  IN  IF left = {} THEN Off
      ELSE [job EXCEPT !.stage = next, !.full = left, !.seen = {}, !.began = FALSE,
                       !.waits = FALSE]

\* Mutant: the update of the upsert leaves out source_quarter.
SaveDossier_QuarterKept(r, c) ==
  /\ Stage(r, c) = "dossier"
  /\ dossier' = [dossier EXCEPT ![c].save = task[r][c].save]
  /\ SetTask(r, c, Onward(task[r][c]))
  /\ UNCHANGED <<latest, flat, cliRuns, dossierFaults>>

\* upsert_company_dossier.
SaveDossier(r, c) ==
  /\ Stage(r, c) = "dossier"
  /\ dossier' = [dossier EXCEPT ![c] = [save |-> task[r][c].save, quarter |-> task[r][c].quarter]]
  /\ SetTask(r, c, Onward(task[r][c]))
  /\ UNCHANGED <<latest, flat, cliRuns, dossierFaults>>

\* The other runner has begun to delete some of these rows.
Begun(r, c, seen) ==
  {o \in Runners \ {r} :
     Stage(o, c) = Stage(r, c) /\ task[o][c].began /\ task[o][c].seen \cap seen # {}}

\* replace_dossier_sensitivities and _linkages, the DELETE: it finds the rows
\* that are committed, and waits for whoever is deleting one of them.
DeleteRows(r, c) ==
  /\ Stage(r, c) \in FlatTables /\ ~task[r][c].began
  /\ LET seen == flat[Stage(r, c)][c]
     IN  SetTask(r, c, [task[r][c] EXCEPT !.began = TRUE, !.seen = seen,
                                          !.waits = Begun(r, c, seen) # {}])
  /\ UNCHANGED <<latest, dossier, flat, cliRuns, dossierFaults>>

\* The INSERT and the commit: rows that were committed since the DELETE looked
\* stay next to the new ones.
InsertRows(r, c) ==
  /\ Stage(r, c) \in FlatTables /\ task[r][c].began
  /\ task[r][c].waits => \A o \in Begun(r, c, task[r][c].seen) : task[o][c].waits
  /\ flat' = [flat EXCEPT ![Stage(r, c)][c] = (@ \ task[r][c].seen) \cup {task[r][c].save}]
  /\ SetTask(r, c, Onward(task[r][c]))
  /\ UNCHANGED <<latest, dossier, cliRuns, dossierFaults>>

TaskStep(r, c) ==
  Research(r, c) \/ Fails(r, c) \/ SaveDossier(r, c) \/ DeleteRows(r, c) \/ InsertRows(r, c)

DossierNext ==
  \/ Night \/ CliRun
  \/ \E c \in Listed : Reports(c)
  \/ \E r \in Runners, c \in Listed : TaskStep(r, c)

\* Every night comes, and a task that runs goes on.
DossierFairness ==
  /\ WF_dossierVars(Night)
  /\ \A r \in Runners, c \in Listed : WF_dossierVars(TaskStep(r, c))

DossierSpec == DossierInit /\ [][DossierNext]_dossierVars /\ DossierFairness

-----------------------------------------------------------------------------
(* Properties.                                                             *)

DossierTypeOK ==
  /\ latest \in [Listed -> 0..MaxQuarters]
  /\ \A c \in Listed : dossier[c].quarter \in NoQuarter..latest[c] /\ dossier[c].save \in 0..MaxSaves
  /\ \A t \in FlatTables, c \in Listed : flat[t][c] \subseteq 0..MaxSaves
  /\ \A r \in Runners : Cardinality(Working(r)) <= Concurrency
  /\ \A r \in Runners, c \in Listed :
       Stage(r, c) \in {"off", "queued", "dossier"} \cup FlatTables

\* A dossier whose quarter is known does not stay behind the results for ever,
\* although a night takes only so many, agents fail or name an older quarter
\* and the other runner may put an older dossier in its place
\* (monitor.py:647-657, "the remainder is picked up the next night").
StaleRefreshed == \A c \in Listed : Stale(c) ~> ~Stale(c)

=============================================================================
