---------------------------- MODULE MC_Services ----------------------------
(***************************************************************************)
(* The services around the pipelines, for TLC.  They share no variable:    *)
(* `focus' picks the one that moves, so that their state spaces add up     *)
(* instead of multiplying.                                                 *)
(***************************************************************************)
EXTENDS Metering, Provision, Accounts, LedgerReset, Transcripts, KbSync

VARIABLE focus

\* Both requests come from one address.
AddressValue == <<"a", "a">>
TablesValue  == <<"trades", "marks">>
\* The second document is a letter whose second link leads to the call.
ContentValue == <<"call", "letter", "call">>
LinksValue   == <<<<>>, <<"other", "call">>, <<>>>>

Services == {"metering", "activity", "provision", "accounts", "reset", "transcripts", "kb"}

serviceVars == <<meterVars, activityVars, provisionVars, accountVars, resetVars,
                 transcriptVars, kbVars>>

ServicesInit ==
  /\ focus \in Services
  /\ MeterInit /\ ActivityInit /\ ProvisionInit /\ AccountsInit
  /\ ResetInit /\ TranscriptsInit /\ KbSyncInit
  /\ focus # "kb" => quality = Established

MeteringMoves ==
  /\ focus = "metering" /\ MeterNext
  /\ UNCHANGED <<activityVars, provisionVars, accountVars, resetVars, transcriptVars, kbVars>>
ActivityMoves ==
  /\ focus = "activity" /\ ActivityNext
  /\ UNCHANGED <<meterVars, provisionVars, accountVars, resetVars, transcriptVars, kbVars>>
ProvisionMoves ==
  /\ focus = "provision" /\ ProvisionNext
  /\ UNCHANGED <<meterVars, activityVars, accountVars, resetVars, transcriptVars, kbVars>>
AccountsMoves ==
  /\ focus = "accounts" /\ AccountsNext
  /\ UNCHANGED <<meterVars, activityVars, provisionVars, resetVars, transcriptVars, kbVars>>
ResetMoves ==
  /\ focus = "reset" /\ ResetNext
  /\ UNCHANGED <<meterVars, activityVars, provisionVars, accountVars, transcriptVars, kbVars>>
TranscriptsMoves ==
  /\ focus = "transcripts" /\ TranscriptsNext
  /\ UNCHANGED <<meterVars, activityVars, provisionVars, accountVars, resetVars, kbVars>>
KbMoves ==
  /\ focus = "kb" /\ KbSyncNext
  /\ UNCHANGED <<meterVars, activityVars, provisionVars, accountVars, resetVars, transcriptVars>>

ServicesNext ==
  /\ \/ MeteringMoves \/ ActivityMoves \/ ProvisionMoves \/ AccountsMoves \/ ResetMoves \/ TranscriptsMoves \/ KbMoves
  /\ UNCHANGED focus

\* WatcherFairness and SweepFairness, of the service that moves.
ServicesFairness ==
  /\ WF_transcriptVars(focus = "transcripts" /\ JobStep("watch"))
  /\ WF_kbVars(focus = "kb" /\ WeeklySweep)
  /\ WF_kbVars(focus = "kb" /\ (SweepCompany \/ EndSweep))

ServicesSpec == ServicesInit /\ [][ServicesNext]_<<focus, serviceVars>> /\ ServicesFairness

\* Each service's variables have their types (the type invariants of the
\* modules).
ServicesTypeOK ==
  /\ focus \in Services
  /\ MeterTypeOK /\ ActivityTypeOK /\ ProvisionTypeOK /\ AccountsTypeOK
  /\ ResetTypeOK /\ TranscriptsTypeOK /\ KbSyncTypeOK

\* The records of calls, alerts and requests: none is lost or stored twice but
\* where a cap, a full queue or a fault says so, and a breach that recurs is
\* not silenced for longer than its cooldown (api/flushers.py, "the whole batch
\* is RPUSHed back"; api/request_log.py; analysis/guardrails.py, _emit).
RecordsKept == EntriesKept /\ BreachAnswered /\ OneFate

\* The queues of the knowledge base move: a document that cannot be stored does
\* not block those behind it, and a company that a rollback took out of a sweep
\* is filled by a later one, unless a company that always fails keeps rolling it
\* back (QueueMoves of Transcripts, NewCompanyFilled of KbSync).
QueuesServed == QueueMoves /\ NewCompanyFilled

=============================================================================
