---------------------------- MODULE LedgerReset ----------------------------
(***************************************************************************)
(* Archiving and emptying the paper ledger while the papertrade service    *)
(* goes on.  One transaction copies each table into its archive and then   *)
(* empties it, statement by statement; each statement sees what was        *)
(* committed when it began (READ COMMITTED), and nothing else is locked    *)
(* than the rows it deletes.  A row is a number and a version.             *)
(***************************************************************************)
EXTENDS Integers, Sequences, FiniteSets

CONSTANTS
  Tables,        \* _PAPER_TABLES, in their order
  Admins,        \* requests that reset
  MaxRows, MaxVersions, MaxResetFaults    \* bounds

TableSet == {Tables[i] : i \in DOMAIN Tables}

ASSUME ResetAssumption ==
  /\ Tables \in Seq(TableSet) /\ Len(Tables) > 0
  /\ {MaxRows, MaxVersions, MaxResetFaults} \subseteq Nat

VARIABLES
  ledger,       \* of a table and a row: the committed version, 0 when there is none
  archive,      \* committed rows of the archives: <<table, row, version>>
  resets,       \* of a reset: next statement (0 at rest), what it copied and deleted
  latest,       \* history: last version written of a row, 0 before its insert
  late,         \* history: rows written while a reset stood between copy and delete
  resetFaults

resetVars == <<ledger, archive, resets, latest, late, resetFaults>>

Keys     == TableSet \X (1..MaxRows)
AtEase   == [next |-> 0, copied |-> {}, deleted |-> {}]

ResetInit ==
  /\ ledger = [k \in Keys |-> 0] /\ latest = ledger
  /\ archive = {} /\ late = {}
  /\ resets = [a \in Admins |-> AtEase]
  /\ resetFaults = 0

\* Mutant: each table is emptied before it is copied.
Statements_DeleteFirst == [n \in 1..2 * Len(Tables) |->
  <<Tables[(n + 1) \div 2], IF n % 2 = 1 THEN "delete" ELSE "copy">>]

Statements == [n \in 1..2 * Len(Tables) |->
  <<Tables[(n + 1) \div 2], IF n % 2 = 1 THEN "copy" ELSE "delete">>]

Visible(a) == {k \in Keys : ledger[k] > 0} \ resets[a].deleted
OfTable(ks, t) == {k \in ks : k[1] = t}
LockedBy(a) == resets[a].deleted
LockedRows  == UNION {LockedBy(a) : a \in Admins}

-----------------------------------------------------------------------------
(* The papertrade service: inserts and updates of single rows.  An update  *)
(* waits for a row that is being deleted, and finds nothing afterwards.    *)

WriteRow ==
  \E k \in Keys \ LockedRows :
    /\ latest[k] < MaxVersions
    /\ latest[k] > 0 => ledger[k] > 0
    /\ k[2] > 1 => latest[<<k[1], k[2] - 1>>] > 0
    /\ latest' = [latest EXCEPT ![k] = @ + 1]
    /\ ledger' = [ledger EXCEPT ![k] = latest'[k]]
    /\ late' = IF \E a \in Admins :
                    /\ resets[a].next \in DOMAIN Statements
                    /\ Statements[resets[a].next] = <<k[1], "delete">>
               THEN late \cup {k} ELSE late
    /\ UNCHANGED <<archive, resets, resetFaults>>

-----------------------------------------------------------------------------
(* The reset.                                                              *)

\* The counts, execute = true and a reason; a dry run ends here.
ResetBegin(a) ==
  /\ resets[a] = AtEase
  /\ resets' = [resets EXCEPT ![a].next = 1]
  /\ UNCHANGED <<ledger, archive, latest, late, resetFaults>>

\* INSERT ... SELECT sees the committed rows; DELETE waits for rows another
\* transaction is deleting.
Execute(a) ==
  LET n == resets[a].next
  IN  /\ n \in DOMAIN Statements
      /\ LET t == Statements[n][1]
             rows == OfTable(Visible(a), t)
         IN  IF Statements[n][2] = "copy"
             THEN resets' = [resets EXCEPT ![a].next = n + 1,
                    ![a].copied = @ \cup {<<k[1], k[2], ledger[k]>> : k \in rows}]
             ELSE /\ rows \cap LockedRows = {}
                  /\ resets' = [resets EXCEPT ![a].next = n + 1, ![a].deleted = @ \cup rows]
      /\ UNCHANGED <<ledger, archive, latest, late, resetFaults>>

\* The audit row and the commit.
CommitReset(a) ==
  /\ resets[a].next = Len(Statements) + 1
  /\ ledger' = [k \in Keys |-> IF k \in resets[a].deleted THEN 0 ELSE ledger[k]]
  /\ archive' = archive \cup resets[a].copied
  /\ resets' = [resets EXCEPT ![a] = AtEase]
  /\ UNCHANGED <<latest, late, resetFaults>>

\* An error or a crash at any statement leaves nothing behind.
RollBack(a) ==
  /\ resets[a].next > 0
  /\ resetFaults < MaxResetFaults
  /\ resetFaults' = resetFaults + 1
  /\ resets' = [resets EXCEPT ![a] = AtEase]
  /\ UNCHANGED <<ledger, archive, latest, late>>

ResetNext ==
  \/ WriteRow
  \/ \E a \in Admins : ResetBegin(a) \/ Execute(a) \/ CommitReset(a) \/ RollBack(a)

ResetSpec == ResetInit /\ [][ResetNext]_resetVars

-----------------------------------------------------------------------------
(* Properties.                                                             *)

ResetTypeOK ==
  /\ ledger \in [Keys -> 0..MaxVersions] /\ latest \in [Keys -> 0..MaxVersions]
  /\ archive \subseteq TableSet \X (1..MaxRows) \X (1..MaxVersions)
  /\ \A a \in Admins : /\ resets[a].next \in 0..2 * Len(Tables) + 1
                       /\ resets[a].deleted \subseteq Keys
  /\ late \subseteq Keys

\* Nothing of the ledger is lost by a reset, two resets at once and errors
\* included: a row that was written is there or in its archive, as it was
\* last - except what was written to a table between its copy and its deletion
\* (api/routes/admin.py, paper_reset: "Archive-first").
ArchiveComplete ==
  \A k \in Keys : latest[k] > 0 =>
    ledger[k] = latest[k] \/ <<k[1], k[2], latest[k]>> \in archive \/ k \in late

=============================================================================
