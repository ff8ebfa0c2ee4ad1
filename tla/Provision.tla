----------------------------- MODULE Provision -----------------------------
(***************************************************************************)
(* Workers that turn approved demo requests into accounts.  Each pulls the *)
(* queue of the landing page and goes through it row by row: look the      *)
(* address up, create the account, send one of two mails, tell the landing *)
(* page.  A step that fails leaves the row to the next cycle.  The loop    *)
(* and a run by hand may overlap.                                          *)
(***************************************************************************)
EXTENDS Integers, Sequences, SequencesExt, FiniteSets

CONSTANTS
  Requests, Workers,
  Address,        \* of a request; two requests may share one
  Member,         \* addresses with an account from before
  NoRequest,
  MaxProvisionFaults    \* bound

ASSUME ProvisionAssumption ==
  /\ DOMAIN Address = Requests /\ IsFiniteSet(Requests)
  /\ NoRequest \notin Requests
  /\ MaxProvisionFaults \in Nat

VARIABLES
  landing,      \* of a request: "waiting", "approved", "provisioned"
  accounts,     \* app_users
  mailed,       \* history: mails delivered, <<request, kind>>
  pulled,       \* rows a worker still has to look at
  current,      \* of a worker: the row in its hands, the next step, the mail
  provisionFaults

provisionVars == <<landing, accounts, mailed, pulled, current, provisionFaults>>

AtRest == [row |-> NoRequest, step |-> "rest", mail |-> "none"]

ProvisionInit ==
  /\ landing = [r \in Requests |-> "waiting"]
  /\ accounts = Member
  /\ mailed = {}
  /\ pulled = [w \in Workers |-> <<>>]
  /\ current = [w \in Workers |-> AtRest]
  /\ provisionFaults = 0

ProvisionFault ==
  /\ provisionFaults < MaxProvisionFaults
  /\ provisionFaults' = provisionFaults + 1

Approve(r) ==
  /\ landing[r] = "waiting"
  /\ landing' = [landing EXCEPT ![r] = "approved"]
  /\ UNCHANGED <<accounts, mailed, pulled, current, provisionFaults>>

\* One cycle begins: rows that are approved and not provisioned, in any
\* order.  A request that fails ends the cycle where it began.
Pull(w) ==
  /\ current[w] = AtRest /\ pulled[w] = <<>>
  /\ \E q \in SetToSeqs({r \in Requests : landing[r] = "approved"}) :
       q # <<>> /\ pulled' = [pulled EXCEPT ![w] = q]
  /\ UNCHANGED <<landing, accounts, mailed, current, provisionFaults>>

NextRow(w) ==
  /\ current[w] = AtRest /\ pulled[w] # <<>>
  /\ current' = [current EXCEPT ![w] = [row |-> Head(pulled[w]), step |-> "look",
                                        mail |-> "none"]]
  /\ pulled' = [pulled EXCEPT ![w] = Tail(@)]
  /\ UNCHANGED <<landing, accounts, mailed, provisionFaults>>

\* The row is given up until the next cycle pulls it again.
GiveUp(w) == current' = [current EXCEPT ![w] = AtRest]

GoesTo(w, step, mail) ==
  current' = [current EXCEPT ![w].step = step, ![w].mail = mail]

\* account_exists and create_account; the insert does nothing on a conflict.
LookUp(w) ==
  /\ current[w].step = "look"
  /\ IF Address[current[w].row] \in accounts
       THEN GoesTo(w, "mail", "exists") ELSE GoesTo(w, "insert", "onboarding")
  /\ UNCHANGED <<landing, accounts, mailed, pulled, provisionFaults>>

CreateAccount(w) ==
  /\ current[w].step = "insert"
  /\ accounts' = accounts \cup {Address[current[w].row]}
  /\ GoesTo(w, "mail", "onboarding")
  /\ UNCHANGED <<landing, mailed, pulled, provisionFaults>>

\* Mutant: the mail is fire and forget.
SendMail_Unchecked(w) ==
  /\ current[w].step = "mail"
  /\ \/ /\ mailed' = mailed \cup {<<current[w].row, current[w].mail>>}
        /\ UNCHANGED provisionFaults
     \/ ProvisionFault /\ UNCHANGED mailed
  /\ GoesTo(w, "mark", current[w].mail)
  /\ UNCHANGED <<landing, accounts, pulled>>

\* A mail may be refused, or delivered although the answer is an error.
SendMail(w) ==
  /\ current[w].step = "mail"
  /\ \/ /\ mailed' = mailed \cup {<<current[w].row, current[w].mail>>}
        /\ GoesTo(w, "mark", current[w].mail)
        /\ UNCHANGED provisionFaults
     \/ /\ ProvisionFault
        /\ mailed' \in {mailed, mailed \cup {<<current[w].row, current[w].mail>>}}
        /\ GiveUp(w)
  /\ UNCHANGED <<landing, accounts, pulled>>

MarkProvisioned(w) ==
  /\ current[w].step = "mark"
  /\ \/ /\ landing' = [landing EXCEPT ![current[w].row] = "provisioned"]
        /\ UNCHANGED provisionFaults
     \/ ProvisionFault /\ UNCHANGED landing
  /\ GiveUp(w)
  /\ UNCHANGED <<accounts, mailed, pulled>>

\* A lookup or an insert fails and the row waits for the next cycle.
StepFails(w) ==
  /\ current[w].step \in {"look", "insert"}
  /\ ProvisionFault
  /\ GiveUp(w)
  /\ UNCHANGED <<landing, accounts, mailed, pulled>>

WorkerDies(w) ==
  /\ current[w] # AtRest \/ pulled[w] # <<>>
  /\ ProvisionFault
  /\ GiveUp(w)
  /\ pulled' = [pulled EXCEPT ![w] = <<>>]
  /\ UNCHANGED <<landing, accounts, mailed>>

WorkerStep(w) ==
  \/ Pull(w) \/ NextRow(w) \/ LookUp(w) \/ CreateAccount(w)
  \/ SendMail(w) \/ MarkProvisioned(w)

ProvisionNext ==
  \/ \E r \in Requests : Approve(r)
  \/ \E w \in Workers : WorkerStep(w) \/ StepFails(w) \/ WorkerDies(w)

ProvisionSpec == ProvisionInit /\ [][ProvisionNext]_provisionVars

-----------------------------------------------------------------------------
(* Properties.                                                             *)

ProvisionTypeOK ==
  /\ landing \in [Requests -> {"waiting", "approved", "provisioned"}]
  /\ accounts \subseteq Member \cup {Address[r] : r \in Requests}
  /\ mailed \subseteq Requests \X {"onboarding", "exists"}
  /\ pulled \in [Workers -> Seq(Requests)]
  /\ \A w \in Workers : current[w] = AtRest \/ current[w].row \in Requests

\* A request leaves the queue only after somebody wrote to its address and
\* the account is there, however cycles fail, repeat and overlap
\* (onboarding/provision_worker.py, "a row is only removed from the queue
\* (step 3) after the email send succeeds").
NobodyForgotten ==
  \A r \in Requests : landing[r] = "provisioned" =>
    /\ Address[r] \in accounts
    /\ \E kind \in {"onboarding", "exists"} : <<r, kind>> \in mailed

=============================================================================
