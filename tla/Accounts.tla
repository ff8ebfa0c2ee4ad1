------------------------------ MODULE Accounts ------------------------------
(***************************************************************************)
(* Accounts of the terminal and what a session may do with them.  Admins   *)
(* change an account in a transaction that locks its row, and then delete  *)
(* the cached state of that user; every request of a user reads that state *)
(* from Redis or else from two tables, and caches what it read.  Statements *)
(* of a transaction each see what was committed when they began (READ      *)
(* COMMITTED, the default).                                                *)
(***************************************************************************)
EXTENDS Integers, FiniteSets

CONSTANTS
  Users,
  Roles,            \* "admin", "internal", "external"
  FirstAdmins,      \* admins at the start
  Invited,          \* users whose account is made by an invitation
  Sessions,         \* requests of admins, at most one change under way in each
  Readers,          \* requests of users
  NoOne,
  MaxChanges, MaxAccountFaults    \* bounds

ASSUME AccountsAssumption ==
  /\ FirstAdmins \subseteq Users \ Invited
  /\ {"admin", "external"} \subseteq Roles /\ "none" \notin Roles
  /\ IsFiniteSet(Sessions)
  /\ NoOne \notin Users
  /\ {MaxChanges, MaxAccountFaults} \subseteq Nat

VARIABLES
  appUsers,     \* app_users: role and is_active of a row
  disabled,     \* user_features: users for whom the feature is switched off
  auditLog,     \* number of rows of admin_audit_log
  patches,      \* change under way: row, new value, step, admins counted
  authz,        \* authz:user:{id} in Redis
  lookups,      \* a request between its reads
  raced,        \* history: users whose cache entry may lag behind the tables
  accountFaults

accountVars == <<appUsers, disabled, auditLog, patches, authz, lookups, raced,
                 accountFaults>>

Account   == [role : Roles, active : BOOLEAN]
NoRow     == [role |-> "none", active |-> FALSE]
Revoked   == [role |-> "none", off |-> FALSE]
NotCached == [role |-> "unknown", off |-> FALSE]

NoPatch  == [user |-> NoOne, to |-> NoRow, step |-> "idle", others |-> {}]
NoLookup == [user |-> NoOne, seen |-> NotCached, step |-> "idle"]

AccountsInit ==
  /\ appUsers = [u \in Users |->
       IF u \in Invited THEN NoRow
       ELSE [role |-> IF u \in FirstAdmins THEN "admin" ELSE "external", active |-> TRUE]]
  /\ disabled = {} /\ auditLog = 0
  /\ patches = [s \in Sessions |-> NoPatch]
  /\ authz = [u \in Users |-> NotCached]
  /\ lookups = [r \in Readers |-> NoLookup]
  /\ raced = {} /\ accountFaults = 0

AccountFault ==
  /\ accountFaults < MaxAccountFaults
  /\ accountFaults' = accountFaults + 1

ActiveAdmins == {u \in Users : appUsers[u] = [role |-> "admin", active |-> TRUE]}
UnderWay     == {s \in Sessions : patches[s].step \in {"count", "write"}}

Locked == {patches[s].user : s \in UnderWay}
MayBegin(s)  == patches[s] = NoPatch /\ auditLog + Cardinality(UnderWay) < MaxChanges

Audited == auditLog' = auditLog + 1

\* A commit of user u, before its invalidation: whoever has read the tables
\* already may still write what is now old into the cache.
Committed(u) ==
  raced' = IF \E r \in Readers : lookups[r].user = u /\ lookups[r].step \in {"features", "cache"}
           THEN raced \cup {u} ELSE raced

-----------------------------------------------------------------------------
(* The routes of the admin.                                                *)

\* invite_user: nothing changes for an address that has a row.
InviteUser(u, role) ==
  /\ auditLog + Cardinality(UnderWay) < MaxChanges
  /\ u \notin Locked
  /\ appUsers' = [appUsers EXCEPT ![u] = IF @ = NoRow THEN [role |-> role, active |-> TRUE] ELSE @]
  /\ Audited
  /\ UNCHANGED <<disabled, patches, authz, lookups, raced, accountFaults>>

\* patch_user: SELECT ... FOR UPDATE locks the row until the end.  Taking the
\* role or the access of an admin away needs a count of the others.
PatchBegin(s, u, to) ==
  /\ MayBegin(s)
  /\ u \notin Locked
  /\ appUsers[u] # NoRow /\ to # appUsers[u]
  /\ LET losing == appUsers[u].role = "admin"
                     /\ (to.role # "admin" \/ (appUsers[u].active /\ ~to.active))
     IN  patches' = [patches EXCEPT ![s] =
           [NoPatch EXCEPT !.user = u, !.to = to, !.step = IF losing THEN "count" ELSE "write"]]
  /\ UNCHANGED <<appUsers, disabled, auditLog, authz, lookups, raced, accountFaults>>

\* Mutant: the count includes the admin it is about.
CountOthers_All(s) ==
  /\ patches[s].step = "count"
  /\ patches' = [patches EXCEPT ![s] =
       IF ActiveAdmins = {} THEN NoPatch ELSE [@ EXCEPT !.step = "write"]]
  /\ UNCHANGED <<appUsers, disabled, auditLog, authz, lookups, raced, accountFaults>>

\* Without another active admin: 409, and the row is released.
CountOthers(s) ==
  /\ patches[s].step = "count"
  /\ LET others == ActiveAdmins \ {patches[s].user}
     IN  patches' = [patches EXCEPT ![s] =
           IF others = {} THEN NoPatch ELSE [@ EXCEPT !.step = "write", !.others = others]]
  /\ UNCHANGED <<appUsers, disabled, auditLog, authz, lookups, raced, accountFaults>>

\* UPDATE, the audit row and the commit; or an error that rolls both back.
CommitPatch(s) ==
  /\ patches[s].step = "write"
  /\ \/ /\ appUsers' = [appUsers EXCEPT ![patches[s].user] = patches[s].to]
        /\ Audited
        /\ Committed(patches[s].user)
        /\ patches' = [patches EXCEPT ![s].step = "invalidate"]
        /\ UNCHANGED accountFaults
     \/ /\ AccountFault
        /\ patches' = [patches EXCEPT ![s] = NoPatch]
        /\ UNCHANGED <<appUsers, auditLog, raced>>
  /\ UNCHANGED <<disabled, authz, lookups>>

\* set_user_feature: a row of user_features means the feature is off.
SetUserFeature(s, u) ==
  /\ MayBegin(s)
  /\ appUsers[u] # NoRow
  /\ disabled' \in {disabled \cup {u}, disabled \ {u}}
  /\ Audited
  /\ Committed(u)
  /\ patches' = [patches EXCEPT ![s] = [NoPatch EXCEPT !.user = u, !.step = "invalidate"]]
  /\ UNCHANGED <<appUsers, authz, lookups, accountFaults>>

\* Mutant: the key is left to its time to live.
Invalidate_Skipped(s) ==
  /\ patches[s].step = "invalidate"
  /\ patches' = [patches EXCEPT ![s] = NoPatch]
  /\ UNCHANGED <<appUsers, disabled, auditLog, authz, lookups, raced, accountFaults>>

\* invalidate_authz after the commit; an error of Redis is only logged.
Invalidate(s) ==
  LET u == patches[s].user
  IN  /\ patches[s].step = "invalidate"
      /\ \/ /\ authz' = [authz EXCEPT ![u] = NotCached]
            /\ UNCHANGED <<accountFaults, raced>>
         \/ AccountFault /\ raced' = raced \cup {u} /\ UNCHANGED authz
      /\ patches' = [patches EXCEPT ![s] = NoPatch]
      /\ UNCHANGED <<appUsers, disabled, auditLog, lookups>>

-----------------------------------------------------------------------------
(* load_authz: what a request of a user does after a miss.  A hit, an      *)
(* error of Redis (the tables are read, nothing is cached) and an error of *)
(* the database (an external user, nothing is cached) leave no trace.      *)

\* A session belongs to somebody with a row.
ReadRow(r, u) ==
  /\ lookups[r] = NoLookup /\ authz[u] = NotCached
  /\ appUsers[u] # NoRow
  /\ lookups' = [lookups EXCEPT ![r] = [user |-> u, step |-> "features",
       seen |-> IF appUsers[u].active THEN [role |-> appUsers[u].role, off |-> FALSE]
                                      ELSE Revoked]]
  /\ UNCHANGED <<appUsers, disabled, auditLog, patches, authz, raced, accountFaults>>

\* A second statement, and so a second snapshot.
ReadFeatures(r) ==
  LET l == lookups[r]
  IN  /\ l.step = "features"
      /\ \/ /\ lookups' = [lookups EXCEPT ![r].step = "cache",
                 ![r].seen = IF @ = Revoked THEN @ ELSE [@ EXCEPT !.off = l.user \in disabled]]
            /\ UNCHANGED accountFaults
         \/ AccountFault /\ lookups' = [lookups EXCEPT ![r] = NoLookup]
      /\ UNCHANGED <<appUsers, disabled, auditLog, patches, authz, raced>>

\* SETEX; when it fails the request goes on without it.
WriteCache(r) ==
  LET l == lookups[r]
  IN  /\ l.step = "cache"
      /\ \/ authz' = [authz EXCEPT ![l.user] = l.seen] /\ UNCHANGED accountFaults
         \/ AccountFault /\ UNCHANGED authz
      /\ lookups' = [lookups EXCEPT ![r] = NoLookup]
      /\ UNCHANGED <<appUsers, disabled, auditLog, patches, raced>>

\* AUTHZ_CACHE_TTL_S after it was written, the entry is gone.
Expire(u) ==
  /\ authz[u] # NotCached
  /\ authz' = [authz EXCEPT ![u] = NotCached]
  /\ UNCHANGED <<appUsers, disabled, auditLog, patches, lookups, raced, accountFaults>>

-----------------------------------------------------------------------------

AccountsNext ==
  \/ \E u \in Users, role \in Roles : InviteUser(u, role)
  \/ \E s \in Sessions, u \in Users, to \in Account : PatchBegin(s, u, to)
  \/ \E s \in Sessions, u \in Users : SetUserFeature(s, u)
  \/ \E s \in Sessions : CountOthers(s) \/ CommitPatch(s) \/ Invalidate(s)
  \/ \E r \in Readers, u \in Users : ReadRow(r, u)
  \/ \E r \in Readers : ReadFeatures(r) \/ WriteCache(r)
  \/ \E u \in Users : Expire(u)

AccountsSpec == AccountsInit /\ [][AccountsNext]_accountVars

-----------------------------------------------------------------------------
(* Properties.                                                             *)

AccountsTypeOK ==
  /\ appUsers \in [Users -> Account \cup {NoRow}]
  /\ disabled \subseteq Users
  /\ auditLog \in 0..MaxChanges
  /\ \A u \in Users : authz[u] \in [role : Roles, off : BOOLEAN] \cup {Revoked, NotCached}
  /\ \A s \in Sessions : patches[s] = NoPatch \/ patches[s].user \in Users
  /\ \A s, t \in UnderWay : s # t => patches[s].user # patches[t].user

\* The last active admin is taken away only by a change that counted another
\* one who has been taken away since: each change locks its own row and counts
\* the rows of others, which it does not lock (api/routes/admin.py, patch_user).
LastAdminRace ==
  [][(ActiveAdmins # {} /\ ActiveAdmins' = {}) =>
       \E s \in Sessions : /\ patches[s].step = "write"
                           /\ patches[s].others # {}
                           /\ patches[s].others \cap ActiveAdmins = {}]_accountVars

\* There is an active admin left (api/routes/admin.py, patch_user: "the last
\* active admin can neither be deactivated nor demoted").
SomeAdminLeft == ActiveAdmins # {}

\* What the tables say of a user.
Current(u) == IF appUsers[u].active THEN [role |-> appUsers[u].role, off |-> u \in disabled]
              ELSE Revoked

\* A change takes effect with the next request: a cache entry that is not
\* what the tables say has an invalidation to come, or is the work of a lookup
\* that had read before the commit, or of a Redis that did not delete
\* (api/auth.py, load_authz and invalidate_authz).
StaleExplained ==
  \A u \in Users : authz[u] \in {NotCached, Current(u)} \/ u \in raced
    \/ \E s \in Sessions : patches[s].user = u /\ patches[s].step = "invalidate"

=============================================================================
