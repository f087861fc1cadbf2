--------------------------- MODULE UserProjection ---------------------------
(***************************************************************************)
(* The users that the snapshots of a deployment carry to a Site.  Central  *)
(* puts every AdminUser in the Site's scope into each snapshot             *)
(* (build_snapshot) and pushes a new one when a user changes               *)
(* (users_api.py); the Site upserts its users table and queues an          *)
(* smb.user.revoke job for every user without SMB access                   *)
(* (_upsert_snapshot in upm_site/event_deployments.py).                    *)
(*                                                                         *)
(* One deployment over the ordered feed of OrderedDelivery.  Of a user the *)
(* model keeps what decides access; status reports reach Central at once   *)
(* (EventDeployment has them delayed).  Users are numbered in the order of *)
(* admin_user_id, in which a snapshot lists them.                          *)
(***************************************************************************)
EXTENDS Integers, Sequences

CONSTANTS
    UserCount,      \* users Central has
    SmbUsers,       \* users with SMB access when the event is first deployed
    Colliding,      \* users whose name a site_local user of the Site has
    MaxUserRevision,    \* bound: deployment revisions
    MaxChanges,     \* bound: changes of users by the administrator
    MaxUserRetries      \* bound: uses of the Retry action

Users == 1..UserCount

ASSUME UsersAssumption ==
    /\ UserCount \in Nat
    /\ SmbUsers \subseteq Users
    /\ Colliding \subseteq Users
    /\ MaxUserRevision \in Nat
    /\ MaxChanges \in Nat
    /\ MaxUserRetries \in Nat

VARIABLES
    admin,      \* Central: AdminUser rows: scope, active, smb_enabled, revision
    snaps,      \* Central: the stored snapshot of every deployment revision
    failed,     \* Central: the deployment's status is FAILED
    userFeed,       \* snapshots the Site has not accepted yet
    applied,    \* Site: applied_revision, 0 before the first
    userRows,       \* Site: central_managed User rows
    userKeys,       \* Site: idempotency keys of the smb.user.revoke jobs
    changes,    \* administrator's changes so far
    userRetries     \* retries so far

userVars == <<admin, snaps, failed, userFeed, applied, userRows, userKeys, changes, userRetries>>
userSiteVars == <<applied, userRows, userKeys>>

NoRow == [present |-> FALSE, active |-> FALSE, smb |-> FALSE, rev |-> 0]

\* The users exist and are in scope before the event is deployed.
UsersInit ==
    /\ admin = [u \in Users |-> [scope |-> TRUE, enabled |-> TRUE,
                                 smb |-> u \in SmbUsers, rev |-> 1]]
    /\ snaps = <<>>
    /\ failed = FALSE
    /\ userFeed = <<>>
    /\ applied = 0
    /\ userRows = [u \in Users |-> NoRow]
    /\ userKeys = {}
    /\ changes = 0
    /\ userRetries = 0

-----------------------------------------------------------------------------
(* Central *)

\* push_deployment with the users as build_snapshot reads them from table.
Push(table) ==
    /\ snaps' = Append(snaps, table)
    /\ userFeed' = Append(userFeed, [rev |-> Len(snaps) + 1, users |-> table])
    /\ failed' = FALSE

\* create_deployment, and later pushes for changes of the event itself.
push_deployment_users ==
    /\ Len(snaps) < MaxUserRevision
    /\ Push(admin)
    /\ UNCHANGED <<admin, userSiteVars, changes, userRetries>>

\* update_user: a new user revision, pushed if the user was or is in scope.
update_user(u, enabled, scope) ==
    /\ changes < MaxChanges
    /\ changes' = changes + 1
    /\ snaps # <<>>
    /\ Len(snaps) < MaxUserRevision
    /\ admin' = [admin EXCEPT ![u].enabled = enabled, ![u].scope = scope, ![u].rev = @ + 1]
    /\ IF admin[u].scope \/ scope
       THEN Push(admin')
       ELSE UNCHANGED <<snaps, userFeed, failed>>
    /\ UNCHANGED <<userSiteVars, userRetries>>

\* PUT smb-password and DELETE smb-access: no new user revision and no push.
set_smb_access(u) ==
    /\ changes < MaxChanges
    /\ changes' = changes + 1
    /\ admin' = [admin EXCEPT ![u].smb = ~@]
    /\ UNCHANGED <<snaps, failed, userFeed, userSiteVars, userRetries>>

\* retry_deployment sends the stored snapshot of the desired revision again.
retry_deployment_users ==
    /\ userRetries < MaxUserRetries
    /\ userRetries' = userRetries + 1
    /\ failed
    /\ failed' = FALSE
    /\ userFeed' = Append(userFeed, [rev |-> Len(snaps), users |-> snaps[Len(snaps)]])
    /\ UNCHANGED <<admin, snaps, userSiteVars, changes>>

-----------------------------------------------------------------------------
(* Site: _upsert_snapshot for snapshot s *)

\* Rows of users that the snapshot does not list.
Dropped(s) == {u \in Users : userRows[u].present /\ ~s.users[u].scope}

\* The loop over the listed users stops at the first one without a row: the new
\* User has no revision until it is flushed, and comparing with it raises
\* TypeError.
FirstNew(s) ==
    {u \in Users : /\ s.users[u].scope
                   /\ ~userRows[u].present
                   /\ \A v \in Users : (v < u /\ s.users[v].scope) => userRows[v].present}

\* Listed users the loop gets to, as far as their revision is not older.
Updated(s) ==
    {u \in Users : /\ s.users[u].scope
                   /\ userRows[u].present
                   /\ \A n \in FirstNew(s) : u < n
                   /\ s.users[u].rev >= userRows[u].rev}

Active(s, u) == s.users[u].enabled /\ u \notin Colliding
Smb(s, u) == s.users[u].smb /\ u \notin Colliding

\* smb-user-revoke:<user_id>:<revision>, the deployment's revision for a dropped
\* user and the user's for a listed one.
RevokeKeys(s) ==
    {<<u, s.rev>> : u \in Dropped(s)} \cup
    {<<u, s.users[u].rev>> : u \in {v \in Updated(s) : ~Active(s, v) \/ ~Smb(s, v)}}

\* UNIQUE(job_type, idempotency_key): IntegrityError, which apply_central_event
\* does not catch.  It undoes the whole pull, and the next pull meets it again.
Poisoned(s) == RevokeKeys(s) \cap userKeys # {}

\* Mutant: users who left the scope keep their row as it is.
Projected_keeps_dropped(s) ==
    [u \in Users |->
        IF u \in Updated(s)
        THEN [present |-> TRUE, active |-> Active(s, u), smb |-> Smb(s, u), rev |-> s.users[u].rev]
        ELSE IF u \in FirstNew(s)
        THEN [present |-> TRUE, active |-> TRUE, smb |-> FALSE, rev |-> 1]
        ELSE userRows[u]]

\* The users table afterwards; a row inserted before the TypeError has the
\* defaults of its columns.
Projected(s) ==
    [u \in Users |->
        IF u \in Dropped(s) THEN [userRows[u] EXCEPT !.active = FALSE, !.smb = FALSE]
        ELSE IF u \in Updated(s)
        THEN [present |-> TRUE, active |-> Active(s, u), smb |-> Smb(s, u), rev |-> s.users[u].rev]
        ELSE IF u \in FirstNew(s)
        THEN [present |-> TRUE, active |-> TRUE, smb |-> FALSE, rev |-> 1]
        ELSE userRows[u]]

\* apply_snapshot_event, revision known: nothing is projected.
DuplicateSnapshot ==
    /\ userFeed # <<>>
    /\ Head(userFeed).rev <= applied
    /\ userFeed' = Tail(userFeed)
    /\ UNCHANGED <<admin, snaps, failed, userSiteVars, changes, userRetries>>

\* apply_snapshot_event succeeds.
ApplyUserSnapshot ==
    LET s == Head(userFeed)
    IN /\ userFeed # <<>>
       /\ s.rev > applied
       /\ ~Poisoned(s)
       /\ FirstNew(s) = {}
       /\ userFeed' = Tail(userFeed)
       /\ applied' = s.rev
       /\ userRows' = Projected(s)
       /\ userKeys' = userKeys \cup RevokeKeys(s)
       /\ UNCHANGED <<admin, snaps, failed, changes, userRetries>>

\* Mutant: the failed application is rolled back to a savepoint.
UserSnapshotFails_rolled_back ==
    /\ userFeed # <<>>
    /\ Head(userFeed).rev > applied
    /\ ~Poisoned(Head(userFeed))
    /\ FirstNew(Head(userFeed)) # {}
    /\ userFeed' = Tail(userFeed)
    /\ failed' = TRUE
    /\ UNCHANGED <<admin, snaps, userSiteVars, changes, userRetries>>

\* apply_snapshot_event raises TypeError.  The except branch of apply_central_event
\* reports a failed deployment and returns, and the transaction commits what the
\* loop had done.
UserSnapshotFails ==
    LET s == Head(userFeed)
    IN /\ userFeed # <<>>
       /\ s.rev > applied
       /\ ~Poisoned(s)
       /\ FirstNew(s) # {}
       /\ userFeed' = Tail(userFeed)
       /\ userRows' = Projected(s)
       /\ userKeys' = userKeys \cup RevokeKeys(s)
       /\ failed' = TRUE
       /\ UNCHANGED <<admin, snaps, applied, changes, userRetries>>

-----------------------------------------------------------------------------
SiteProjects == DuplicateSnapshot \/ ApplyUserSnapshot \/ UserSnapshotFails

UsersNext ==
    \/ push_deployment_users
    \/ \E u \in Users : \E enabled, scope \in BOOLEAN : update_user(u, enabled, scope)
    \/ \E u \in Users : set_smb_access(u)
    \/ retry_deployment_users
    \/ SiteProjects

UsersSpec == UsersInit /\ [][UsersNext]_userVars

\* The feed keeps delivering, and the operator retries what has failed.
UsersFairSpec == UsersSpec /\ WF_userVars(SiteProjects) /\ WF_userVars(retry_deployment_users)

-----------------------------------------------------------------------------
(* Properties *)

\* A users table as Central reads it, which is what a snapshot carries.
UserTables == [Users -> [scope : BOOLEAN, enabled : BOOLEAN, smb : BOOLEAN,
                     rev : 1..(MaxChanges + 1)]]

\* Every variable has the type its comment gives it.
UsersTypeOK ==
    /\ admin \in UserTables
    /\ snaps \in Seq(UserTables)
    /\ Len(snaps) <= MaxUserRevision
    /\ failed \in BOOLEAN
    /\ userFeed \in Seq([rev : 1..MaxUserRevision, users : UserTables])
    /\ applied \in 0..MaxUserRevision
    /\ userRows \in [Users -> [present : BOOLEAN, active : BOOLEAN, smb : BOOLEAN,
                           rev : 0..(MaxChanges + 1)]]
    /\ userKeys \subseteq Users \X (1..(MaxUserRevision + MaxChanges + 1))
    /\ changes \in 0..MaxChanges
    /\ userRetries \in 0..MaxUserRetries

\* What is on the way to the Site was stored: the feed holds snapshots of known
\* deployment revisions, the Site has applied none that Central has not pushed, and
\* only a pushed deployment has failed (push_deployment, retry_deployment).
SentWasStored ==
    /\ \A i \in 1..Len(userFeed) : /\ userFeed[i].rev <= Len(snaps)
                                   /\ userFeed[i].users = snaps[userFeed[i].rev]
    /\ applied <= Len(snaps)
    /\ failed => snaps # <<>>

\* The latest snapshot has the administrator's word on who may sign in: what
\* update_user leaves unpushed concerns users out of scope.
LatestIsCurrent ==
    snaps # <<>> =>
        LET latest == snaps[Len(snaps)]
        IN \A u \in Users :
               /\ latest[u].scope = admin[u].scope
               /\ admin[u].scope => latest[u].enabled = admin[u].enabled
               /\ latest[u].rev <= admin[u].rev

\* Retransmissions and partial applications never put a user's row ahead of a
\* snapshot still to come, or the comparison of revisions in _upsert_snapshot would
\* skip that user.
RowsBehindFeed ==
    /\ \A u \in Users :
           /\ admin[u].rev <= changes + 1
           /\ ~userRows[u].present => ~userRows[u].active
           /\ snaps = <<>> => userRows[u].rev = 0
           /\ snaps # <<>> => userRows[u].rev <= snaps[Len(snaps)][u].rev
    /\ \A i \in 1..Len(userFeed) : \A u \in Users :
           /\ userRows[u].rev <= userFeed[i].users[u].rev
           /\ userFeed[i].users[u].rev <= snaps[Len(snaps)][u].rev
           /\ \A j \in i..Len(userFeed) : userFeed[i].users[u].rev <= userFeed[j].users[u].rev

\* Once the latest snapshot is applied, a user may sign in at the Site exactly if
\* Central has the user enabled and in scope, whatever partial applications,
\* re-added users and retransmissions came before (_upsert_snapshot).
UsersAgree ==
    (snaps # <<>> /\ applied = Len(snaps)) =>
        \A u \in Users :
            userRows[u].active <=> admin[u].scope /\ admin[u].enabled /\ u \notin Colliding

\* The snapshot at the head of the feed repeats the key of a job and blocks the feed.
Blocked == userFeed # <<>> /\ Head(userFeed).rev > applied /\ Poisoned(Head(userFeed))

\* As many retries as there are users get every deployment through, however many
\* revisions, changes and stored snapshots lie between them, unless a job key blocks the
\* feed: what a failed application has committed is never needed twice (the except
\* branch of apply_central_event, retry_deployment).
RetriesSuffice == <>[](snaps # <<>> => applied = Len(snaps) \/ Blocked)

\* "one poison event cannot permanently block later sequences": the Site gets
\* through its feed.
FeedDrains == []<>(userFeed = <<>>)

\* The users the Site lets in are those of the last snapshot it applied, whatever
\* failures came between (_upsert_snapshot).
UsersSafe ==
    /\ UsersTypeOK
    /\ SentWasStored
    /\ LatestIsCurrent
    /\ RowsBehindFeed
    /\ UsersAgree
=============================================================================
