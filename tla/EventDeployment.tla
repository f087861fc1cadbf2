--------------------------- MODULE EventDeployment ---------------------------
(***************************************************************************)
(* One event deployment: Central's EventDeployment row and its revisions   *)
(* (upm_central/event_deployments.py, upm_central/sync.py) and the Site's  *)
(* projection of it (upm_site/event_deployments.py).                       *)
(*                                                                         *)
(* The two directions are the ordered, exactly-once channels that          *)
(* OrderedDelivery promises: feed holds what the Site has not applied yet, *)
(* reports the status events Central has not applied yet.  An event that   *)
(* its receiver cannot accept stays at the head of its channel.  Snapshot  *)
(* contents are in UserProjection and RoomOperations; here applying a      *)
(* snapshot succeeds, fails with an error that is caught and reported, or  *)
(* breaks a constraint of the Site's database, which nothing catches.      *)
(***************************************************************************)
EXTENDS Integers, Sequences

CONSTANTS
    MaxRevision,    \* bound: desired_revision
    MaxFailures,    \* bound: failed applications at the Site
    MaxRetries,     \* bound: uses of the Retry action
    AllowRevoke,    \* may an administrator revoke the deployment?
    AllowDelete     \* may the event be deleted?

ASSUME ConstantsAssumption ==
    /\ MaxRevision \in Nat \ {0}
    /\ MaxFailures \in Nat
    /\ MaxRetries \in Nat
    /\ AllowRevoke \in BOOLEAN
    /\ AllowDelete \in BOOLEAN

VARIABLES
    dep,        \* Central: status, desired_revision, acknowledged_revision
    kinds,      \* Central: the kind of every EventDeploymentRevision
    reading,    \* the row as the current report handler has read it
    feed,       \* central.event_deployment.* and central.event.deleted events
    proj,       \* Site: status, desired_revision, applied_revision
    rows,       \* Site: revisions with an EventDeploymentRevisionProjection row
    keys,       \* Site: idempotency keys of the status events ever enqueued
    reports,    \* site.event_deployment.* events
    jam,        \* the constraint that the snapshot at the head of the feed breaks
    failures,   \* failed applications so far
    retries     \* retries so far

vars == <<dep, kinds, reading, feed, proj, rows, keys, reports, jam,
          failures, retries>>
centralVars == <<dep, kinds, reading, retries>>
siteVars == <<proj, rows, keys, jam, failures>>

Revisions == 0..MaxRevision
DeploymentStatuses == {"DRAFT", "PENDING", "DEPLOYING", "DEPLOYED",
                       "UPDATE_PENDING", "FAILED", "REVOKED", "ARCHIVED"}
DEPLOYABLE_STATUSES == DeploymentStatuses \ {"REVOKED", "ARCHIVED"}

ALLOWED_TRANSITIONS ==
    [DRAFT |-> {"PENDING", "ARCHIVED"},
     PENDING |-> {"DEPLOYING", "DEPLOYED", "UPDATE_PENDING", "FAILED", "REVOKED"},
     DEPLOYING |-> {"DEPLOYED", "UPDATE_PENDING", "FAILED", "REVOKED"},
     DEPLOYED |-> {"UPDATE_PENDING", "REVOKED", "ARCHIVED"},
     UPDATE_PENDING |-> {"DEPLOYING", "DEPLOYED", "FAILED", "REVOKED"},
     FAILED |-> {"PENDING", "UPDATE_PENDING", "REVOKED", "ARCHIVED"},
     REVOKED |-> {"PENDING", "ARCHIVED"},
     ARCHIVED |-> {}]

Max2(a, b) == IF a < b THEN b ELSE a
Min2(a, b) == IF a < b THEN a ELSE b

\* The row that is not there: not yet deployed, or deleted with its event.
Absent == [status |-> "ABSENT", desired |-> 0, ack |-> 0]
NoProjection == [status |-> "ABSENT", desired |-> 0, applied |-> 0]

Init ==
    /\ dep = Absent
    /\ kinds = <<>>
    /\ reading = Absent
    /\ feed = <<>>
    /\ proj = NoProjection
    /\ rows = {}
    /\ keys = {}
    /\ reports = <<>>
    /\ jam = "none"
    /\ failures = 0
    /\ retries = 0

-----------------------------------------------------------------------------
(* Central: administrator operations *)

\* transition(): the declared map, and staying put is always allowed.
transition(from, to) == to = from \/ to \in ALLOWED_TRANSITIONS[from]

_enqueue(kind, rev) == feed' = Append(feed, [kind |-> kind, rev |-> rev])

\* create_deployment and its first push_deployment; the row is unique per
\* event and Site, and a deleted event is not deployed again.
create_deployment ==
    /\ dep = Absent
    /\ kinds = <<>>
    /\ dep' = [status |-> "PENDING", desired |-> 1, ack |-> 0]
    /\ kinds' = <<"snapshot">>
    /\ _enqueue("snapshot", 1)
    /\ UNCHANGED <<reading, siteVars, reports, retries>>

\* push_deployment, by the administrator or by update_event.
push_deployment ==
    /\ dep.status \in DEPLOYABLE_STATUSES
    /\ transition(dep.status, "UPDATE_PENDING")
    /\ dep.desired < MaxRevision
    /\ dep' = [dep EXCEPT !.status = "UPDATE_PENDING", !.desired = @ + 1]
    /\ kinds' = Append(kinds, "snapshot")
    /\ _enqueue("snapshot", dep.desired + 1)
    /\ UNCHANGED <<reading, siteVars, reports, retries>>

\* retry_deployment sends the desired revision again, whatever its kind.
retry_deployment ==
    LET target == IF dep.ack = 0 THEN "PENDING" ELSE "UPDATE_PENDING"
    IN /\ retries < MaxRetries
       /\ retries' = retries + 1
       /\ dep.status = "FAILED"
       /\ transition(dep.status, target)
       /\ dep' = [dep EXCEPT !.status = target]
       /\ _enqueue(kinds[dep.desired], dep.desired)
       /\ UNCHANGED <<kinds, reading, siteVars, reports>>

\* revoke_deployment; a revoked deployment may be revoked again.
revoke_deployment ==
    /\ AllowRevoke
    /\ dep.status \in DeploymentStatuses
    /\ transition(dep.status, "REVOKED")
    /\ dep.desired < MaxRevision
    /\ dep' = [dep EXCEPT !.status = "REVOKED", !.desired = @ + 1]
    /\ kinds' = Append(kinds, "revocation")
    /\ _enqueue("revocation", dep.desired + 1)
    /\ UNCHANGED <<reading, siteVars, reports, retries>>

\* _delete_event: a tombstone for the Site, then the row and its revisions go.
_delete_event ==
    /\ AllowDelete
    /\ dep # Absent
    /\ dep' = Absent
    /\ kinds' = <<"deleted">>
    /\ _enqueue("deletion", 0)
    /\ UNCHANGED <<reading, siteVars, reports, retries>>

-----------------------------------------------------------------------------
(* Site: apply_central_event for the head of the feed *)

\* _status_event: the queue with the report, unless its idempotency key exists.
_status_event(queue, p, status) ==
    IF <<p.desired, p.applied, status>> \in keys THEN queue
    ELSE Append(queue, [status |-> status, desired |-> p.desired, applied |-> p.applied])

\* The keys of the outbox once p has been reported with these statuses.
StatusKeys(p, statuses) == keys \cup {<<p.desired, p.applied, st>> : st \in statuses}

\* Is the head of the feed a snapshot that the Site does not run already?
FreshSnapshot ==
    /\ feed # <<>>
    /\ Head(feed).kind = "snapshot"
    /\ proj = NoProjection \/ Head(feed).rev > proj.applied

\* apply_snapshot_event succeeds.
ApplySnapshot ==
    LET rev == Head(feed).rev
        fresh == proj = NoProjection \/ rev > proj.applied
        p == IF fresh THEN [status |-> "DEPLOYED", desired |-> rev, applied |-> rev]
             ELSE [proj EXCEPT !.desired = Max2(@, rev)]
    IN /\ feed # <<>>
       /\ Head(feed).kind = "snapshot"
       /\ jam = "none"
       /\ feed' = Tail(feed)
       /\ proj' = p
       /\ rows' = IF fresh THEN rows \cup {rev} ELSE rows
       /\ IF fresh
          THEN /\ reports' = _status_event(_status_event(reports, p, "received"), p, "applied")
               /\ keys' = StatusKeys(p, {"received", "applied"})
          ELSE LET status == IF rev = p.applied THEN "applied" ELSE "stale"
               IN /\ reports' = _status_event(reports, p, status)
                  /\ keys' = StatusKeys(p, {status})
       /\ UNCHANGED <<centralVars, jam, failures>>

\* Mutant: the failure is recorded at the Site and not reported.
ReportFailure_silent(rev) ==
    /\ feed' = Tail(feed)
    /\ proj' = IF proj = NoProjection THEN proj
               ELSE [proj EXCEPT !.status = "FAILED", !.desired = Max2(@, rev)]
    /\ UNCHANGED <<centralVars, rows, keys, reports, jam>>

\* _enqueue_deployment_failure; the transport cursor advances all the same.
ReportFailure(rev) ==
    /\ feed' = Tail(feed)
    /\ proj' = IF proj = NoProjection THEN proj
               ELSE [proj EXCEPT !.status = "FAILED", !.desired = Max2(@, rev)]
    /\ reports' = Append(reports, [status |-> "failed", desired |-> rev, applied |-> proj.applied])
    /\ UNCHANGED <<centralVars, rows, keys, jam>>

\* apply_snapshot_event raises KeyError, TypeError or ValueError.
SnapshotFails ==
    /\ FreshSnapshot
    /\ jam = "none"
    /\ failures < MaxFailures
    /\ failures' = failures + 1
    /\ ReportFailure(Head(feed).rev)

\* _upsert_snapshot breaks a constraint: the key of an smb.user.revoke job that is
\* there already, or a room assignment that would end before its session starts.
\* Nothing catches IntegrityError: the pull is undone, and so is every further one.
SnapshotBreaks ==
    /\ FreshSnapshot
    /\ jam = "none"
    /\ failures < MaxFailures
    /\ failures' = failures + 1
    /\ jam' \in {"job_key", "room_time"}
    /\ UNCHANGED <<centralVars, feed, proj, rows, keys, reports>>

\* The session whose room assignment was in the way has started.
SessionStarts ==
    /\ jam = "room_time"
    /\ jam' = "none"
    /\ UNCHANGED <<centralVars, feed, proj, rows, keys, reports, failures>>

\* Mutant: the revocation does not raise desired_revision.
ApplyRevocation_desired_kept ==
    LET rev == Head(feed).rev
        p == [status |-> "REVOKED", desired |-> proj.desired, applied |-> Max2(proj.applied, rev)]
    IN /\ feed # <<>>
       /\ Head(feed).kind = "revocation"
       /\ proj # NoProjection
       /\ rev \notin rows
       /\ feed' = Tail(feed)
       /\ proj' = p
       /\ rows' = rows \cup {rev}
       /\ reports' = _status_event(reports, p, "revoked")
       /\ keys' = StatusKeys(p, {"revoked"})
       /\ UNCHANGED <<centralVars, jam, failures>>

\* apply_revocation_event.  It inserts the revision row unconditionally: for a
\* revision that has one, IntegrityError undoes the whole pull.
ApplyRevocation ==
    LET rev == Head(feed).rev
        p == [status |-> "REVOKED", desired |-> Max2(proj.desired, rev),
              applied |-> Max2(proj.applied, rev)]
    IN /\ feed # <<>>
       /\ Head(feed).kind = "revocation"
       /\ proj # NoProjection
       /\ rev \notin rows
       /\ feed' = Tail(feed)
       /\ proj' = p
       /\ rows' = rows \cup {rev}
       /\ reports' = _status_event(reports, p, "revoked")
       /\ keys' = StatusKeys(p, {"revoked"})
       /\ UNCHANGED <<centralVars, jam, failures>>

\* Mutant: the revocation of an unknown deployment is rejected at transport level.
UnknownRevocation_rejected ==
    /\ feed # <<>>
    /\ Head(feed).kind = "revocation"
    /\ proj = NoProjection
    /\ UNCHANGED vars

\* apply_revocation_event for a deployment the Site never applied.
UnknownRevocation ==
    /\ feed # <<>>
    /\ Head(feed).kind = "revocation"
    /\ proj = NoProjection
    /\ ReportFailure(Head(feed).rev)
    /\ UNCHANGED failures

\* apply_event_deletion: the projection and its rows go, outbox events stay.
ApplyDeletion ==
    /\ feed # <<>>
    /\ Head(feed).kind = "deletion"
    /\ feed' = Tail(feed)
    /\ proj' = NoProjection
    /\ rows' = {}
    /\ UNCHANGED <<centralVars, keys, jam, failures, reports>>

-----------------------------------------------------------------------------
(* Central: apply_site_event for the head of the reports *)


\* session.get(EventDeployment) takes no lock.  Without a row the event is refused
\* (invalid_deployment_identity) and the cursor does not pass it.
ReadDeployment ==
    /\ reports # <<>>
    /\ reading = Absent
    /\ dep # Absent
    /\ reading' = dep
    /\ UNCHANGED <<dep, kinds, retries, feed, siteVars, reports>>

\* Mutant: a failure report acknowledges the revision that failed.
Reported_failure_acks(r, report) ==
    [r EXCEPT !.ack = Max2(@, Min2(report.desired, r.desired)),
              !.status = IF report.status = "failed" THEN "FAILED" ELSE "DEPLOYED"]

\* acknowledged_revision and status as the handler computes them from what it read.
Reported(r, report) ==
    CASE report.status \in {"applied", "stale"} ->
            LET ack == Max2(r.ack, Min2(report.applied, r.desired))
            IN [r EXCEPT !.ack = ack,
                         !.status = IF ack = r.desired THEN "DEPLOYED" ELSE "UPDATE_PENDING"]
      [] report.status = "received" ->
            [r EXCEPT !.status = IF @ \in {"PENDING", "UPDATE_PENDING"} THEN "DEPLOYING" ELSE @]
      [] report.status = "failed" -> [r EXCEPT !.status = "FAILED"]
      [] report.status = "revoked" ->
            [r EXCEPT !.status = "REVOKED", !.ack = Max2(@, Min2(report.desired, r.desired))]

\* Mutant: the whole row is written back as it was read.
ApplyReport_whole_row ==
    /\ reading # Absent
    /\ reading' = Absent
    /\ dep # Absent
    /\ dep' = Reported(reading, Head(reports))
    /\ reports' = Tail(reports)
    /\ UNCHANGED <<kinds, retries, feed, siteVars>>

\* The UPDATE carries the columns the handler changed, over whatever has been
\* committed since; for a row deleted meanwhile the handler fails and is retried.
ApplyReport ==
    LET new == Reported(reading, Head(reports))
    IN /\ reading # Absent
       /\ reading' = Absent
       /\ IF dep = Absent
          THEN UNCHANGED <<dep, reports>>
          ELSE /\ dep' = [dep EXCEPT
                            !.status = IF new.status = reading.status THEN @ ELSE new.status,
                            !.ack = IF new.ack = reading.ack THEN @ ELSE new.ack]
               /\ reports' = Tail(reports)
       /\ UNCHANGED <<kinds, retries, feed, siteVars>>

-----------------------------------------------------------------------------
Administer ==
    \/ create_deployment
    \/ push_deployment
    \/ retry_deployment
    \/ revoke_deployment
    \/ _delete_event

SiteApply ==
    \/ ApplySnapshot
    \/ SnapshotFails
    \/ SnapshotBreaks
    \/ ApplyRevocation
    \/ UnknownRevocation
    \/ ApplyDeletion

CentralApply == ReadDeployment \/ ApplyReport

Next == Administer \/ SiteApply \/ SessionStarts \/ CentralApply

Spec == Init /\ [][Next]_vars

\* Both directions keep delivering, time passes, and the operator retries what failed.
FairSpec ==
    /\ Spec
    /\ WF_vars(SiteApply)
    /\ WF_vars(SessionStarts)
    /\ WF_vars(CentralApply)
    /\ WF_vars(retry_deployment)

-----------------------------------------------------------------------------
(* Properties *)

\* Every variable has the type its comment gives it.
TypeOK ==
    /\ dep \in [status : DeploymentStatuses \cup {"ABSENT"}, desired : Revisions, ack : Revisions]
    /\ reading \in [status : DeploymentStatuses \cup {"ABSENT"}, desired : Revisions, ack : Revisions]
    /\ kinds \in Seq({"snapshot", "revocation", "deleted"})
    /\ feed \in Seq([kind : {"snapshot", "revocation", "deletion"}, rev : Revisions])
    /\ proj \in [status : {"ABSENT", "DEPLOYED", "FAILED", "REVOKED"},
                 desired : Revisions, applied : Revisions]
    /\ rows \in SUBSET Revisions
    /\ keys \in SUBSET (Revisions \X Revisions \X {"received", "applied", "stale", "revoked"})
    /\ reports \in Seq([status : {"received", "applied", "stale", "failed", "revoked"},
                        desired : Revisions, applied : Revisions])
    /\ jam \in {"none", "job_key", "room_time"}
    /\ failures \in 0..MaxFailures
    /\ retries \in 0..MaxRetries

\* Central never shows a revision as applied that the Site has not applied: late
\* reports, retransmissions and the unlocked read of the report handler included.
AckedWasApplied == (dep # Absent /\ proj # NoProjection) => dep.ack <= proj.applied

\* The CHECK constraints acknowledged_not_ahead and applied_not_ahead hold, so no
\* handler is ever aborted by one of them.
NotAhead ==
    /\ dep.ack <= dep.desired
    /\ proj.applied <= proj.desired

Quiet == feed = <<>> /\ reports = <<>> /\ reading = Absent

\* When nothing is in flight the two sides agree, whatever handlers overwrote each
\* other's columns on the way: Central says DEPLOYED exactly when the Site runs
\* the desired revision, and otherwise FAILED or REVOKED, never a pending state.
QuietMeansAgreed ==
    (Quiet /\ dep # Absent) =>
        /\ dep.status \in {"DEPLOYED", "FAILED", "REVOKED"}
        /\ dep.status = "DEPLOYED" =>
              proj = [status |-> "DEPLOYED", desired |-> dep.desired, applied |-> dep.desired]
        /\ dep.status # "FAILED" => dep.ack = dep.desired

\* Absent rows are empty, a deleted deployment never comes back, and the report that
\* a handler has read for is still there.
RowsThere ==
    /\ dep.status = "ABSENT" => dep = Absent
    /\ reading.status = "ABSENT" => reading = Absent
    /\ proj.status = "ABSENT" => proj = NoProjection
    /\ reading # Absent => reports # <<>>
    /\ dep = Absent => \/ kinds = <<"deleted">>
                       \/ /\ kinds = <<>> /\ feed = <<>> /\ reports = <<>> /\ keys = {}
                          /\ proj = NoProjection

\* Every revision up to the desired one has its kind, and the feed leads to the desired
\* revision: in order, never behind what the Site has recorded, retries included.
FeedLeadsOn ==
    dep # Absent =>
        /\ 1 <= dep.desired /\ Len(kinds) = dep.desired
        /\ \A i \in 1..Len(kinds) : kinds[i] # "deleted"
        /\ \A i \in 1..Len(feed) :
              /\ 1 <= feed[i].rev /\ feed[i].rev <= dep.desired
              /\ feed[i].kind = kinds[feed[i].rev]
              /\ proj.desired <= feed[i].rev
        /\ \A i, j \in 1..Len(feed) : i <= j => feed[i].rev <= feed[j].rev
        /\ feed # <<>> => feed[Len(feed)].rev = dep.desired

\* The Site runs the last revision it was told of or has failed on it, and its
\* idempotency keys are of what it has applied.
SiteBehind ==
    dep # Absent =>
        /\ proj.desired <= dep.desired
        /\ proj.status = "FAILED" => proj.applied < proj.desired
        /\ proj.status \in {"DEPLOYED", "REVOKED"} =>
              /\ 1 <= proj.applied /\ proj.applied = proj.desired
              /\ kinds[proj.applied] = IF proj.status = "DEPLOYED" THEN "snapshot" ELSE "revocation"
        /\ \A k \in keys : k[2] <= proj.applied

\* Neither Central's row, nor the row a handler has read, nor a report on its way says
\* more than the Site has applied.
ReportsTrue ==
    dep # Absent =>
        /\ dep.ack <= proj.applied
        /\ reading # Absent => /\ reading.ack = dep.ack
                               /\ reading.ack <= reading.desired /\ reading.desired <= dep.desired
        /\ \A i \in 1..Len(reports) :
              /\ reports[i].status \in {"applied", "stale"} => reports[i].applied <= proj.applied
              /\ reports[i].status = "revoked" => reports[i].desired <= proj.applied

\* The Site has dealt with the desired revision, whatever the feed repeats of it.
Concluded == proj.applied = dep.desired \/ feed = <<>>

\* What the Site reports of the revision it has applied.
Verdict == [status |-> IF proj.status = "DEPLOYED" THEN "applied" ELSE "revoked",
            desired |-> dep.desired, applied |-> dep.desired]

\* What the Site made of the desired revision is the last thing Central hears, or what
\* Central already shows: as long as anything is left to apply, nothing is claimed.
VerdictComes ==
    (dep # Absent /\ Concluded) =>
        IF proj.applied = dep.desired
        THEN IF reports # <<>> THEN reports[Len(reports)] = Verdict
             ELSE dep.status = proj.status /\ dep.ack = dep.desired
        ELSE IF reports # <<>> THEN reports[Len(reports)].status = "failed"
             ELSE dep.status = "FAILED"

\* A handler of the last report works on what still holds: nobody has pushed since, and
\* only a retry of a revision the Site runs already can have changed the status.
LastReadCurrent ==
    (dep # Absent /\ reading # Absent /\ Len(reports) = 1 /\ Concluded) =>
        /\ reading.desired = dep.desired
        /\ \/ reading.status = dep.status
           \/ reading.status = "FAILED" /\ proj.applied = dep.desired

\* Central and Site are consistent while events and reports are on their way.
DeploymentCoherent ==
    RowsThere /\ FeedLeadsOn /\ SiteBehind /\ ReportsTrue /\ VerdictComes /\ LastReadCurrent

\* "Site status events eventually make desired_revision == applied_revision at
\* Central", given failures that end and an operator who retries.  A revocation
\* that overtakes a failed snapshot may end otherwise, and so may a snapshot with the
\* key of an old job, see FeedStopsOnlyWhenWedged.
Converges ==
    \/ <>[](dep # Absent => dep.ack = dep.desired)
    \/ <>(\E i \in 1..Len(kinds) : kinds[i] = "revocation")
    \/ <>(jam = "job_key")

\* apply_revocation_event meets a revision that already has its row.
Wedged ==
    /\ feed # <<>>
    /\ Head(feed).kind = "revocation"
    /\ Head(feed).rev \in rows

\* The Site gets through its feed, and only two things can stop it: a revocation sent
\* again for a revision it has recorded (apply_revocation_event), and a snapshot that
\* makes the key of an old job again (_upsert_snapshot).  A snapshot that ends a room
\* assignment too early holds the feed up until the session has started.
FeedStopsOnlyWhenWedged == []<>(feed = <<>> \/ Wedged \/ jam = "job_key")

\* Central gets through the status reports as long as the deployment exists; the
\* ones it meets after _delete_event stay at the head of the Site's outbox.
ReportsStopOnlyWhenDeleted == []<>(reports = <<>> \/ dep = Absent)

\* What Central believes of a deployment: no side is ahead of the pushes, the revision
\* that is shown as acknowledged was applied at the Site, and with nothing under way
\* both sides agree (push_deployment, apply_snapshot_event, apply_site_event).
DeploymentHonest ==
    TypeOK /\ DeploymentCoherent /\ NotAhead /\ AckedWasApplied /\ QuietMeansAgreed

=============================================================================
