------------------------------- MODULE Lifecycle -------------------------------
(***************************************************************************)
(* Permanent deletion at Central: of one event, of one person, or of all   *)
(* people known when it is asked for.  A request records an operation and  *)
(* its job; the worker deletes in one transaction and leaves a tombstone   *)
(* in the feed of every Site that has a deployment of an affected event.   *)
(*                                                                         *)
(* The worker's transaction runs at READ COMMITTED beside the requests: it *)
(* reads what is affected, deletes the rows it then sees, deletes people   *)
(* and reads the Sites to tell, and commits (`run'); an event is deleted   *)
(* as it commits.  A push takes a lock on its event, reads the program,    *)
(* and enqueues its snapshot when it gets the lock on the Site's sequence  *)
(* (`push').  Where the two lock against each other PostgreSQL aborts one. *)
(* A worker that dies takes its claim with it, for the claim is a part of  *)
(* the same transaction.                                                   *)
(*                                                                         *)
(* One general worker; one push at a time; no revocations (they are in     *)
(* EventDeployment).  Sessions, presentations and media go with the event  *)
(* they belong to and are left out, as are people hidden by delete_person  *)
(* (ProgramImport).  A Site knows a person exactly as long as it has a     *)
(* participation row of theirs, so its people are not kept apart.          *)
(***************************************************************************)
EXTENDS Naturals, FiniteSets, Sequences, SequencesExt

CONSTANTS
    Individuals,    \* person ids
    Occasions,      \* event ids
    Sites,
    Sweeps,         \* ids of bulk deletions
    Enlisted,       \* the participations in the beginning
    NoTarget,
    MaxAttempts,    \* ProcessingJob.max_attempts
    MaxPushes,      \* bound on the revisions of a deployment
    MaxRequeues     \* bound on retries by the operator

ASSUME LifecycleAssumption ==
    /\ Enlisted \subseteq Individuals \X Occasions
    /\ Individuals \cap Occasions = {} /\ (Individuals \cup Occasions) \cap Sweeps = {}
    /\ IsFiniteSet(Occasions) /\ IsFiniteSet(Sweeps)
    /\ NoTarget \notin Individuals \cup Occasions \cup Sweeps
    /\ MaxAttempts \in Nat \ {0} /\ MaxPushes \in Nat /\ MaxRequeues \in Nat

VARIABLES
    alive,          \* Person and Event rows
    member,         \* EventParticipation rows
    history,        \* RetainedPersonHistory rows
    deployment,     \* EventDeployment rows, each with the snapshot of its last revision
    operation,      \* DeletionOperation rows and their jobs, by target
    run,            \* the worker's transaction
    push,           \* a push between its snapshot and its place in the feed
    feed,           \* what each Site has not applied yet
    projected,      \* EventParticipation rows of each Site
    excused,        \* participations that a race or a resent snapshot left behind
    requeues

lifecycleVars == <<alive, member, history, deployment, operation, run, push, feed, projected,
                   excused, requeues>>

Participations == Individuals \X Occasions
Targets == Individuals \cup Occasions \cup Sweeps
NoDeployment == [status |-> "none", revision |-> 0, people |-> {}]
NoOperation == [status |-> "none", attempts |-> 0, ids |-> {}]
NoRun == [target |-> NoTarget, phase |-> "none", affected |-> {}, members |-> {}, sites |-> {},
          cleaned |-> {}, removed |-> {}, late |-> {}]
NoPush == [event |-> NoTarget, site |-> NoTarget, people |-> {}]
Revised == MaxPushes + Cardinality(Sweeps)
DeletionStatus == {"pending", "retry_wait", "failed", "completed"}

Message == [kind: {"snapshot"}, event: Occasions, people: SUBSET Individuals, revision: 1..Revised]
           \cup [kind: {"people"}, people: SUBSET Individuals]
           \cup [kind: {"event"}, event: Occasions]

LifecycleTypeOK ==
    /\ alive \subseteq Individuals \cup Occasions
    /\ member \subseteq Participations /\ history \subseteq Participations
    /\ excused \subseteq Participations
    /\ deployment \in [Occasions \X Sites ->
                          [status: {"none", "live", "failed"}, revision: 0..Revised,
                           people: SUBSET Individuals]]
    /\ operation \in [Targets -> [status: DeletionStatus, attempts: 0..MaxAttempts,
                                  ids: SUBSET Individuals] \cup {NoOperation}]
    /\ run = NoRun \/ /\ run \in [target: Targets, phase: {"read", "cleaned", "told"},
                                 affected: SUBSET Occasions, members: SUBSET Individuals,
                                 sites: SUBSET Sites, cleaned: SUBSET Participations,
                                 removed: SUBSET Sites, late: SUBSET Occasions]
                      /\ operation[run.target].status \in {"pending", "retry_wait"}
    /\ push = NoPush \/ push \in [event: Occasions, site: Sites, people: SUBSET Individuals]
    /\ feed \in [Sites -> Seq(Message)] /\ projected \in [Sites -> SUBSET Participations]
    /\ requeues \in 0..MaxRequeues

LifecycleInit ==
    /\ alive = {e[1] : e \in Enlisted} \cup Occasions
    /\ member = Enlisted
    /\ history = {} /\ excused = {}
    /\ deployment = [d \in Occasions \X Sites |-> NoDeployment]
    /\ operation = [t \in Targets |-> NoOperation]
    /\ run = NoRun /\ push = NoPush
    /\ feed = [s \in Sites |-> <<>>]
    /\ projected = [s \in Sites |-> {}]
    /\ requeues = 0

ProgramUnchanged == UNCHANGED <<alive, member, history>>
SitesUnchanged == UNCHANGED <<feed, projected>>
OperationsUnchanged == UNCHANGED <<operation, run, requeues>>

EventsOf(ids) == {e \in Occasions : \E p \in ids : <<p, e>> \in member}
PeopleOf(e) == {p \in Individuals : <<p, e>> \in member}
Has(e, s) == deployment[<<e, s>>].status # "none"
SitesOf_working(events) == {s \in Sites : \E e \in events : deployment[<<e, s>>].status = "live"}
SitesOf(events) == {s \in Sites : \E e \in events : Has(e, s)}

-----------------------------------------------------------------------------
(* The program and its deployments.                                        *)

AddPerson(p) ==
    /\ p \in Individuals \ alive /\ operation[p] = NoOperation
    /\ \A t \in Sweeps : p \notin operation[t].ids
    /\ alive' = alive \cup {p}
    /\ UNCHANGED <<member, history, deployment, push, excused>>
    /\ SitesUnchanged /\ OperationsUnchanged

\* The push of an event holds the row of the event, which the new row refers to, and the
\* deletion that has deleted a person holds theirs.
AddParticipation(p, e) ==
    /\ {p, e} \subseteq alive /\ <<p, e>> \notin member /\ push.event # e
    /\ run.phase = "told" => p \notin operation[run.target].ids
    /\ member' = member \cup {<<p, e>>}
    /\ UNCHANGED <<alive, history, deployment, push, excused>>
    /\ SitesUnchanged /\ OperationsUnchanged

\* create_deployment and push_deployment up to the snapshot.
BeginPush(e, s) ==
    /\ push = NoPush /\ e \in alive /\ deployment[<<e, s>>].revision < MaxPushes
    /\ push' = [event |-> e, site |-> s, people |-> PeopleOf(e)]
    /\ UNCHANGED <<deployment, excused>>
    /\ ProgramUnchanged /\ SitesUnchanged /\ OperationsUnchanged

\* A deletion holds the sequences of the Sites it has enqueued for.
Holds(s) == s \in run.sites

Snapshot(e, ids, rev) == [kind |-> "snapshot", event |-> e, people |-> ids, revision |-> rev]
Gone(ids, e) == {<<p, e>> : p \in ids \ alive}

\* The Sites of the event were read before it got this one.
MarkLate(e, s) ==
    run' = IF run.phase = "told" /\ ~Has(e, s) THEN [run EXCEPT !.late = @ \cup {e}] ELSE run

\* next_sequence, then the commit.
FinishPush ==
    LET e == push.event
        s == push.site
        rev == deployment[<<e, s>>].revision + 1
    IN  /\ push # NoPush /\ ~Holds(s)
        /\ deployment' = [deployment EXCEPT ![<<e, s>>] = [status |-> "live", revision |-> rev,
                                                       people |-> push.people]]
        /\ feed' = [feed EXCEPT ![s] = Append(@, Snapshot(e, push.people, rev))]
        /\ excused' = excused \cup Gone(push.people, e)
        /\ push' = NoPush
        /\ MarkLate(e, s)
        /\ UNCHANGED <<projected, operation, requeues>> /\ ProgramUnchanged

\* A deadlock with the worker, or any other failure of the request.
AbortPush ==
    /\ push # NoPush
    /\ push' = NoPush
    /\ UNCHANGED <<deployment, excused>>
    /\ ProgramUnchanged /\ SitesUnchanged /\ OperationsUnchanged

\* The stored snapshot is sent once more as it is.
ResendSnapshot(e, s) ==
    LET d == deployment[<<e, s>>]
    IN  /\ d.status = "failed" /\ ~Holds(s) /\ push = NoPush
        /\ deployment' = [deployment EXCEPT ![<<e, s>>].status = "live"]
        /\ feed' = [feed EXCEPT ![s] = Append(@, Snapshot(e, d.people, d.revision))]
        /\ excused' = excused \cup Gone(d.people, e)
        /\ UNCHANGED <<push, projected>> /\ ProgramUnchanged /\ OperationsUnchanged

-----------------------------------------------------------------------------
(* The Site.                                                               *)

Receives(s, kind) == feed[s] # <<>> /\ Head(feed[s]).kind = kind
Consume(s) == feed' = [feed EXCEPT ![s] = Tail(@)]

\* The rows of the snapshot are added, and no row of the Site is removed.
ApplySnapshot(s) ==
    /\ Receives(s, "snapshot") /\ Consume(s)
    /\ projected' = [projected EXCEPT
                        ![s] = @ \cup (Head(feed[s]).people \X {Head(feed[s]).event})]
    /\ UNCHANGED <<deployment, push, excused>> /\ ProgramUnchanged /\ OperationsUnchanged

\* The Site cannot apply the snapshot and Central is told, if it still has the deployment and
\* wants no later revision.
RejectSnapshot(s) ==
    /\ Receives(s, "snapshot") /\ Consume(s)
    /\ LET d == <<Head(feed[s]).event, s>>
       IN  deployment' = IF /\ deployment[d].status # "none"
                            /\ deployment[d].revision = Head(feed[s]).revision
                         THEN [deployment EXCEPT ![d].status = "failed"] ELSE deployment
    /\ UNCHANGED <<projected, push, excused>> /\ ProgramUnchanged /\ OperationsUnchanged

apply_people_deletion(s) ==
    /\ Receives(s, "people") /\ Consume(s)
    /\ projected' = [projected EXCEPT ![s] = {m \in @ : m[1] \notin Head(feed[s]).people}]
    /\ UNCHANGED <<deployment, push, excused>> /\ ProgramUnchanged /\ OperationsUnchanged

apply_event_deletion(s) ==
    /\ Receives(s, "event") /\ Consume(s)
    /\ projected' = [projected EXCEPT ![s] = {m \in @ : m[2] # Head(feed[s]).event}]
    /\ UNCHANGED <<deployment, push, excused>> /\ ProgramUnchanged /\ OperationsUnchanged

-----------------------------------------------------------------------------
(* Requests.                                                               *)

RequestsUnchanged ==
    /\ UNCHANGED <<deployment, run, push, excused>> /\ ProgramUnchanged /\ SitesUnchanged

Queued(ids) == [status |-> "pending", attempts |-> 0, ids |-> ids]

\* An operation for the same target is returned, whatever became of it.
request_deletion(t) ==
    /\ t \in alive /\ operation[t] = NoOperation
    /\ operation' = [operation EXCEPT ![t] = Queued({t} \cap Individuals)]
    /\ UNCHANGED requeues /\ RequestsUnchanged

Unfinished(t) == operation[t].status \in {"pending", "retry_wait"}

request_bulk_people_deletion(t) ==
    /\ operation[t] = NoOperation /\ ~\E u \in Sweeps : Unfinished(u)
    /\ alive \cap Individuals # {}
    /\ operation' = [operation EXCEPT ![t] = Queued(alive \cap Individuals)]
    /\ UNCHANGED requeues /\ RequestsUnchanged

retry_deletion(t) ==
    /\ operation[t].status = "failed" /\ requeues < MaxRequeues
    /\ operation' = [operation EXCEPT ![t] = Queued(@.ids)]
    /\ requeues' = requeues + 1
    /\ RequestsUnchanged

-----------------------------------------------------------------------------
(* The worker.                                                             *)

WorkerUnchanged == UNCHANGED <<push, projected, requeues>>

\* The events whose Sites are told, or the people and Sites of the event.
ClaimDeletion(t) ==
    /\ run = NoRun /\ Unfinished(t)
    /\ run' = [NoRun EXCEPT !.target = t, !.phase = "read",
                            !.affected = EventsOf(operation[t].ids),
                            !.members = IF t \in Occasions THEN PeopleOf(t) ELSE {},
                            !.sites = IF t \in Occasions THEN SitesOf({t}) ELSE {}]
    /\ UNCHANGED <<operation, deployment, feed, excused>>
    /\ ProgramUnchanged /\ WorkerUnchanged

\* The rows the deletion of t has to remove before t itself.
Dependent(t) == {m \in member : m[1] \in operation[t].ids \/ m[2] = t}
Deployed(t) == {s \in Sites : t \in Occasions /\ Has(t, s)}

CleanUp ==
    /\ run.phase = "read"
    /\ run' = [run EXCEPT !.phase = "cleaned", !.cleaned = Dependent(run.target),
                          !.removed = Deployed(run.target)]
    /\ UNCHANGED <<operation, deployment, feed, excused>>
    /\ ProgramUnchanged /\ WorkerUnchanged

Violated_never == FALSE

\* A row inserted after the clean-up refers to the event or person that is deleted last.
Violated == Dependent(run.target) # run.cleaned \/ Deployed(run.target) # run.removed

Fail_uncounted(status) ==
    /\ operation' = [operation EXCEPT ![run.target].status = status]
    /\ run' = NoRun
    /\ UNCHANGED <<deployment, feed, excused>>
    /\ ProgramUnchanged /\ WorkerUnchanged

Fail(status) ==
    /\ operation' = [operation EXCEPT ![run.target].status = status,
                                      ![run.target].attempts = @ + 1]
    /\ run' = NoRun
    /\ UNCHANGED <<deployment, feed, excused>>
    /\ ProgramUnchanged /\ WorkerUnchanged

\* Nobody holds an event that the transaction still has to write.
Free(events) == push.event \notin events

IntegrityError == run.phase = "cleaned" /\ Violated /\ Fail("failed")

TransientError ==
    /\ run # NoRun
    /\ Fail(IF operation[run.target].attempts + 1 < MaxAttempts THEN "retry_wait" ELSE "failed")

Complete ==
    /\ operation' = [operation EXCEPT ![run.target].status = "completed",
                                      ![run.target].attempts = @ + 1]
    /\ run' = NoRun
    /\ WorkerUnchanged

Retained_none(t) == {}

\* RetainedPersonHistory of the people the event was seen to have.
Retained(t) == run.members \X {t}

_delete_event ==
    LET t == run.target
    IN  /\ run.phase = "cleaned" /\ t \in Occasions /\ ~Violated /\ Free({t})
        /\ alive' = alive \ {t}
        /\ member' = member \ run.cleaned
        /\ history' = history \cup Retained(t)
        /\ deployment' = [d \in Occasions \X Sites |->
                             IF d[1] = t THEN NoDeployment ELSE deployment[d]]
        /\ feed' = [s \in Sites |-> IF s \in run.sites
                                    THEN Append(feed[s], [kind |-> "event", event |-> t]) ELSE feed[s]]
        /\ excused' = excused \cup {m \in run.cleaned : m[1] \notin run.members}
                        \cup (IF run.removed # run.sites THEN Individuals \X {t} ELSE {})
        /\ Complete

\* The people are deleted, then every Site with a deployment of an affected event is read
\* and its sequence taken.
_publish_people_deletion ==
    /\ run.phase = "cleaned" /\ run.target \notin Occasions /\ ~Violated
    /\ run' = [run EXCEPT !.phase = "told", !.sites = SitesOf(run.affected)]
    /\ UNCHANGED <<operation, deployment, feed, excused>>
    /\ ProgramUnchanged /\ WorkerUnchanged

\* The tombstone of every Site that was read.
Tombstones(ids) ==
    [s \in Sites |-> IF s \in run.sites
                     THEN Append(feed[s], [kind |-> "people", people |-> ids]) ELSE feed[s]]

\* The exceptions: who joined an event behind the first read, and an event that went to a
\* Site behind the second.
_delete_person(ids) ==
    /\ alive' = alive \ ids
    /\ member' = member \ run.cleaned
    /\ history' = {x \in history : x[1] \notin ids}
    /\ excused' = excused \cup {m \in run.cleaned : m[2] \notin run.affected \/ m[2] \in run.late}

run_deletion ==
    LET ids == operation[run.target].ids
    IN  /\ run.phase = "told" /\ run.target \in Individuals
        /\ _delete_person(ids)
        /\ feed' = Tombstones(ids)
        /\ UNCHANGED deployment
        /\ Complete

\* After the tombstones every deployment of an affected event is pushed again, without the people
\* who are gone.
run_bulk_people_deletion ==
    LET ids == operation[run.target].ids
        Left(e) == PeopleOf(e) \ ids
        pushed(s) == SetToSeq({e \in run.affected : Has(e, s)})
        rev(e, s) == deployment[<<e, s>>].revision + 1
    IN  /\ run.phase = "told" /\ run.target \in Sweeps /\ Free(run.affected)
        /\ _delete_person(ids)
        /\ feed' = [s \in Sites |-> Tombstones(ids)[s] \o
                       [i \in DOMAIN pushed(s) |->
                           Snapshot(pushed(s)[i], Left(pushed(s)[i]), rev(pushed(s)[i], s))]]
        /\ deployment' = [d \in Occasions \X Sites |->
                             IF d[1] \in run.affected /\ Has(d[1], d[2])
                             THEN [status |-> "live", revision |-> rev(d[1], d[2]),
                                   people |-> Left(d[1])]
                             ELSE deployment[d]]
        /\ Complete

-----------------------------------------------------------------------------

DeployNext ==
    \/ \E p \in Individuals : AddPerson(p)
    \/ \E p \in Individuals, e \in Occasions : AddParticipation(p, e)
    \/ \E e \in Occasions, s \in Sites : BeginPush(e, s) \/ ResendSnapshot(e, s)
    \/ FinishPush \/ AbortPush

SiteApplies ==
    \E s \in Sites : \/ ApplySnapshot(s) \/ RejectSnapshot(s)
                     \/ apply_people_deletion(s) \/ apply_event_deletion(s)

RequestNext(targets) ==
    \/ \E t \in targets \ Sweeps : request_deletion(t)
    \/ \E t \in targets \cap Sweeps : request_bulk_people_deletion(t)
    \/ \E t \in targets : retry_deletion(t)

WorkerNext ==
    \/ \E t \in Targets : ClaimDeletion(t)
    \/ CleanUp \/ _publish_people_deletion \/ IntegrityError \/ TransientError
    \/ _delete_event \/ run_deletion \/ run_bulk_people_deletion

LifecycleNext(targets) == DeployNext \/ SiteApplies \/ RequestNext(targets) \/ WorkerNext

LifecycleSpec == LifecycleInit /\ [][LifecycleNext(Targets)]_lifecycleVars /\ WF_lifecycleVars(WorkerNext)

-----------------------------------------------------------------------------

\* No row is left that refers to an event or person that is gone, and a completed operation means
\* that its targets are gone for good.
DeletionComplete ==
    /\ \A m \in member \cup history : m[1] \in alive
    /\ \A m \in member : m[2] \in alive
    /\ \A e \in Occasions, s \in Sites : Has(e, s) => e \in alive
    /\ \A t \in Targets : operation[t].status = "completed" =>
           alive \cap (operation[t].ids \cup {t}) = {}

\* A Site that has applied all of its feed knows no person and no event that Central has deleted,
\* except what a stored snapshot brought back or a request brought in beside the deletion: a
\* participation added, or an event first sent to the Site, between its reads and its commit.
DeletedLeaveSites ==
    \A s \in Sites : feed[s] = <<>> =>
        \A m \in projected[s] \ excused : {m[1], m[2]} \subseteq alive

\* The deletion of an event leaves a history with everybody who took part in it, except those who
\* joined while it ran.
HistoryKept ==
    [][\A m \in member \ member' : m[1] \in alive' => m \in history' \cup excused']_lifecycleVars

\* Every deletion that is asked for is carried out or reported as failed.
DeletionsSettle ==
    []<>(\A t \in Targets : operation[t] = NoOperation \/ operation[t].status \in {"completed", "failed"})

\* An operation is about its target, or about the people its sweep was asked for, and one
\* that is not finished has attempts left.
OperationsStand ==
    \A t \in Targets : operation[t] # NoOperation =>
        /\ t \notin Sweeps => operation[t].ids = {t} \cap Individuals
        /\ Unfinished(t) => operation[t].attempts < MaxAttempts

\* Between its statements a transaction keeps what it has seen: the people of the event that
\* is being deleted are there, and so is the event that is being pushed.
TransactionsHold ==
    /\ run.members \subseteq alive
    /\ push # NoPush => /\ push.event \in alive
                        /\ deployment[<<push.event, push.site>>].revision < MaxPushes

\* From the deletion of the people on nothing refers to them, and every Site that has an
\* affected event is told or got the event late.
SitesTold ==
    run.phase = "told" =>
        /\ run.target \notin Occasions /\ ~Violated
        /\ \A e \in run.affected, s \in Sites : Has(e, s) => s \in run.sites \/ e \in run.late

\* Beside the pushes of the operator only completed sweeps make revisions, one each.
Swept == {t \in Sweeps : operation[t].status = "completed"}
RevisionsCounted ==
    \A e \in Occasions, s \in Sites :
        /\ deployment[<<e, s>>].revision <= MaxPushes + Cardinality(Swept)
        /\ Has(e, s) => deployment[<<e, s>>].revision # 0

Carries(x, m) == x.kind = "snapshot" /\ x.event = m[2] /\ m[1] \in x.people
Removes(x, m) == \/ x.kind = "people" /\ m[1] \in x.people
                 \/ x.kind = "event" /\ x.event = m[2]

Reaches(s, m) == m \in projected[s] \/ \E i \in 1..Len(feed[s]) : Carries(feed[s][i], m)
Stored(s, m) == m[1] \in deployment[<<m[2], s>>].people
Dead(p) == p \notin alive /\ (operation[p] # NoOperation \/ \E t \in Sweeps : p \in operation[t].ids)

\* What a Site has or is sent of an event comes from a deployment, and whoever is in a
\* snapshot takes part as long as person and event are there: nobody who was deleted comes
\* back under the same id (EventParticipation is deleted with its person or event only).
SnapshotsTrue ==
    \A m \in Participations :
        /\ \A s \in Sites : Reaches(s, m) => Has(m[2], s) \/ m[2] \notin alive
        /\ \/ \E s \in Sites : Reaches(s, m) \/ Stored(s, m)
           \/ push.event = m[2] /\ m[1] \in push.people
           => m \in member \/ m[2] \notin alive \/ Dead(m[1])

Follows(s, m, i) == \E j \in 1..Len(feed[s]) : i < j /\ Removes(feed[s][j], m)

\* Behind whatever brings a deleted person or event to a Site comes its tombstone.
TombstonesFollow ==
    \A s \in Sites, m \in Participations \ excused : {m[1], m[2]} \subseteq alive \/
        /\ m \in projected[s] => Follows(s, m, 0)
        /\ \A i \in 1..Len(feed[s]) : Carries(feed[s][i], m) => Follows(s, m, i)

\* What the steps keep true between them, and why the above hold.
LifecycleCoherent ==
    /\ OperationsStand
    /\ TransactionsHold
    /\ SitesTold
    /\ RevisionsCounted
    /\ SnapshotsTrue
    /\ TombstonesFollow

\* Deletions: one that is reported complete has removed everything, and what is deleted
\* at Central leaves the Sites but for what a stored snapshot or an overlapping request
\* brings back (run_deletion, _publish_people_deletion, apply_people_deletion).
LifecycleSafe == LifecycleTypeOK /\ LifecycleCoherent /\ DeletionComplete /\ DeletedLeaveSites

\* The deletion of an event keeps the history of its people, and every deletion is
\* carried out or reported as failed (_delete_event, run_deletion, the worker's failure
\* path).
DeletionsKeepAndEnd == HistoryKept /\ DeletionsSettle
================================================================================
