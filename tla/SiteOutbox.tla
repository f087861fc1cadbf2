----------------------------- MODULE SiteOutbox -----------------------------
(***************************************************************************)
(* Delivery of Site-authoritative events to Central.                       *)
(*                                                                         *)
(* Site side: the transactional outbox (upm_site/persistence/queue.py) and *)
(* the sync workers that lease batches of it, POST them to Central and     *)
(* settle the leased rows (upm_site/sync_transport.py).                    *)
(* Central side: the request handler receive_site_events (api.py) and      *)
(* apply_site_event (sync.py), run by concurrent threads, each in one READ *)
(* COMMITTED transaction: the statements of two handlers interleave.       *)
(*                                                                         *)
(* An event is its source_sequence; next_sequence makes the two one-to-one *)
(* and rows are created, hence claimed, in sequence order.  Payloads are   *)
(* abstracted to one bit: Rejected is the set of events whose content      *)
(* apply_site_event refuses.                                               *)
(***************************************************************************)
EXTENDS Integers, FiniteSets

CONSTANTS
    Workers,        \* site-sync processes
    NoWorker,       \* claimed_by is NULL or the id of a process that is gone
    Slots,          \* requests that may be in flight or in a handler at once
    MaxEvents,      \* bound: events ever enqueued
    MaxAttempts,    \* OutboxEvent.max_attempts
    BatchCount,     \* settings.sync_batch_count
    MaxTokens,      \* bound: credentials Central ever issues to the Site
    MaxFaults,      \* bound: lost requests, timeouts, crashes, overrun leases
    Rejected        \* events whose content Central refuses

ASSUME ConstantsAssumption ==
    /\ NoWorker \notin Workers
    /\ MaxEvents \in Nat
    /\ MaxAttempts \in Nat \ {0}
    /\ BatchCount \in Nat \ {0}
    /\ MaxTokens \in Nat \ {0}
    /\ MaxFaults \in Nat
    /\ Rejected \subseteq 1..MaxEvents

VARIABLES
    next,           \* SyncSequence.next_value: rows 1..next-1 exist
    status,         \* OutboxEvent.status, "NONE" before the row exists
    owner,          \* OutboxEvent.claimed_by_worker_id
    attempts,       \* OutboxEvent.attempt_count, capped at MaxAttempts
    due,            \* available_at <= now
    expired,        \* lease_expires_at < now
    held,           \* per worker: the events of the batch it has posted
    registration,   \* CentralRegistration.state
    token,          \* the credential stored by the Site
    req,            \* per slot: a request and the handler transaction serving it
    receipts,       \* Central SyncReceipt rows of this Site
    cursor,         \* Central SyncCursor "site_to_central"
    unkept,         \* events answered for by a handler whose commit then failed
    credential,     \* the unrevoked SiteCredential at Central, 0 if none
    issued,         \* how many credentials Central has issued
    faults          \* faults so far

siteVars == <<next, status, owner, attempts, due, expired, held>>
enrollVars == <<registration, token, credential, issued>>
centralVars == <<receipts, cursor, unkept>>
vars == <<siteVars, enrollVars, centralVars, req, faults>>

Events == 1..MaxEvents
Statuses == {"NONE", "PENDING", "RUNNING", "RETRY_WAIT",
             "SUCCEEDED", "FAILED", "EXHAUSTED"}

(***************************************************************************)
(* A slot: client is the worker still waiting for the answer; todo the     *)
(* events of batch not yet looked at; seen says that the receipt lookup of *)
(* the first of them came back empty; base is the cursor the transaction   *)
(* read and last what it holds in the session, so that (base+1)..last are  *)
(* the receipts it is about to insert.                                     *)
(***************************************************************************)
Request ==
    [phase : {"free", "received", "applying", "done"},
     reply : {"none", "ok", "http_401", "http_500"},
     client : Workers \cup {NoWorker},
     token : 0..MaxTokens,
     batch : SUBSET Events, todo : SUBSET Events,
     seen : BOOLEAN, loaded : BOOLEAN,
     base : 0..MaxEvents, last : 0..MaxEvents,
     accepted : SUBSET Events, gaps : SUBSET Events]

FreeSlot ==
    [phase |-> "free", reply |-> "none", client |-> NoWorker, token |-> 0,
     batch |-> {}, todo |-> {}, seen |-> FALSE, loaded |-> FALSE,
     base |-> 0, last |-> 0, accepted |-> {}, gaps |-> {}]

Init ==
    /\ next = 1
    /\ status = [e \in Events |-> "NONE"]
    /\ owner = [e \in Events |-> NoWorker]
    /\ attempts = [e \in Events |-> 0]
    /\ due = [e \in Events |-> FALSE]
    /\ expired = [e \in Events |-> FALSE]
    /\ held = [w \in Workers |-> {}]
    /\ registration = "ACTIVE"
    /\ token = 1
    /\ req = [s \in Slots |-> FreeSlot]
    /\ receipts = {}
    /\ cursor = 0
    /\ unkept = {}
    /\ credential = 1
    /\ issued = 1
    /\ faults = 0

Fault ==
    /\ faults < MaxFaults
    /\ faults' = faults + 1

-----------------------------------------------------------------------------
(* The Site outbox *)

\* next_sequence and enqueue_outbox, in the transaction of whatever Site
\* operation reports something: heartbeat, deployment status, media progress.
enqueue_outbox ==
    /\ next <= MaxEvents
    /\ next' = next + 1
    /\ status' = [status EXCEPT ![next] = "PENDING"]
    /\ due' = [due EXCEPT ![next] = TRUE]
    /\ UNCHANGED <<owner, attempts, expired, held, enrollVars, centralVars, req, faults>>

\* Mutant: an expired lease does not make a row claimable.
Claimable_no_lease ==
    {e \in Events : status[e] \in {"PENDING", "RETRY_WAIT"} /\ due[e]}

Claimable ==
    {e \in Events : \/ status[e] \in {"PENDING", "RETRY_WAIT"} /\ due[e]
                    \/ status[e] = "RUNNING" /\ expired[e]}

\* A row left out of batch B although the claim loop had room for it.
PassedOver(B) ==
    {e \in Claimable \ B : \/ Cardinality(B) < BatchCount
                           \/ \E b \in B : e < b}

\* The claim loop of deliver_site_events takes rows in order of creation.  SKIP
\* LOCKED passes over a row only if another worker is claiming at the moment.
Batch(w, B) ==
    /\ B # {}
    /\ Cardinality(B) <= BatchCount
    /\ PassedOver(B) # {} => \E v \in Workers \ {w} : held[v] = {}

\* claim_outbox on every row of B: a new lease and one more attempt.
claim_outbox(w, B) ==
    /\ status' = [e \in Events |-> IF e \in B THEN "RUNNING" ELSE status[e]]
    /\ owner' = [e \in Events |-> IF e \in B THEN w ELSE owner[e]]
    /\ expired' = [e \in Events |-> e \notin B /\ expired[e]]
    /\ attempts' = [e \in Events |-> IF e \in B /\ attempts[e] < MaxAttempts
                                     THEN attempts[e] + 1 ELSE attempts[e]]

\* First half of deliver_site_events: auth_context and the claims in one
\* transaction, then the POST.
Deliver(w, s) ==
    /\ held[w] = {}
    /\ registration = "ACTIVE"
    /\ req[s] = FreeSlot
    /\ \E B \in SUBSET Claimable :
        /\ Batch(w, B)
        /\ claim_outbox(w, B)
        /\ held' = [held EXCEPT ![w] = B]
        /\ req' = [req EXCEPT ![s] =
                     [FreeSlot EXCEPT !.phase = "received", !.client = w,
                        !.token = token, !.batch = B, !.todo = B]]
    /\ UNCHANGED <<next, due, enrollVars, centralVars, faults>>

\* Mutant: nobody checks who holds the lease.
Owns_unchecked(w, B) == TRUE

\* _require_outbox_claim for every row of B; one mismatch raises ValueError and
\* rolls the settling transaction back.
Owns(w, B) == \A e \in B : status[e] = "RUNNING" /\ owner[e] = w

\* Mutant: a used up retry budget is a permanent failure.
FailedStatus_no_exhausted(e, retryable) ==
    IF retryable /\ attempts[e] < MaxAttempts THEN "RETRY_WAIT" ELSE "FAILED"

\* fail_outbox: where a failed attempt leaves the row.
FailedStatus(e, retryable) ==
    IF retryable
    THEN IF attempts[e] < MaxAttempts THEN "RETRY_WAIT" ELSE "EXHAUSTED"
    ELSE "FAILED"

\* Settle rows: ok is processed, retry fails retryably, fatal fails for good.
Settle(ok, retry, fatal) ==
    /\ status' = [e \in Events |-> IF e \in ok THEN "SUCCEEDED"
                                   ELSE IF e \in retry THEN FailedStatus(e, TRUE)
                                   ELSE IF e \in fatal THEN FailedStatus(e, FALSE)
                                   ELSE status[e]]
    /\ owner' = [e \in Events |-> IF e \in retry \cup fatal THEN NoWorker ELSE owner[e]]
    /\ due' = [e \in Events |-> e \notin retry /\ due[e]]
    /\ expired' = [e \in Events |-> e \notin (ok \cup retry \cup fatal) /\ expired[e]]

\* The answer reaches its worker: a request still in its handler lives on.
Detach(s) ==
    req' = [req EXCEPT ![s] = IF @.phase = "done" THEN FreeSlot
                              ELSE [@ EXCEPT !.client = NoWorker]]

\* deliver_site_events, 200: settle each event by its acknowledgement.
HandleAcks(w, s) ==
    /\ req[s].client = w
    /\ req[s].reply = "ok"
    /\ LET B == held[w]
           ok == B \cap req[s].accepted
           retry == B \cap req[s].gaps
       IN IF Owns(w, B)
          THEN Settle(ok, retry, B \ (ok \cup retry))
          ELSE UNCHANGED <<status, owner, due, expired>>
    /\ held' = [held EXCEPT ![w] = {}]
    /\ Detach(s)
    /\ UNCHANGED <<next, attempts, enrollVars, centralVars, faults>>

\* The except branch of deliver_site_events: fail what is still RUNNING; if one
\* such row is leased by another worker, ValueError undoes the transaction.
FailBatch(w, retryable) ==
    LET running == {e \in held[w] : status[e] = "RUNNING"}
    IN IF Owns(w, running)
       THEN Settle({}, IF retryable THEN running ELSE {}, IF retryable THEN {} ELSE running)
       ELSE UNCHANGED <<status, owner, due, expired>>

\* deliver_site_events, HTTP error: a 401 also marks the registration revoked.
HandleHttpError(w, s) ==
    /\ req[s].client = w
    /\ req[s].reply \in {"http_401", "http_500"}
    /\ FailBatch(w, req[s].reply = "http_500")
    /\ registration' = IF /\ req[s].reply = "http_401"
                          /\ Owns(w, {e \in held[w] : status[e] = "RUNNING"})
                       THEN "REVOKED" ELSE registration
    /\ held' = [held EXCEPT ![w] = {}]
    /\ Detach(s)
    /\ UNCHANGED <<next, attempts, token, credential, issued, centralVars, faults>>

\* httpx.TransportError because the request is gone.
ConnectionError(w) ==
    /\ held[w] # {}
    /\ \A s \in Slots : req[s].client # w
    /\ FailBatch(w, TRUE)
    /\ held' = [held EXCEPT ![w] = {}]
    /\ UNCHANGED <<next, attempts, enrollVars, centralVars, req, faults>>

\* httpx.TransportError because the answer is late or lost: Central goes on.
Timeout(w, s) ==
    /\ Fault
    /\ req[s].client = w
    /\ FailBatch(w, TRUE)
    /\ held' = [held EXCEPT ![w] = {}]
    /\ Detach(s)
    /\ UNCHANGED <<next, attempts, enrollVars, centralVars>>

\* The process dies and comes back under a new worker_id.
WorkerCrash(w) ==
    /\ Fault
    /\ held[w] # {}
    /\ owner' = [e \in Events |-> IF status[e] = "RUNNING" /\ owner[e] = w
                                  THEN NoWorker ELSE owner[e]]
    /\ held' = [held EXCEPT ![w] = {}]
    /\ req' = [s \in Slots |-> IF req[s].client # w THEN req[s]
                               ELSE IF req[s].phase = "done" THEN FreeSlot
                               ELSE [req[s] EXCEPT !.client = NoWorker]]
    /\ UNCHANGED <<next, status, attempts, due, expired, enrollVars, centralVars>>

\* Is the row leased by a worker that is still working on it?
Working(e) == \E w \in Workers : owner[e] = w /\ e \in held[w]

\* worker_lease_seconds pass; for a worker still waiting this is an overrun.
LeaseExpires(e) ==
    /\ status[e] = "RUNNING"
    /\ ~expired[e]
    /\ expired' = [expired EXCEPT ![e] = TRUE]
    /\ IF Working(e) THEN Fault ELSE UNCHANGED faults
    /\ UNCHANGED <<next, status, owner, attempts, due, held, enrollVars, centralVars, req>>

\* retry_delay passes.
BackoffElapses(e) ==
    /\ status[e] = "RETRY_WAIT"
    /\ ~due[e]
    /\ due' = [due EXCEPT ![e] = TRUE]
    /\ UNCHANGED <<next, status, owner, attempts, expired, held, enrollVars, centralVars, req, faults>>

\* POST /api/v1/sync/retry-failed: attempt_count is not reset.
retry_failed_sync ==
    LET failed == {e \in Events : status[e] \in {"FAILED", "EXHAUSTED"}}
    IN /\ failed # {}
       /\ status' = [e \in Events |-> IF e \in failed THEN "RETRY_WAIT" ELSE status[e]]
       /\ due' = [e \in Events |-> e \in failed \/ due[e]]
       /\ owner' = [e \in Events |-> IF e \in failed THEN NoWorker ELSE owner[e]]
       /\ UNCHANGED <<next, attempts, expired, held, enrollVars, centralVars, req, faults>>

-----------------------------------------------------------------------------
(* Central: receive_site_events *)

\* The handler is over; nobody may be waiting for its answer any more.
Finish(s, reply) ==
    req' = [req EXCEPT ![s] = IF @.client = NoWorker THEN FreeSlot
                              ELSE [@ EXCEPT !.phase = "done", !.reply = reply]]

\* authenticate_site.
authenticate_site(s) ==
    /\ req[s].phase = "received"
    /\ IF credential # 0 /\ req[s].token = credential
       THEN req' = [req EXCEPT ![s].phase = "applying"]
       ELSE Finish(s, "http_401")
    /\ UNCHANGED <<siteVars, enrollVars, centralVars, faults>>

\* The event apply_site_event is looking at: batches are in sequence order.
Current(r) == {e \in r.todo : \A f \in r.todo : e <= f}

\* Mutant: an event beyond a gap is acknowledged as accepted.
Decide_gap_accepted(r, e, last) ==
    [r EXCEPT !.todo = @ \ {e}, !.seen = FALSE,
              !.accepted = IF e \notin Rejected THEN @ \cup {e} ELSE @,
              !.last = IF e = last + 1 /\ e \notin Rejected THEN e ELSE last]

\* apply_site_event once receipt and cursor are known; last is the session's
\* cursor.  A refused event leaves neither a receipt nor a new cursor.
Decide(r, e, last) ==
    [r EXCEPT !.todo = @ \ {e}, !.seen = FALSE,
              !.accepted = IF e = last + 1 /\ e \notin Rejected THEN @ \cup {e} ELSE @,
              !.last = IF e = last + 1 /\ e \notin Rejected THEN e ELSE last,
              !.gaps = IF e # last + 1 THEN @ \cup {e} ELSE @]

\* Mutant: off by one.
Inserted_off_by_one(r) == r.base..r.last

\* The receipts the transaction has inserted and not committed.
Inserted(r) == (r.base + 1)..r.last

\* Mutant: nothing is sent to the database before the commit.
Flushed_never(r) == {}

\* The inserts of an open transaction that autoflush has sent to the database: it
\* precedes every SELECT, so all of them but one for the event examined last.
Flushed(r) == {x \in Inserted(r) : r.phase = "applying" /\ \E y \in r.batch \ r.todo : x < y}

\* An insert waits for the end of a transaction that holds the same unique key.
Blocked(s) ==
    \E t \in Slots \ {s} : (Inserted(req[s]) \ Flushed(req[s])) \cap Flushed(req[t]) # {}

\* Does an insert violate UNIQUE(site_id, event_id) of a committed receipt?
UniqueViolation(r) == Inserted(r) \cap receipts # {}

\* The SELECT on SyncReceipt, which flushes the pending insert first and then sees
\* the committed rows and the transaction's own.
CheckReceipt(s) ==
    LET r == req[s]
    IN /\ r.phase = "applying"
       /\ r.todo # {}
       /\ ~r.seen
       /\ ~Blocked(s)
       /\ IF UniqueViolation(r) THEN Finish(s, "http_500")
          ELSE \E e \in Current(r) :
                 req' = [req EXCEPT ![s] =
                    IF e \in receipts \cup Inserted(r)
                    THEN [r EXCEPT !.todo = @ \ {e}, !.accepted = @ \cup {e}]
                    ELSE IF r.loaded THEN Decide(r, e, r.last)
                    ELSE [r EXCEPT !.seen = TRUE]]
       /\ UNCHANGED <<siteVars, enrollVars, centralVars, faults>>

\* The first session.get(SyncCursor) of the transaction; later ones are answered
\* by the session's identity map.
ReadCursor(s) ==
    LET r == req[s]
    IN /\ r.phase = "applying"
       /\ r.seen
       /\ \E e \in Current(r) :
             req' = [req EXCEPT ![s] =
                       Decide([r EXCEPT !.loaded = TRUE, !.base = cursor], e, cursor)]
       /\ UNCHANGED <<siteVars, enrollVars, centralVars, faults>>

\* The response leaves before db() resumes after its yield (FastAPI 0.118 and later).
Respond(s) ==
    /\ req[s].phase = "applying"
    /\ req[s].todo = {}
    /\ req[s].reply = "none"
    /\ req' = [req EXCEPT ![s].reply = "ok"]
    /\ UNCHANGED <<siteVars, enrollVars, centralVars, faults>>

\* Mutant: the cursor row is written back even when nothing was applied.
Commit_stale_cursor(s) ==
    LET r == req[s]
    IN /\ r.phase = "applying"
       /\ r.reply = "ok"
       /\ ~Blocked(s)
       /\ ~UniqueViolation(r)
       /\ receipts' = receipts \cup Inserted(r)
       /\ cursor' = r.last
       /\ Finish(s, "ok")
       /\ UNCHANGED <<siteVars, enrollVars, unkept, faults>>

\* db() leaves the transaction: receipts and cursor become visible together, or
\* the unique constraint undoes it, which nobody is told any more.
Commit(s) ==
    LET r == req[s]
    IN /\ r.phase = "applying"
       /\ r.reply = "ok"
       /\ ~Blocked(s)
       /\ IF UniqueViolation(r) THEN UNCHANGED <<receipts, cursor>>
          ELSE /\ receipts' = receipts \cup Inserted(r)
               /\ cursor' = IF Inserted(r) # {} THEN r.last ELSE cursor
       /\ Finish(s, "ok")
       /\ UNCHANGED <<siteVars, enrollVars, unkept, faults>>

\* The commit fails, or the process dies, behind the response.
CommitFails(s) ==
    /\ Fault
    /\ req[s].phase = "applying"
    /\ req[s].reply = "ok"
    /\ unkept' = unkept \cup Inserted(req[s])
    /\ Finish(s, "ok")
    /\ UNCHANGED <<siteVars, enrollVars, receipts, cursor>>

\* The request or its handler is lost before the response.
Drop(s) ==
    /\ Fault
    /\ req[s].phase \in {"received", "applying"}
    /\ req[s].reply = "none"
    /\ req' = [req EXCEPT ![s] = FreeSlot]
    /\ UNCHANGED <<siteVars, enrollVars, centralVars>>

-----------------------------------------------------------------------------
(* Registration, as far as delivery sees it. *)

\* change_state(REVOKED) revokes every credential of the Site.
Revoke ==
    /\ issued < MaxTokens
    /\ credential # 0
    /\ credential' = 0
    /\ UNCHANGED <<siteVars, registration, token, issued, centralVars, req, faults>>

\* A completed re-enrollment: a new credential on both sides.
Reenroll ==
    /\ credential = 0
    /\ issued < MaxTokens
    /\ issued' = issued + 1
    /\ credential' = issued + 1
    /\ token' = issued + 1
    /\ registration' = "ACTIVE"
    /\ UNCHANGED <<siteVars, centralVars, req, faults>>

-----------------------------------------------------------------------------
SiteStep(w) ==
    \/ \E s \in Slots : \/ Deliver(w, s)
                        \/ HandleAcks(w, s)
                        \/ HandleHttpError(w, s)
                        \/ Timeout(w, s)
    \/ ConnectionError(w)
    \/ WorkerCrash(w)

HandlerStep(s) ==
    \/ authenticate_site(s)
    \/ CheckReceipt(s)
    \/ ReadCursor(s)
    \/ Respond(s)
    \/ Commit(s)

Next ==
    \/ enqueue_outbox
    \/ \E w \in Workers : SiteStep(w)
    \/ \E s \in Slots : HandlerStep(s) \/ CommitFails(s) \/ Drop(s)
    \/ \E e \in Events : LeaseExpires(e) \/ BackoffElapses(e)
    \/ retry_failed_sync
    \/ Revoke
    \/ Reenroll

Spec == Init /\ [][Next]_vars

(***************************************************************************)
(* Fairness: the sync loop runs forever (worker.py), Central's threads run *)
(* their statements, and time passes.                                      *)
(***************************************************************************)
Fairness ==
    /\ \A w \in Workers :
        /\ WF_vars(\E s \in Slots : Deliver(w, s))
        /\ WF_vars(\E s \in Slots : HandleAcks(w, s) \/ HandleHttpError(w, s))
        /\ WF_vars(ConnectionError(w))
    /\ \A s \in Slots : WF_vars(HandlerStep(s))
    /\ \A e \in Events :
        /\ WF_vars(LeaseExpires(e) /\ ~Working(e))
        /\ WF_vars(BackoffElapses(e))

FairSpec == Spec /\ Fairness

\* An operator who watches failed_sync and calls retry-failed.
OperatedSpec == FairSpec /\ WF_vars(retry_failed_sync)
-----------------------------------------------------------------------------
(* Properties *)

\* Every variable has the type its comment gives it.
TypeOK ==
    /\ next \in 1..(MaxEvents + 1)
    /\ status \in [Events -> Statuses]
    /\ owner \in [Events -> Workers \cup {NoWorker}]
    /\ attempts \in [Events -> 0..MaxAttempts]
    /\ due \in [Events -> BOOLEAN]
    /\ expired \in [Events -> BOOLEAN]
    /\ held \in [Workers -> SUBSET Events]
    /\ registration \in {"ACTIVE", "REVOKED"}
    /\ token \in 0..MaxTokens
    /\ req \in [Slots -> Request]
    /\ receipts \in SUBSET Events
    /\ cursor \in 0..MaxEvents
    /\ unkept \in SUBSET Events
    /\ credential \in 0..MaxTokens
    /\ issued \in 1..MaxTokens
    /\ faults \in 0..MaxFaults

\* Central's cursor and its receipts never disagree, however the transactions of
\* concurrent receive_site_events handlers interleave: the receipts are exactly
\* the sequences up to the cursor (apply_site_event writes both).
ReceiptsMatchCursor == receipts = 1..cursor

\* ADR-0006: an acknowledgement is sent "only after receiver commit", so that the
\* Site completes an outbox row only if Central durably holds its receipt.
AckedIsReceived == \A e \in Events : status[e] = "SUCCEEDED" => e \in receipts

\* A completed row is never reopened by a late answer, an overrun lease, a stale
\* worker's failure report or retry-failed.
SucceededIsFinal ==
    [][\A e \in Events : status[e] = "SUCCEEDED" => status'[e] = "SUCCEEDED"]_status

\* Races, losses and crashes alone never fail a row permanently: FAILED is left
\* to refused content and to a revoked credential.
OnlyRefusalFails ==
    (issued = 1 /\ credential = 1)
        => \A e \in Events : status[e] = "FAILED" => e \in Rejected

\* Outbox rows exist exactly below next_value, so nothing is claimed, applied or
\* counted by the cursor before it is enqueued.
RowsExist ==
    /\ cursor < next
    /\ \A e \in Events : e >= next => status[e] = "NONE"

\* What a handler's transaction knows is never ahead of what is committed: it has
\* read a cursor that is at most the current one, inserts a run of receipts that
\* starts right after it, and has accepted only what is received or inserted.
HandlerCoherent(r) ==
    /\ r.base <= r.last
    /\ r.base <= cursor
    /\ r.last < next
    /\ r.todo \subseteq 1..(next - 1)
    /\ ~r.loaded => r.last = 0
    /\ r.seen => ~r.loaded
    /\ r.accepted \subseteq receipts \cup Inserted(r)

\* The receipts that handlers have answered for and not committed yet.
Promised(r) == IF r.phase = "applying" /\ r.reply = "ok" THEN Inserted(r) ELSE {}
Awaited == UNION {Promised(req[s]) : s \in Slots}

\* What Central has answered for: received, about to be committed, or not kept.
Answered == receipts \cup Awaited \cup unkept

\* Between its answer and its commit nothing but a fault makes Central lose an event
\* that the Site has completed: not another handler with the same events, not the
\* unique constraint that undoes the slower of the two (receive_site_events, db).
OnlyFaultsLose == \A e \in Events : status[e] = "SUCCEEDED" => e \in Answered

\* Only a finished or answering handler has an answer, and a 200 names only events
\* that Central has answered for.
AnswerHonest(r) ==
    /\ r.reply = "ok" => /\ r.phase \in {"applying", "done"} /\ r.todo = {}
                         /\ r.accepted \subseteq Answered
    /\ r.phase \in {"free", "received"} => r.reply = "none"

\* Events are looked at in order, and the inserts are of events looked at.
OrderCoherent(r) ==
    /\ r.todo \subseteq r.batch
    /\ \A y \in r.batch \ r.todo, z \in r.todo : y < z
    /\ r.base < r.last => r.last \in r.batch \ r.todo
    /\ r.phase \in {"free", "received"} => r.last = 0

\* The flushed inserts of a transaction are neither committed nor flushed by others.
FlushCoherent(s) ==
    /\ Flushed(req[s]) \cap receipts = {}
    /\ \A t \in Slots \ {s} : Flushed(req[s]) \cap Flushed(req[t]) = {}

\* The inductive invariant behind ReceiptsMatchCursor and OnlyFaultsLose: what
\* every handler of receive_site_events may rely on between two statements.
Coherent ==
    /\ RowsExist
    /\ ReceiptsMatchCursor
    /\ \A s \in Slots : HandlerCoherent(req[s]) /\ OrderCoherent(req[s])
    /\ \A s \in Slots : FlushCoherent(s) /\ AnswerHonest(req[s])

\* The direction implements ordered exactly-once application, and the Site retires
\* only what Central has answered for.
Ordered == INSTANCE OrderedDelivery WITH
    sent <- next - 1,
    applied <- cursor,
    answered <- Answered,
    retired <- {e \in Events : status[e] = "SUCCEEDED"}

ImplementsOrderedDelivery == Ordered!Spec

\* A completed event that Central neither has nor is about to commit.
Lost(e) == status[e] = "SUCCEEDED" /\ e \notin receipts \cup Awaited

\* Once faults stop, every event before the first refused one is acknowledged by
\* Central (deliver_site_events, retry_failed_sync): only a lost event, for which
\* see OnlyFaultsLose, can stand in the way of the ones behind it.
EventuallyAcked ==
    \A e \in Events : (\A f \in Rejected : e < f) =>
        ((status[e] # "NONE") ~> (status[e] = "SUCCEEDED" \/ \E f \in Events : Lost(f)))
=============================================================================
