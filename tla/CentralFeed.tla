----------------------------- MODULE CentralFeed -----------------------------
(***************************************************************************)
(* Delivery of Central-authoritative events to one Site.  Central keeps    *)
(* the events of a Site in its outbox; a Site sync worker polls a batch    *)
(* (outbound_events), applies all of it in one Site transaction            *)
(* (apply_central_event) and acknowledges it (acknowledge_central_events). *)
(* An event is its source_sequence in the Site's feed.  Contents are       *)
(* abstracted to Refused, the events apply_central_event does not accept.  *)
(*                                                                         *)
(* Workers poll concurrently, a worker may die between any two steps, and  *)
(* an acknowledgement may be lost or handled after its sender gave up.     *)
(***************************************************************************)
EXTENDS Integers, FiniteSets

CONSTANTS
    Workers,        \* site-sync processes
    NoWorker,       \* nobody waits for the acknowledgement any more
    MaxEvents,      \* bound: events ever enqueued for the Site
    BatchCount,     \* Central's settings.sync_batch_count
    MaxFaults,      \* bound: crashes, lost answers, timeouts
    Refused         \* events the Site does not accept

ASSUME ConstantsAssumption ==
    /\ NoWorker \notin Workers
    /\ MaxEvents \in Nat
    /\ BatchCount \in Nat \ {0}
    /\ MaxFaults \in Nat
    /\ Refused \subseteq 1..MaxEvents

VARIABLES
    next,           \* Central SyncSequence.next_value of the Site
    retired,        \* Central outbox rows of the Site with status SUCCEEDED
    centralCursor,  \* Central SyncCursor "central_to_site"
    receipts,       \* Site SyncReceipt rows
    cursor,         \* Site SyncCursor "central_to_site"
    pull,           \* per worker: its pass through pull_central_events
    acks,           \* acknowledgements on their way to or inside Central
    faults          \* faults so far

vars == <<next, retired, centralCursor, receipts, cursor, pull, acks, faults>>

Events == 1..MaxEvents

(***************************************************************************)
(* A pass: base is the cursor its transaction read, last the one it holds  *)
(* in the session; (base+1)..last are the receipts it has inserted.        *)
(***************************************************************************)
Pull ==
    [phase : {"idle", "polled", "applying", "applied", "acking"},
     batch : SUBSET Events, todo : SUBSET Events,
     base : 0..MaxEvents, last : 0..MaxEvents]

Idle == [phase |-> "idle", batch |-> {}, todo |-> {}, base |-> 0, last |-> 0]

\* An acknowledgement; read is the cursor its handler has loaded, -1 before that.
Ack ==
    [client : Workers \cup {NoWorker}, batch : SUBSET Events,
     checkpoint : 0..MaxEvents, read : -1..MaxEvents]

Init ==
    /\ next = 1
    /\ retired = {}
    /\ centralCursor = 0
    /\ receipts = {}
    /\ cursor = 0
    /\ pull = [w \in Workers |-> Idle]
    /\ acks = {}
    /\ faults = 0

Fault ==
    /\ faults < MaxFaults
    /\ faults' = faults + 1

-----------------------------------------------------------------------------
(* Central: enqueue and offer *)

\* next_sequence and enqueue_outbox in the transaction of a Central operation.
enqueue_outbox ==
    /\ next <= MaxEvents
    /\ next' = next + 1
    /\ UNCHANGED <<retired, centralCursor, receipts, cursor, pull, acks, faults>>

\* The rows outbound_events selects: the first BatchCount not yet SUCCEEDED.
Pending == (1..(next - 1)) \ retired
Offered == {e \in Pending : Cardinality({f \in Pending : f < e}) < BatchCount}

-----------------------------------------------------------------------------
(* Site: pull_central_events *)

\* Mutant: the answer is not limited to a batch.
Poll_unlimited(w) ==
    /\ pull[w] = Idle
    /\ Pending # {}
    /\ pull' = [pull EXCEPT ![w] =
                  [Idle EXCEPT !.phase = "polled", !.batch = Pending, !.todo = Pending]]
    /\ UNCHANGED <<next, retired, centralCursor, receipts, cursor, acks, faults>>

\* GET central-events; an empty answer ends the pass at once.
Poll(w) ==
    /\ pull[w] = Idle
    /\ Offered # {}
    /\ pull' = [pull EXCEPT ![w] =
                  [Idle EXCEPT !.phase = "polled", !.batch = Offered, !.todo = Offered]]
    /\ UNCHANGED <<next, retired, centralCursor, receipts, cursor, acks, faults>>

\* The first statement of the transaction loads the cursor row; the session
\* answers the later reads.
ReadCursor(w) ==
    /\ pull[w].phase = "polled"
    /\ pull' = [pull EXCEPT ![w].phase = "applying",
                            ![w].base = cursor, ![w].last = cursor]
    /\ UNCHANGED <<next, retired, centralCursor, receipts, cursor, acks, faults>>

\* Mutant: off by one.
Inserted_off_by_one(p) == p.base..p.last

\* Receipts inserted and not committed; autoflush has sent all of them but one
\* for the event examined last.
Inserted(p) == (p.base + 1)..p.last
Flushed(p) == {x \in Inserted(p) : \E y \in p.batch \ p.todo : x < y}

\* An insert waits for the end of a transaction that holds the same unique key.
Blocked(w) ==
    \E v \in Workers \ {w} : (Inserted(pull[w]) \ Flushed(pull[w])) \cap Flushed(pull[v]) # {}

\* Mutant: the unique constraint is missing.
UniqueViolation_missing(p) == FALSE

\* Does an insert violate the unique event_id of a committed receipt?
UniqueViolation(p) == Inserted(p) \cap receipts # {}

\* The event apply_central_event is looking at.
Current(p) == {e \in p.todo : \A f \in p.todo : e <= f}

\* apply_central_event for one event: a known receipt is a duplicate, the next
\* sequence is applied, anything else is rejected and rolls the batch back; so
\* does IntegrityError.
apply_central_event(w) ==
    LET p == pull[w]
    IN /\ p.phase = "applying"
       /\ ~Blocked(w)
       /\ \E e \in Current(p) :
            pull' = [pull EXCEPT ![w] =
              IF UniqueViolation(p) THEN Idle
              ELSE IF e \in receipts \cup Inserted(p) THEN [p EXCEPT !.todo = @ \ {e}]
              ELSE IF e = p.last + 1 /\ e \notin Refused
                   THEN [p EXCEPT !.todo = @ \ {e}, !.last = e]
              ELSE Idle]
       /\ UNCHANGED <<next, retired, centralCursor, receipts, cursor, acks, faults>>

\* Mutant: the cursor row is written back even when nothing was applied.
CommitBatch_stale_cursor(w) ==
    LET p == pull[w]
    IN /\ p.phase = "applying"
       /\ p.todo = {}
       /\ ~Blocked(w)
       /\ ~UniqueViolation(p)
       /\ pull' = [pull EXCEPT ![w].phase = "applied"]
       /\ receipts' = receipts \cup Inserted(p)
       /\ cursor' = p.last
       /\ UNCHANGED <<next, retired, centralCursor, acks, faults>>

\* The transaction commits; its session's cursor is the checkpoint to report.
CommitBatch(w) ==
    LET p == pull[w]
    IN /\ p.phase = "applying"
       /\ p.todo = {}
       /\ ~Blocked(w)
       /\ IF UniqueViolation(p)
          THEN /\ pull' = [pull EXCEPT ![w] = Idle]
               /\ UNCHANGED <<receipts, cursor>>
          ELSE /\ pull' = [pull EXCEPT ![w].phase = "applied"]
               /\ receipts' = receipts \cup Inserted(p)
               /\ cursor' = IF Inserted(p) # {} THEN p.last ELSE cursor
       /\ UNCHANGED <<next, retired, centralCursor, acks, faults>>

\* Mutant: the acknowledgement is sent inside the transaction, before its commit.
PostAck_before_commit(w) ==
    /\ pull[w].phase = "applying"
    /\ pull[w].todo = {}
    /\ pull' = [pull EXCEPT ![w].phase = "acking"]
    /\ acks' = acks \cup {[client |-> w, batch |-> pull[w].batch,
                           checkpoint |-> pull[w].last, read |-> -1]}
    /\ UNCHANGED <<next, retired, centralCursor, receipts, cursor, faults>>

\* POST central-events/ack.
PostAck(w) ==
    /\ pull[w].phase = "applied"
    /\ pull' = [pull EXCEPT ![w].phase = "acking"]
    /\ acks' = acks \cup {[client |-> w, batch |-> pull[w].batch,
                           checkpoint |-> pull[w].last, read |-> -1]}
    /\ UNCHANGED <<next, retired, centralCursor, receipts, cursor, faults>>

\* What is left of the acknowledgements when w stops waiting.
Abandon(w) == {IF m.client = w THEN [m EXCEPT !.client = NoWorker] ELSE m : m \in acks}

\* The process dies, or a request of the pass fails: the pass ends where it is.
\* Central may still handle an acknowledgement already sent.
PassFails(w) ==
    /\ Fault
    /\ pull[w] # Idle
    /\ pull' = [pull EXCEPT ![w] = Idle]
    /\ acks' = Abandon(w)
    /\ UNCHANGED <<next, retired, centralCursor, receipts, cursor>>

-----------------------------------------------------------------------------
(* Central: acknowledge_central_events *)

\* session.get(SyncCursor) of the handler.
ReadCentralCursor(m) ==
    /\ m.read = -1
    /\ acks' = (acks \ {m}) \cup {[m EXCEPT !.read = centralCursor]}
    /\ UNCHANGED <<next, retired, centralCursor, receipts, cursor, pull, faults>>

\* Ends the pass of the worker that waits for m.
Answer(m) ==
    /\ acks' = acks \ {m}
    /\ pull' = [w \in Workers |-> IF m.client = w THEN Idle ELSE pull[w]]

\* Mutant: compared with the first listed event instead of the last.
CheckpointTooHigh_first(m) == \E e \in m.batch : m.checkpoint > e

\* A checkpoint beyond the listed events is a 409 and rolls the handler back.
CheckpointTooHigh(m) == \A e \in m.batch : m.checkpoint > e

\* Mutant: only the row at the checkpoint is retired.
acknowledge_checkpoint_only(m) ==
    /\ m.read # -1
    /\ retired' = retired \cup {m.checkpoint}
    /\ centralCursor' = IF m.read < m.checkpoint THEN m.checkpoint ELSE m.read
    /\ Answer(m)
    /\ UNCHANGED <<next, receipts, cursor, faults>>

\* The handler commits: rows retired, cursor raised to the checkpoint.
acknowledge_central_events(m) ==
    /\ m.read # -1
    /\ IF CheckpointTooHigh(m)
       THEN UNCHANGED <<retired, centralCursor>>
       ELSE /\ retired' = retired \cup m.batch
            /\ centralCursor' = IF m.read < m.checkpoint THEN m.checkpoint ELSE m.read
    /\ Answer(m)
    /\ UNCHANGED <<next, receipts, cursor, faults>>

\* The acknowledgement never reaches Central, or its handler dies.
LoseAck(m) ==
    /\ Fault
    /\ Answer(m)
    /\ UNCHANGED <<next, retired, centralCursor, receipts, cursor>>

-----------------------------------------------------------------------------
WorkerStep(w) ==
    \/ Poll(w)
    \/ ReadCursor(w)
    \/ apply_central_event(w)
    \/ CommitBatch(w)
    \/ PostAck(w)

HandlerStep == \E m \in acks : ReadCentralCursor(m) \/ acknowledge_central_events(m)

Next ==
    \/ enqueue_outbox
    \/ \E w \in Workers : WorkerStep(w) \/ PassFails(w)
    \/ HandlerStep
    \/ \E m \in acks : LoseAck(m)

Spec == Init /\ [][Next]_vars

\* The sync loop never stops (worker.py) and Central serves its requests.
FairSpec == Spec /\ (\A w \in Workers : WF_vars(WorkerStep(w))) /\ WF_vars(HandlerStep)

-----------------------------------------------------------------------------
(* Properties *)

\* Every variable has the type its comment gives it.
TypeOK ==
    /\ next \in 1..(MaxEvents + 1)
    /\ retired \in SUBSET Events
    /\ centralCursor \in 0..MaxEvents
    /\ receipts \in SUBSET Events
    /\ cursor \in 0..MaxEvents
    /\ pull \in [Workers -> Pull]
    /\ acks \in SUBSET Ack
    /\ faults \in 0..MaxFaults

\* The Site's cursor and its receipts agree although passes of several workers
\* interleave their reads with each other's commits (apply_central_event).
ReceiptsMatchCursor == receipts = 1..cursor

\* Central retires an event only after the Site has durably applied it, and its
\* record of the Site's progress never runs ahead of the Site.
RetiredIsApplied ==
    /\ retired \subseteq receipts
    /\ centralCursor <= cursor

\* Late, lost and repeated acknowledgements leave no hole: what is retired is a
\* prefix of the feed, so outbound_events always offers the next event.
RetiredIsPrefix == \A e \in retired : \A f \in Events : f < e => f \in retired

\* The Site never runs more than one batch ahead of what Central has retired.
\* A fresh poll therefore reaches the Site's cursor and its acknowledgement
\* cannot fail the checkpoint test of acknowledge_central_events for ever.
PollReachesCursor ==
    Offered # {} => \E e \in Offered : cursor <= e

\* A batch reaches back to what is retired: every earlier event is in it or retired.
NoHole(B) == \A e \in B : \A f \in Events : f < e => f \in B \cup retired

\* A pass is never ahead of what is committed: it has read a cursor that is at most
\* the current one, has inserted a run right after it, and counts an event of its
\* batch as applied only if it is received or inserted.
PassCoherent(p) ==
    /\ p.base <= p.last
    /\ p.base <= cursor
    /\ p.last < next
    /\ p.todo \subseteq p.batch
    /\ p.batch \subseteq 1..(next - 1)
    /\ NoHole(p.batch)
    /\ p.phase \in {"idle", "polled"} => p.last = 0 /\ p.todo = p.batch
    /\ p.batch \ p.todo \subseteq receipts \cup Inserted(p)
    /\ p.phase \in {"applied", "acking"} =>
          p.batch \subseteq receipts /\ p.last <= cursor

\* An acknowledgement names applied events and a checkpoint the Site has reached.
AckCoherent(m) ==
    /\ m.batch \subseteq receipts
    /\ m.checkpoint <= cursor
    /\ m.read <= cursor
    /\ NoHole(m.batch)

\* The inductive invariant behind the safety properties of the feed: what passes and
\* acknowledgement handlers may rely on between two of their statements.
Coherent ==
    /\ ReceiptsMatchCursor
    /\ RetiredIsApplied
    /\ RetiredIsPrefix
    /\ cursor < next
    /\ \A w \in Workers : PassCoherent(pull[w])
    /\ \A m \in acks : AckCoherent(m)

\* The feed implements ordered exactly-once application with safe retirement; the Site
\* answers for what it has applied, no more.
Ordered == INSTANCE OrderedDelivery WITH
    sent <- next - 1,
    applied <- cursor,
    answered <- 1..cursor,
    retired <- retired

ImplementsOrderedDelivery == Ordered!Spec

\* Once faults stop, every enqueued event that no batch shares with a refused one is
\* applied and retired (pull_central_events rolls back whole batches).
EventuallyRetired ==
    \A e \in Events : (\A f \in Refused : e + BatchCount <= f) =>
        ((e < next) ~> (e \in retired))
=============================================================================
