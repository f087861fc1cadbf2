------------------------------ MODULE MediaPush ------------------------------
(***************************************************************************)
(* One confirmed file on its way from the Site to Central (ADR-0011): the  *)
(* Site worker's presentation_media.central_push job, Central's receiver   *)
(* row, and the storage service behind Central.                            *)
(*                                                                         *)
(* The worker makes one attempt in one transaction: create, which answers  *)
(* with the confirmed offset, a content call per block, finalize.  Central *)
(* handles a call in one transaction that holds the receiver row's lock    *)
(* while it waits for storage, answers, and commits after the answer has   *)
(* left.  What storage has written stays when that transaction is lost.    *)
(* Storage looks at the size of the staged file once and then waits for    *)
(* the stream before each write.                                           *)
(*                                                                         *)
(* Central's endpoints are coroutines of one process that read the row     *)
(* with a blocking FOR UPDATE: a call that arrives while an abandoned one  *)
(* still waits for storage stops the event loop, and with it the call that *)
(* holds the lock.                                                         *)
(***************************************************************************)
EXTENDS Naturals, Sequences, SequencesExt

CONSTANTS
    PushSize,         \* expected_size, in units
    PushBlock,        \* transfer_block_bytes, in units
    MaxPushAttempts,  \* TransferJob.max_attempts
    MaxPushFaults,    \* bound: failures of calls, commits and processes
    MaxPushRetries    \* bound: retries by the operator

ASSUME PushAssumption ==
    /\ PushSize \in Nat \ {0} /\ PushBlock \in Nat \ {0} /\ MaxPushAttempts \in Nat \ {0}
    /\ MaxPushFaults \in Nat /\ MaxPushRetries \in Nat

VARIABLES
    pushJob,       \* the Site's TransferJob row
    pushState,     \* MediaReplicationSession.state
    attempt,       \* the worker's transaction: phase and confirmed offset
    receiver,      \* Central's MediaReplicationReceiveSession row
    handler,       \* the call Central is handling
    frozen,        \* Central's event loop waits for a row lock
    twin,          \* an abandoned create of a new row still waits for its allocation
    partial,       \* content of the staged file
    toWrite,       \* what the running append has still to write
    lateBlocks,    \* what each abandoned append may still write
    mingled,       \* an abandoned append wrote between the check and the last write of
                   \* another one
    replica,       \* the published object, and whether it is a hard link
    authorized,    \* what Central knows: the version, the deployment, whether identifier
                   \* and size would be accepted, another original of the version
    hollow,        \* ghost: a SYNCED answer whose transaction was lost
    pushFaults, pushRetries

staging == <<partial, toWrite, lateBlocks, mingled>>

pushVars == <<pushJob, pushState, attempt, receiver, handler, frozen, twin, staging, replica,
              authorized, hollow, pushFaults, pushRetries>>

Whole == [i \in 1..PushSize |-> i]
BlockAt(offset) ==
    SubSeq(Whole, offset + 1, IF offset + PushBlock < PushSize THEN offset + PushBlock ELSE PushSize)

NoReceiver == [exists |-> FALSE, confirmed |-> 0, finalized |-> FALSE]
NoPushCall == [call |-> "none", step |-> "idle", at |-> 0, awaited |-> FALSE, row |-> NoReceiver]

Receivers == [exists: BOOLEAN, confirmed: 0..PushSize, finalized: BOOLEAN]

PushTypeOK ==
    /\ pushJob \in [status: {"PENDING", "RETRY_WAIT", "EXHAUSTED", "SUCCEEDED"}, attempts: Nat]
    /\ pushState \in {"QUEUED", "RETRY_WAIT", "FAILED", "SYNCED"}
    /\ attempt \in [phase: {"idle", "create", "content", "finalize", "waiting", "done", "failed"},
                    offset: 0..PushSize]
    /\ receiver \in Receivers
    /\ handler \in [call: {"none", "create", "content", "finalize"}, awaited: BOOLEAN,
                    step: {"idle", "storage", "writing", "answered"}, at: 0..PushSize,
                    row: Receivers]
    /\ frozen \in BOOLEAN /\ twin \in BOOLEAN /\ mingled \in BOOLEAN /\ hollow \in BOOLEAN
    /\ partial \in Seq(1..PushSize) /\ toWrite \in Seq(1..PushSize)
    /\ lateBlocks \in Seq(Seq(1..PushSize))
    /\ replica \in [units: Seq(1..PushSize), linked: BOOLEAN]
    /\ authorized \in [version: {"absent", "here", "deleted"}, deployment: BOOLEAN,
                       manifest: BOOLEAN, taken: BOOLEAN]
    /\ pushFaults \in 0..MaxPushFaults /\ pushRetries \in 0..MaxPushRetries

PushInit ==
    /\ pushJob = [status |-> "PENDING", attempts |-> 0] /\ pushState = "QUEUED"
    /\ attempt = [phase |-> "idle", offset |-> 0]
    /\ receiver = NoReceiver /\ handler = NoPushCall /\ frozen = FALSE /\ twin = FALSE
    /\ partial = <<>> /\ toWrite = <<>> /\ lateBlocks = <<>> /\ mingled = FALSE
    /\ replica = [units |-> <<>>, linked |-> FALSE]
    /\ authorized = [version |-> "absent", deployment |-> TRUE, manifest |-> TRUE, taken |-> FALSE]
    /\ hollow = FALSE /\ pushFaults = 0 /\ pushRetries = 0

PushFault == pushFaults < MaxPushFaults /\ pushFaults' = pushFaults + 1

-----------------------------------------------------------------------------
(* The worker's transaction.                                               *)

ClaimPush ==
    /\ attempt.phase = "idle"
    /\ pushJob.status \in {"PENDING", "RETRY_WAIT"}
    /\ attempt' = [attempt EXCEPT !.phase = "create"]
    /\ UNCHANGED <<pushJob, pushState, receiver, handler, frozen, twin, staging, replica,
                   authorized, hollow, pushFaults, pushRetries>>

\* Mutant: the attempt is rolled back with the rest of it.
SettlePush_uncounted(status, state) ==
    /\ pushJob' = [pushJob EXCEPT !.status = status]
    /\ pushState' = state
    /\ attempt' = [attempt EXCEPT !.phase = "idle"]
    /\ UNCHANGED <<receiver, handler, frozen, twin, staging, replica, authorized, hollow,
                   pushFaults, pushRetries>>

SettlePush(status, state) ==
    /\ pushJob' = [status |-> status, attempts |-> pushJob.attempts + 1]
    /\ pushState' = state
    /\ attempt' = [attempt EXCEPT !.phase = "idle"]
    /\ UNCHANGED <<receiver, handler, frozen, twin, staging, replica, authorized, hollow,
                   pushFaults, pushRetries>>

CompletePush == attempt.phase = "done" /\ SettlePush("SUCCEEDED", "SYNCED")

PushRetryable == pushJob.attempts + 1 < MaxPushAttempts

\* The except clause charges the attempt in the same transaction.
FailPush ==
    /\ attempt.phase = "failed"
    /\ IF PushRetryable THEN SettlePush("RETRY_WAIT", "RETRY_WAIT") ELSE SettlePush("EXHAUSTED", "FAILED")

\* The worker dies or its commit fails: nothing of the attempt stays.
CrashPush ==
    /\ attempt.phase # "idle" /\ PushFault
    /\ attempt' = [attempt EXCEPT !.phase = "idle"]
    /\ handler' = [handler EXCEPT !.awaited = FALSE]
    /\ UNCHANGED <<pushJob, pushState, receiver, frozen, twin, staging, replica, authorized,
                   hollow, pushRetries>>

\* retry_replication leaves attempt_count: one attempt, then EXHAUSTED again.
retry_replication ==
    /\ attempt.phase = "idle" /\ pushJob.status = "EXHAUSTED"
    /\ pushRetries < MaxPushRetries /\ pushRetries' = pushRetries + 1
    /\ pushJob' = [pushJob EXCEPT !.status = "RETRY_WAIT"]
    /\ pushState' = "RETRY_WAIT"
    /\ UNCHANGED <<attempt, receiver, handler, frozen, twin, staging, replica, authorized, hollow,
                   pushFaults>>

-----------------------------------------------------------------------------
(* A call reaches Central.                                                 *)

authorize_replication_context == authorized.version = "here" /\ authorized.deployment


\* The checks before storage is asked, under the lock of the receiver row.  The
\* presentation's identifier and the size are looked at when the row is made; the
\* other calls need the row.
Admitted(call, offset) ==
    /\ authorize_replication_context
    /\ call = "create" => receiver.exists \/ authorized.manifest
    /\ call # "create" => receiver.exists
    /\ call = "content" => offset = receiver.confirmed
    /\ call = "finalize" => receiver.confirmed = PushSize

CallCentral ==
    /\ attempt.phase \in {"create", "content", "finalize"}
    /\ handler = NoPushCall /\ ~frozen
    /\ IF Admitted(attempt.phase, attempt.offset)
       THEN /\ handler' = [call |-> attempt.phase, step |-> "storage", at |-> attempt.offset,
                           awaited |-> TRUE, row |-> receiver]
            /\ attempt' = [attempt EXCEPT !.phase = "waiting"]
       ELSE /\ attempt' = [attempt EXCEPT !.phase = "failed"]
            /\ UNCHANGED handler
    /\ UNCHANGED <<pushJob, pushState, receiver, frozen, twin, staging, replica, authorized,
                   hollow, pushFaults, pushRetries>>

\* The row is locked by a call that waits for storage: FOR UPDATE blocks the
\* event loop.  Whatever is called from now on times out.
CallFreezes ==
    /\ attempt.phase = "create"
    /\ frozen \/ (handler.step \in {"storage", "writing"} /\ receiver.exists)
    /\ frozen' = TRUE
    /\ attempt' = [attempt EXCEPT !.phase = "failed"]
    /\ UNCHANGED <<pushJob, pushState, receiver, handler, twin, staging, replica, authorized,
                   hollow, pushFaults, pushRetries>>

\* Another create is being handled for a row that does not exist yet: neither sees the
\* other.
CallBesideTwin ==
    /\ attempt.phase = "create" /\ ~frozen /\ ~twin
    /\ handler.call = "create" /\ handler.step = "storage" /\ ~handler.row.exists
    /\ Admitted("create", attempt.offset)
    /\ twin' = TRUE
    /\ handler' = [handler EXCEPT !.awaited = TRUE, !.row = receiver]
    /\ attempt' = [attempt EXCEPT !.phase = "waiting"]
    /\ UNCHANGED <<pushJob, pushState, receiver, frozen, staging, replica, authorized, hollow,
                   pushFaults, pushRetries>>

\* The row that create has answered with is not committed yet: nobody finds it.
CallTooEarly ==
    /\ attempt.phase \in {"content", "finalize"}
    /\ handler.step = "answered" /\ ~receiver.exists
    /\ attempt' = [attempt EXCEPT !.phase = "failed"]
    /\ UNCHANGED <<pushJob, pushState, receiver, handler, frozen, twin, staging, replica, authorized,
                   hollow, pushFaults, pushRetries>>

\* Mutant: the last confirmed block completes the push.
NextCall_done(offset) == IF offset < PushSize THEN "content" ELSE "done"

\* What the worker makes of an answer with this offset.
NextCall(offset) == IF offset < PushSize THEN "content" ELSE "finalize"

\* Mutant: the Site goes on where it believes to be.
ResumeAt_own(row) ==
    IF handler.call = "content" THEN handler.at + Len(BlockAt(handler.at)) ELSE attempt.offset

\* Central's offset overrides the Site's.
ResumeAt(row) == row.confirmed

PushAnswer(row, phase) ==
    /\ handler' = [handler EXCEPT !.step = "answered", !.row = row]
    /\ attempt' = IF handler.awaited THEN [phase |-> phase, offset |-> ResumeAt(row)] ELSE attempt

PushRefuse ==
    /\ handler' = NoPushCall
    /\ attempt' = IF handler.awaited THEN [attempt EXCEPT !.phase = "failed"] ELSE attempt

InStorage(call) == handler.call = call /\ handler.step = "storage" /\ ~frozen

\* The row that this create did not find has been committed meanwhile.
AlreadyMade == handler.call = "create" /\ ~handler.row.exists /\ receiver.exists

\* The existing row is returned as it is; a new one gets a staging allocation, and its
\* insert fails when another create has made it.
create_replication ==
    /\ InStorage("create")
    /\ IF AlreadyMade
       THEN PushRefuse
       ELSE PushAnswer([receiver EXCEPT !.exists = TRUE], NextCall(receiver.confirmed))
    /\ UNCHANGED <<pushJob, pushState, receiver, frozen, twin, staging, replica, authorized, hollow,
                   pushFaults, pushRetries>>

\* The abandoned create makes the row, if it is the first.
TwinCreates ==
    /\ twin /\ ~frozen /\ handler.step # "answered"
    /\ twin' = FALSE
    /\ receiver' = IF receiver.exists THEN receiver ELSE [receiver EXCEPT !.exists = TRUE]
    /\ UNCHANGED <<pushJob, pushState, attempt, handler, frozen, staging, replica, authorized, hollow,
                   pushFaults, pushRetries>>

\* Mutant: the offset runs ahead of the staged file.
ConfirmedBy_ahead(at) == IF at + PushBlock < PushSize THEN at + PushBlock + 1 ELSE PushSize

\* What storage says it holds.
ConfirmedBy(at) == at + Len(BlockAt(at))

\* Storage looks at the end of the staged file.
append_staging_check ==
    /\ InStorage("content")
    /\ IF Len(partial) = handler.at
       THEN /\ handler' = [handler EXCEPT !.step = "writing"]
            /\ toWrite' = BlockAt(handler.at)
            /\ UNCHANGED attempt
       ELSE PushRefuse /\ UNCHANGED toWrite
    /\ UNCHANGED <<pushJob, pushState, receiver, frozen, twin, partial, lateBlocks, mingled, replica,
                   authorized, hollow, pushFaults, pushRetries>>

\* It writes the units that have come.  After the last one it answers with the size it
\* saw and the number of units it wrote, and Central with what storage says.
replication_content ==
    /\ handler.step = "writing" /\ ~frozen
    /\ \E n \in 1..Len(toWrite) :
          /\ partial' = partial \o SubSeq(toWrite, 1, n)
          /\ toWrite' = SubSeq(toWrite, n + 1, Len(toWrite))
          /\ IF n = Len(toWrite)
             THEN PushAnswer([receiver EXCEPT !.confirmed = ConfirmedBy(handler.at)],
                             NextCall(ConfirmedBy(handler.at)))
             ELSE UNCHANGED <<handler, attempt>>
    /\ UNCHANGED <<pushJob, pushState, receiver, frozen, twin, lateBlocks, mingled, replica,
                   authorized, hollow, pushFaults, pushRetries>>

\* Mutant: the length stands for the content.
Checks_length == Len(partial) >= PushSize

\* The digest of the whole staged file decides.
Checks == partial = Whole

\* The object is published; the deployment is looked at once more; the asset is the
\* version's original, of which there is one.  The staged file is never released.
finalize_replication_endpoint ==
    /\ InStorage("finalize")
    /\ IF Checks
       THEN /\ IF replica.units = <<>>
               THEN \E linked \in BOOLEAN : replica' = [units |-> partial, linked |-> linked]
               ELSE UNCHANGED replica
            /\ IF receiver.finalized \/ (authorize_replication_context /\ ~authorized.taken)
               THEN PushAnswer([receiver EXCEPT !.finalized = TRUE], "done")
               ELSE PushRefuse
       ELSE PushRefuse /\ UNCHANGED replica
    /\ UNCHANGED <<pushJob, pushState, receiver, frozen, twin, staging, authorized, hollow,
                   pushFaults, pushRetries>>

\* Central no longer waits for storage, which may still write what it was sent.
AbandonAppend ==
    /\ toWrite' = <<>>
    /\ lateBlocks' = IF toWrite = <<>> THEN lateBlocks ELSE Append(lateBlocks, toWrite)

\* The call to storage breaks off or times out.
StorageFails ==
    /\ handler.step \in {"storage", "writing"} /\ ~frozen /\ PushFault
    /\ PushRefuse
    /\ AbandonAppend
    /\ UNCHANGED <<pushJob, pushState, receiver, frozen, twin, partial, mingled, replica, authorized,
                   hollow, pushRetries>>

\* Units of an abandoned append arrive, perhaps between the check and the writes of the
\* next one.
LateAppend ==
    /\ \E i \in DOMAIN lateBlocks : \E n \in 1..Len(lateBlocks[i]) :
          LET units == SubSeq(lateBlocks[i], 1, n) IN
          /\ partial' = partial \o units
          /\ replica' = IF replica.linked THEN [replica EXCEPT !.units = @ \o units] ELSE replica
          /\ lateBlocks' = IF n = Len(lateBlocks[i])
                           THEN RemoveAt(lateBlocks, i)
                           ELSE [lateBlocks EXCEPT ![i] = SubSeq(@, n + 1, Len(@))]
    /\ mingled' = (mingled \/ handler.step = "writing")
    /\ UNCHANGED <<pushJob, pushState, attempt, receiver, handler, frozen, twin, toWrite, authorized,
                   hollow, pushFaults, pushRetries>>

\* The answer has left; now the transaction commits.
CommitCall ==
    /\ handler.step = "answered"
    /\ receiver' = handler.row
    /\ handler' = NoPushCall
    /\ UNCHANGED <<pushJob, pushState, attempt, frozen, twin, staging, replica, authorized, hollow,
                   pushFaults, pushRetries>>

\* Or it does not, or the process ends first.
PushCommitLost ==
    /\ handler.step = "answered" /\ PushFault
    /\ handler' = NoPushCall
    /\ hollow' = (hollow \/ (handler.call = "finalize" /\ handler.awaited))
    /\ UNCHANGED <<pushJob, pushState, attempt, receiver, frozen, twin, staging, replica,
                   authorized, pushRetries>>

\* The worker's client gives up after its 30 seconds, or the answer is lost.
GiveUp ==
    /\ attempt.phase = "waiting" /\ PushFault
    /\ attempt' = [attempt EXCEPT !.phase = "failed"]
    /\ handler' = [handler EXCEPT !.awaited = FALSE]
    /\ UNCHANGED <<pushJob, pushState, receiver, frozen, twin, staging, replica, authorized,
                   hollow, pushRetries>>

\* The process ends, frozen or not, and the call in storage with it.
RestartCentral ==
    /\ handler.step \in {"storage", "writing"} /\ PushFault
    /\ PushRefuse
    /\ AbandonAppend
    /\ frozen' = FALSE /\ twin' = FALSE
    /\ UNCHANGED <<pushJob, pushState, receiver, partial, mingled, replica, authorized, hollow,
                   pushRetries>>

\* The version's report arrives and Central gives it an original of its own
\* (PresentationVersions); a deployment is revoked; the identifier is changed.
ContextChanges ==
    /\ \/ authorized.version = "absent" /\ authorized' = [authorized EXCEPT !.version = "here"]
       \/ authorized.deployment /\ authorized' = [authorized EXCEPT !.deployment = FALSE]
       \/ authorized.manifest /\ authorized' = [authorized EXCEPT !.manifest = FALSE]
       \/ /\ authorized.version = "here" /\ ~authorized.taken
          /\ authorized' = [authorized EXCEPT !.taken = TRUE]
    /\ UNCHANGED <<pushJob, pushState, attempt, receiver, handler, frozen, twin, staging, replica,
                   hollow, pushFaults, pushRetries>>

\* The event is deleted with its versions, deployments and receiver rows; the delete
\* waits for the lock of a row that a call holds (Lifecycle).
EventDeleted ==
    /\ authorized.version # "deleted" /\ handler = NoPushCall /\ ~twin
    /\ authorized' = [authorized EXCEPT !.version = "deleted", !.deployment = FALSE]
    /\ receiver' = NoReceiver
    /\ UNCHANGED <<pushJob, pushState, attempt, handler, frozen, twin, staging, replica, hollow,
                   pushFaults, pushRetries>>

-----------------------------------------------------------------------------

PushWorker == ClaimPush \/ CompletePush \/ FailPush \/ CallCentral \/ CallFreezes \/ CallBesideTwin
              \/ CallTooEarly

PushHandler == create_replication \/ append_staging_check \/ replication_content
               \/ finalize_replication_endpoint \/ CommitCall

PushNext == \/ PushWorker \/ PushHandler
            \/ CrashPush \/ retry_replication \/ StorageFails \/ LateAppend \/ PushCommitLost \/ GiveUp
            \/ RestartCentral \/ ContextChanges \/ TwinCreates \/ EventDeleted

PushSpec == PushInit /\ [][PushNext]_pushVars

-----------------------------------------------------------------------------
(* Properties.                                                             *)

\* No lost commit, repeated block or late write gets a damaged replica published:
\* it is the Site's file, and it stays that unless it shares its inode with the
\* staged file, which a late append can still grow.
ReplicaIntact ==
    /\ receiver.finalized \/ replica.linked => replica.units # <<>>
    /\ replica.units # <<>> => /\ IsPrefix(Whole, replica.units)
                               /\ ~replica.linked => replica.units = Whole

\* The first n units are staged, or two appends have mingled and there are more.
Held(n) == IsPrefix(SubSeq(Whole, 1, n), partial) \/ (mingled /\ n < Len(partial))

\* The offset that Central promises to resume from is backed by the staged file; where an
\* abandoned append has written between the check and the writes of another one, the file
\* has outgrown the offset, is never appended to again and never published.
ConfirmedIsStaged == Held(receiver.confirmed)

\* SYNCED at the Site means a finalized replica at Central, or one about to be
\* committed, except after an answer whose transaction was lost behind it, and until
\* the event is deleted.
SyncedIsFinalized ==
    pushState = "SYNCED" => \/ receiver.finalized \/ handler.row.finalized
                            \/ hollow \/ authorized.version = "deleted"

\* The causes for which a call may be refused: the version has not arrived or the
\* deployment is revoked; the row is to be made and identifier or size are not accepted;
\* the row is to be there and is not, since its commit was lost or is still to come or
\* the event is gone; the row was to be made and has been; the version has an original;
\* the staged file does not end at the confirmed offset.
RefusalCause ==
    \/ ~authorize_replication_context
    \/ attempt.phase = "create" /\ ~receiver.exists /\ ~authorized.manifest
    \/ attempt.phase \in {"content", "finalize"} /\ ~receiver.exists
    \/ AlreadyMade
    \/ handler.call = "finalize" /\ authorized.taken
    \/ partial # SubSeq(Whole, 1, receiver.confirmed)

\* An attempt is refused by Central, with no fault in it, only for these causes; lost
\* answers, crashes and retries are no reason.
RefusedForCause ==
    [][(/\ attempt.phase \in {"create", "content", "finalize", "waiting"}
        /\ attempt'.phase = "failed" /\ pushFaults' = pushFaults /\ ~frozen')
       => RefusalCause]_pushVars

\* A job that was tried once succeeds or runs out of attempts, even when Central
\* answers nothing any more: no attempt waits for ever.
PushSettles == attempt.phase # "idle" ~> pushJob.status \in {"SUCCEEDED", "EXHAUSTED"}

\* What the steps keep true between them, and why the above hold.  A call that waits
\* for storage knows the row as it is, and the worker waits for it or has given up.
CallKnowsRow ==
    handler.step \in {"storage", "writing"} =>
        /\ handler.call # "none"
        /\ handler.row = receiver \/ (AlreadyMade /\ ~receiver.finalized /\ receiver.confirmed = 0)
        /\ handler.call = "content" => receiver.exists /\ handler.at = receiver.confirmed
        /\ handler.call = "finalize" => receiver.exists /\ receiver.confirmed = PushSize
        /\ handler.step = "writing" => handler.call = "content"
        /\ attempt.phase \notin {"content", "finalize", "done"}
        /\ handler.awaited => attempt.phase = "waiting"

\* What is staged and what is still to be written make the file as far as the block goes,
\* or are more than that once another append has written.
BlockInOrder ==
    handler.step = "writing" =>
        \/ partial \o toWrite = SubSeq(Whole, 1, ConfirmedBy(handler.at))
        \/ mingled /\ ConfirmedBy(handler.at) < Len(partial) + Len(toWrite)

\* One that has answered is ahead of the row by no more than storage holds.
AnswerBacked ==
    handler.step = "answered" =>
        /\ Held(handler.row.confirmed)
        /\ receiver.confirmed <= handler.row.confirmed
        /\ receiver.finalized => handler.row.finalized
        /\ handler.row.finalized => replica.units # <<>>
        /\ handler.call # "finalize" => handler.row.finalized = receiver.finalized

\* The worker goes on where the answer said; if the commit behind the answer was lost,
\* the staged file is longer than Central knows.
WorkerFollows ==
    /\ attempt.phase \in {"content", "finalize"} =>
          \/ handler.step = "answered" /\ attempt.offset = handler.row.confirmed
          \/ /\ handler.step = "idle"
             /\ attempt.offset = receiver.confirmed \/ receiver.confirmed < Len(partial)
    /\ attempt.phase = "finalize" => attempt.offset = PushSize

\* What counts as done was finalized, or its commit is under way, or was lost.
DoneIsFinalized ==
    /\ pushState = "SYNCED" => pushJob.status = "SUCCEEDED" /\ attempt.phase = "idle"
    /\ (attempt.phase = "done" \/ pushState = "SYNCED") =>
          \/ receiver.finalized \/ hollow \/ authorized.version = "deleted"
          \/ /\ handler.step = "answered" /\ handler.call = "finalize"
             /\ handler.awaited /\ handler.row.finalized

\* A row that is not there says nothing, and what has been answered is a row.
RowsAreMade ==
    /\ ~receiver.exists => receiver = NoReceiver
    /\ handler.step = "answered" => handler.row.exists

PushCoherent == RowsAreMade /\ CallKnowsRow /\ BlockInOrder /\ AnswerBacked /\ WorkerFollows
                /\ DoneIsFinalized

\* A push never claims more than Central has: confirmed bytes are staged, a published
\* replica is whole, and a file shown as synchronized was finalized, but for the exceptions
\* named above (execute_central_push, replication_content, finalize_replication_endpoint).
PushSafe == PushTypeOK /\ PushCoherent /\ ConfirmedIsStaged /\ ReplicaIntact /\ SyncedIsFinalized

================================================================================
