------------------------------ MODULE MediaPull ------------------------------
(***************************************************************************)
(* One presentation file on its way from Central to the Site (ADR-0011):   *)
(* the Site worker's presentation_media.central_pull job, the local media  *)
(* storage service that holds the partial file, the ingestion that adopts  *)
(* the verified object, and the progress events Central applies.           *)
(*                                                                         *)
(* run() claims a transfer job and works on it in ONE transaction whose    *)
(* row lock keeps other workers away (FOR UPDATE SKIP LOCKED), so the      *)
(* claim, the confirmed offset, the progress event and the settlement of   *)
(* the job commit together or not at all.  `tx' is that transaction: a     *)
(* working copy of the session row.  What the attempt does outside of it   *)
(* is durable at once and survives a rollback: the bytes appended to the   *)
(* staged file, the published object, and the MediaObject row, which       *)
(* adopt_committed writes in transactions of its own.                      *)
(*                                                                         *)
(* A file is the sequence of its units 1..Size; sha256 equality is         *)
(* equality with that sequence.  A fault is whatever makes one call or the *)
(* process fail: Central or the storage service unreachable, a timeout, a  *)
(* revoked deployment, a failed commit, a killed worker.                   *)
(***************************************************************************)
EXTENDS Naturals, Sequences, SequencesExt

CONSTANTS
    Size,         \* expected_size of the file, in units
    Block,        \* transfer_block_bytes, in units
    MaxAttempts,  \* TransferJob.max_attempts
    MaxFaults     \* bound: failures the environment may inject

ASSUME SizesAssumption == Size \in Nat \ {0} /\ Block \in Nat \ {0}
ASSUME BoundsAssumption == MaxAttempts \in Nat \ {0} /\ MaxFaults \in Nat

VARIABLES
    job,        \* the Site's TransferJob row: status and attempt_count
    sess,       \* the Site's MediaTransferSession row
    keys,       \* idempotency keys of the progress rows in the Site outbox
    outbox,     \* progress events Central has not applied yet, in order
    tx,         \* the worker's open transaction
    staged,     \* content of the staged file of the allocated key
    rest,       \* what the running append has still to write
    late,       \* what each abandoned append may still write
    mixed,      \* an abandoned append has written to the staged file between the check
                \* and the last write of another one
    published,  \* content of the committed object, <<>> when there is none
    linked,     \* the object is a hard link to the staged file, not a copy
    media,      \* MediaObject.availability under the key transfer:<session>
    central,    \* Central's TransferJob payload and PresentationMediaImport
    faults

site == <<job, sess, keys>>
storage == <<staged, rest, late, mixed, published, linked>>
vars == <<job, sess, keys, outbox, tx, staged, rest, late, mixed, published, linked, media,
          central, faults>>

File == [i \in 1..Size |-> i]

States == {"AVAILABLE", "TRANSFERRING", "VERIFYING", "COMPLETED"}

Sessions == [state: States, offset: 0..Size, allocated: BOOLEAN, media: BOOLEAN]

\* The phases of one attempt, in the order execute_central_pull takes them.
Phases == {"idle", "prepare", "fetch", "append", "write", "progress", "commit", "adopt",
           "record", "finalize", "available", "release", "report", "complete", "fail"}

TypeOK ==
    /\ job \in [status: {"PENDING", "RETRY_WAIT", "EXHAUSTED", "SUCCEEDED"}, attempts: Nat]
    /\ sess \in Sessions
    /\ keys \subseteq (0..Size) \X States
    /\ outbox \in Seq([offset: 0..Size, state: States, ready: BOOLEAN])
    /\ tx \in [phase: Phases, work: Sessions]
    /\ staged \in Seq(1..Size) /\ rest \in Seq(1..Size) /\ published \in Seq(1..Size)
    /\ late \in Seq(Seq(1..Size))
    /\ linked \in BOOLEAN /\ mixed \in BOOLEAN
    /\ media \in {"NONE", "STAGING", "FINALIZING", "AVAILABLE"}
    /\ central \in [offset: 0..Size, state: States, ready: BOOLEAN,
                    status: {"PENDING", "SUCCEEDED"},
                    import: {"TRANSFER_QUEUED", "TRANSFERRING", "SITE_READY"}]
    /\ faults \in 0..MaxFaults

\* central.media_transfer.available has been applied: the Site has its job and
\* its session row, and Central has offered the manifest.
Init ==
    /\ job = [status |-> "PENDING", attempts |-> 0]
    /\ sess = [state |-> "AVAILABLE", offset |-> 0, allocated |-> FALSE, media |-> FALSE]
    /\ keys = {} /\ outbox = <<>>
    /\ tx = [phase |-> "idle", work |-> sess]
    /\ staged = <<>> /\ rest = <<>> /\ late = <<>> /\ published = <<>>
    /\ linked = FALSE /\ mixed = FALSE
    /\ media = "NONE"
    /\ central = [offset |-> 0, state |-> "AVAILABLE", ready |-> FALSE,
                  status |-> "PENDING", import |-> "TRANSFER_QUEUED"]
    /\ faults = 0

Fault == faults < MaxFaults /\ faults' = faults + 1

-----------------------------------------------------------------------------
(* The transaction: claim, settle, roll back.                              *)

\* A pending job, or one whose back-off has passed, can be claimed; the claim
\* does not look at max_attempts.
Claimable == job.status \in {"PENDING", "RETRY_WAIT"}

_claim ==
    /\ tx.phase = "idle"
    /\ Claimable
    /\ tx' = [phase |-> IF sess.state = "COMPLETED" THEN "complete" ELSE "prepare",
              work |-> sess]
    /\ UNCHANGED <<site, outbox, storage, media, central, faults>>

\* The attempt raises: control passes to the worker's except clause.
Raise == tx' = [tx EXCEPT !.phase = "fail"]

Key == <<tx.work.offset, tx.work.state>>

\* The outbox row of a progress event and the session row commit with the job.
enqueue_transfer_progress(ready) ==
    /\ Key \notin keys
    /\ keys' = keys \cup {Key}
    /\ outbox' = Append(outbox, [offset |-> tx.work.offset, state |-> tx.work.state,
                                 ready |-> ready])

Settle(status) ==
    /\ job' = [status |-> status, attempts |-> job.attempts + 1]
    /\ sess' = tx.work
    /\ tx' = [tx EXCEPT !.phase = "idle"]
    /\ UNCHANGED <<storage, media, central, faults>>

Rollback ==
    /\ tx' = [tx EXCEPT !.phase = "idle"]
    /\ UNCHANGED <<site, outbox, staged, mixed, published, linked, media, central>>

\* A block arrived and the file is not complete: report, and give the job back.
CommitProgress ==
    /\ tx.phase = "progress"
    /\ enqueue_transfer_progress(FALSE)
    /\ Settle("PENDING")

\* Mutant: the session is completed without a report.
CommitCompleted_silent ==
    /\ tx.phase = "report"
    /\ Settle("SUCCEEDED")
    /\ UNCHANGED <<keys, outbox>>

CommitCompleted ==
    /\ tx.phase = "report"
    /\ enqueue_transfer_progress(TRUE)
    /\ Settle("SUCCEEDED")

\* The session was completed by an earlier attempt: nothing is reported.
CommitAlreadyCompleted ==
    /\ tx.phase = "complete"
    /\ Settle("SUCCEEDED")
    /\ UNCHANGED <<keys, outbox>>

\* Mutant: a failure is final.
FailedStatus_final == "EXHAUSTED"

FailedStatus == IF job.attempts + 1 < MaxAttempts THEN "RETRY_WAIT" ELSE "EXHAUSTED"

\* The except clause reports the failure and charges the attempt.
CommitFailure ==
    /\ tx.phase = "fail"
    /\ enqueue_transfer_progress(FALSE)
    /\ Settle(FailedStatus)

\* A progress row with this offset and state exists already: the flush violates
\* UNIQUE (source_system, idempotency_key), nothing catches the error, the
\* worker process ends and is restarted.
KeyCollision ==
    /\ tx.phase \in {"progress", "report", "fail"}
    /\ Key \in keys
    /\ Rollback
    /\ UNCHANGED <<rest, late, faults>>

\* Nobody waits for the running append any more; the service may go on with it.
Abandon ==
    /\ rest' = <<>>
    /\ late' = IF rest = <<>> THEN late ELSE Append(late, rest)

\* The worker is killed, or the commit fails.
Crash ==
    /\ tx.phase # "idle"
    /\ Fault
    /\ Rollback
    /\ Abandon

-----------------------------------------------------------------------------
(* execute_central_pull.                                                   *)

\* auth_context, then a staging allocation unless the session has one.  Each
\* allocation is a new key: a file staged under a key whose allocation was
\* rolled back is never looked at again.
allocate_staging ==
    /\ tx.phase = "prepare"
    /\ \/ /\ tx' = [phase |-> "fetch",
                    work |-> [tx.work EXCEPT !.allocated = TRUE, !.state = "TRANSFERRING"]]
          /\ IF tx.work.allocated
             THEN UNCHANGED <<staged, late, mixed>>
             ELSE staged' = <<>> /\ late' = <<>> /\ mixed' = FALSE
          /\ UNCHANGED faults
       \/ Fault /\ Raise /\ UNCHANGED <<staged, late, mixed>>
    /\ UNCHANGED <<site, outbox, rest, published, linked, media, central>>

\* The units Central streams for a request at `offset'.
Streamed(offset) == SubSeq(File, offset + 1, IF offset + Block < Size THEN offset + Block ELSE Size)

\* GET content.  At offset = expected_size the range is empty and Central asks
\* its storage service for limit=0, which that service refuses (ge=1): the
\* stream breaks off after the headers.
transfer_content ==
    /\ tx.phase = "fetch"
    /\ \/ /\ Streamed(tx.work.offset) # <<>>
          /\ tx' = [tx EXCEPT !.phase = "append"]
          /\ UNCHANGED faults
       \/ /\ Streamed(tx.work.offset) = <<>>
          /\ Raise
          /\ UNCHANGED faults
       \/ Fault /\ Raise
    /\ UNCHANGED <<site, outbox, storage, media, central>>

\* Mutant: a service that appends whatever offset is named.
Accepts_unchecked == TRUE

\* The storage service appends only at the end of the staged file.
Accepts == Len(staged) = tx.work.offset

\* The confirmed offset follows what the service says it has persisted.
Received(offset) ==
    [tx EXCEPT !.work.offset = offset,
               !.work.state = IF offset = Size THEN "VERIFYING" ELSE @,
               !.phase = IF offset = Size THEN "commit" ELSE "progress"]

\* PATCH staging: the service looks at the size of the file, once.
append_staging ==
    /\ tx.phase = "append"
    /\ IF Accepts
       THEN /\ rest' = Streamed(tx.work.offset)
            /\ tx' = [tx EXCEPT !.phase = "write"]
       ELSE /\ Raise
            /\ UNCHANGED rest
    /\ UNCHANGED <<site, outbox, staged, late, mixed, published, linked, media, central, faults>>

\* The service writes the first n units that have come, at the end of the file.  It
\* answers with the size it saw and the number of units it wrote.
WriteFirst(n) ==
    /\ staged' = staged \o SubSeq(rest, 1, n)
    /\ rest' = SubSeq(rest, n + 1, Len(rest))
    /\ tx' = IF n = Len(rest)
             THEN Received(tx.work.offset + Len(Streamed(tx.work.offset)))
             ELSE tx

\* Mutant: the progress report is written in a transaction of its own.
WriteChunk_reports_early ==
    /\ tx.phase = "write"
    /\ \E n \in 1..Len(rest) : WriteFirst(n)
    /\ outbox' = IF rest' = <<>>
                 THEN Append(outbox, [offset |-> tx'.work.offset, state |-> "TRANSFERRING",
                                      ready |-> FALSE])
                 ELSE outbox
    /\ UNCHANGED <<site, late, mixed, published, linked, media, central, faults>>

\* The service awaits the request's stream before each write.
WriteChunk ==
    /\ tx.phase = "write"
    /\ \E n \in 1..Len(rest) : WriteFirst(n)
    /\ UNCHANGED <<site, outbox, late, mixed, published, linked, media, central, faults>>

\* The worker gives up on the PATCH.
AppendTimesOut ==
    /\ tx.phase = "write"
    /\ Fault
    /\ Raise
    /\ Abandon
    /\ UNCHANGED <<site, outbox, staged, mixed, published, linked, media, central>>

\* An abandoned append goes to the file the service opened, whatever its name is by then:
\* a hard-linked object grows with it, even when the staged name has been released.
Grows(units) ==
    /\ \/ staged' = staged \o units
       \/ linked /\ staged = <<>> /\ staged' = staged
    /\ published' = IF linked THEN published \o units ELSE published
    /\ mixed' = (mixed \/ (tx.phase = "write" /\ staged' # staged))

\* More of an abandoned append arrives behind the worker's back, perhaps between the
\* check and the writes of the next append; or no more of it arrives.
LateWrite ==
    /\ \E i \in DOMAIN late :
          \/ \E n \in 1..Len(late[i]) :
                /\ Grows(SubSeq(late[i], 1, n))
                /\ late' = IF n = Len(late[i])
                           THEN RemoveAt(late, i)
                           ELSE [late EXCEPT ![i] = SubSeq(@, n + 1, Len(@))]
          \/ /\ late' = RemoveAt(late, i)
             /\ UNCHANGED <<staged, published, mixed>>
    /\ UNCHANGED <<site, outbox, tx, rest, linked, media, central, faults>>

\* Mutant: the length stands for the content.
Verified_by_length == Len(staged) >= Size

\* The digest of the whole staged file decides.
Verified == staged = File

\* An object that exists is left alone.  Otherwise the staged file is published
\* under the digest's name: by os.link, or as a copy when staging and media are
\* different filesystems.
Publish ==
    /\ Verified
    /\ IF published = <<>>
       THEN published' = staged /\ linked' \in BOOLEAN
       ELSE UNCHANGED <<published, linked>>

commit ==
    /\ tx.phase = "commit"
    /\ \/ /\ Publish
          /\ tx' = [tx EXCEPT !.phase = "adopt"]
       \/ /\ ~Verified
          /\ Raise
          /\ UNCHANGED <<published, linked>>
    /\ UNCHANGED <<site, outbox, staged, rest, late, mixed, media, central, faults>>

CommitTimesOut ==
    /\ tx.phase = "commit"
    /\ Fault
    /\ Raise
    /\ Publish \/ UNCHANGED <<published, linked>>
    /\ UNCHANGED <<site, outbox, staged, rest, late, mixed, media, central>>

-----------------------------------------------------------------------------
(* adopt_committed, in transactions of its own: the steps are those that   *)
(* change the availability; the storage target is recorded with them.      *)

\* An existing row is returned when it is AVAILABLE and is a conflict
\* (incomplete_retry) when it is not.
_find_retry ==
    /\ tx.phase = "adopt"
    /\ tx' = [tx EXCEPT !.phase = CASE media = "NONE" -> "record"
                                    [] media = "AVAILABLE" -> "release"
                                    [] OTHER -> "fail",
                        !.work.media = media = "AVAILABLE",
                        !.work.state = IF media = "AVAILABLE" THEN "COMPLETED" ELSE @]
    /\ UNCHANGED <<site, outbox, storage, media, central, faults>>

_create_staging_record ==
    /\ tx.phase = "record"
    /\ media' = "STAGING"
    /\ tx' = [tx EXCEPT !.phase = "finalize"]
    /\ UNCHANGED <<site, outbox, storage, central, faults>>

_record_finalizing ==
    /\ tx.phase = "finalize"
    /\ media' = "FINALIZING"
    /\ tx' = [tx EXCEPT !.phase = "available"]
    /\ UNCHANGED <<site, outbox, storage, central, faults>>

\* The media is available; the session row is completed in the working copy.
_mark_available_and_enqueue ==
    /\ tx.phase = "available"
    /\ media' = "AVAILABLE"
    /\ tx' = [phase |-> "release",
              work |-> [tx.work EXCEPT !.media = TRUE, !.state = "COMPLETED"]]
    /\ UNCHANGED <<site, outbox, storage, central, faults>>

AdoptFails ==
    /\ tx.phase \in {"adopt", "record", "finalize", "available"}
    /\ Fault
    /\ Raise
    /\ UNCHANGED <<site, outbox, storage, media, central>>

\* Releasing the staged file comes before the report; when it fails the except
\* clause reports a completed session without local_media_ready.
release_staging ==
    /\ tx.phase = "release"
    /\ \/ /\ staged' = <<>>
          /\ tx' = [tx EXCEPT !.phase = "report"]
          /\ UNCHANGED faults
       \/ /\ Fault
          /\ staged' \in {staged, <<>>}
          /\ Raise
    /\ late' = IF staged' = <<>> /\ ~linked THEN <<>> ELSE late
    /\ UNCHANGED <<site, outbox, rest, mixed, published, linked, media, central>>

-----------------------------------------------------------------------------
(* Central applies the progress events, in order and once.                 *)

\* SITE_READY needs the completed state and the explicit readiness flag.
Ready(p) == p.state = "COMPLETED" /\ p.ready

ApplyProgress ==
    /\ outbox # <<>>
    /\ outbox' = Tail(outbox)
    /\ LET p == Head(outbox) IN
       IF p.offset >= central.offset /\ central.status # "SUCCEEDED"
       THEN central' = [offset |-> p.offset, state |-> p.state, ready |-> p.ready,
                        status |-> IF Ready(p) THEN "SUCCEEDED" ELSE central.status,
                        import |-> IF Ready(p) THEN "SITE_READY" ELSE "TRANSFERRING"]
       ELSE UNCHANGED central
    /\ UNCHANGED <<site, tx, storage, media, faults>>

-----------------------------------------------------------------------------
Settled == CommitProgress \/ CommitCompleted \/ CommitAlreadyCompleted \/ CommitFailure
           \/ KeyCollision

Pull == allocate_staging \/ transfer_content \/ append_staging \/ WriteChunk \/ commit

Adopt == _find_retry \/ _create_staging_record \/ _record_finalizing
         \/ _mark_available_and_enqueue \/ release_staging

Worker == _claim \/ Pull \/ Adopt \/ Settled

Environment == Crash \/ AppendTimesOut \/ LateWrite \/ CommitTimesOut \/ AdoptFails

\* The job has reached a final status and Central has applied every report.
Quiet == job.status \in {"EXHAUSTED", "SUCCEEDED"} /\ outbox = <<>> /\ UNCHANGED vars

Next == Worker \/ ApplyProgress \/ Environment \/ Quiet

Spec == Init /\ [][Next]_vars

\* The worker process is restarted when it ends and polls for ever; the outbox
\* is delivered (SiteOutbox).
FairSpec == Spec /\ WF_vars(Worker) /\ WF_vars(ApplyProgress)

-----------------------------------------------------------------------------
(* Properties.                                                             *)

Delivered == media = "AVAILABLE" /\ IsPrefix(File, published)

\* Whatever Central has been told, or is about to be told, is true at the Site:
\* no offset beyond the session's, and readiness only of a delivered file.
ReportsHonest ==
    \A p \in {central} \cup {outbox[i] : i \in 1..Len(outbox)} :
        /\ p.offset <= sess.offset
        /\ p.ready => Delivered

\* No timed-out, repeated or late append ever gets a damaged file published, and
\* what was published as a copy stays what it was.  An object that shares its
\* inode with the staged file keeps the file as its beginning: a late write can
\* still grow it.
PublishedIntact ==
    published # <<>> => /\ IsPrefix(File, published)
                        /\ ~linked => published = File

\* The first n units of the file are on disk: in the staged file, or in the published
\* object once the media is available.
OnDisk(n) == \/ Delivered
             \/ n <= Len(staged) /\ SubSeq(staged, 1, n) = SubSeq(File, 1, n)

\* Two appends have mixed their units, and the staged file is longer than n.
Overrun(n) == mixed /\ n < Len(staged)

Durable(n) == OnDisk(n) \/ Overrun(n)

\* A confirmed offset stands for bytes that are on disk, and for the right ones.  Only
\* an abandoned append that writes between the check and the last write of the next one
\* makes it stand for others, and then the file has become longer than the offset: no
\* append is accepted any more and no digest agrees.
ConfirmedIsDurable == Durable(sess.offset)

\* The end of the running append.
Target == tx.work.offset + Len(Streamed(tx.work.offset))

\* What is staged and what is still to be written make the file as far as the append
\* goes, or are more than that once another append has written.
WriteInOrder ==
    tx.phase = "write" =>
        \/ Delivered
        \/ staged \o rest = SubSeq(File, 1, Target)
        \/ mixed /\ Target < Len(staged) + Len(rest)

\* What the open transaction knows is as good as what is committed: it is never behind
\* the session row, a session without an allocation has confirmed nothing, and the
\* offset the attempt would commit is on disk, so that it does not matter which of
\* the attempt's steps is the last one (run, execute_central_pull).
AttemptDurable ==
    /\ ~sess.allocated => sess.offset = 0
    /\ tx.phase # "idle" => /\ sess.offset <= tx.work.offset
                            /\ ~tx.work.allocated => tx.work.offset = 0
                            /\ Durable(tx.work.offset)
    /\ tx.phase \in {"fetch", "append", "write"} => tx.work.allocated

\* The adoption works on a published object and leaves an available media row alone:
\* it creates the row only when there was none (adopt_committed).
AdoptionInOrder ==
    /\ linked \/ media = "AVAILABLE" => published # <<>>
    /\ tx.phase \in {"adopt", "record", "finalize", "available"} => published # <<>>
    /\ tx.phase = "record" => media = "NONE"
    /\ tx.phase = "finalize" => media = "STAGING"
    /\ tx.phase \in {"release", "report"} => media = "AVAILABLE"

\* The session can no longer get on: the staged file does not end at the
\* confirmed offset, or nothing is left to fetch but the file was not adopted,
\* or an adoption was interrupted.
Stuck ==
    \/ sess.allocated /\ sess.state # "COMPLETED" /\ Len(staged) # sess.offset
    \/ sess.offset = Size /\ sess.state # "COMPLETED"
    \/ media \in {"STAGING", "FINALIZING"}

\* A pull that is not stuck in one of these ways survives its faults: it ends
\* COMPLETED, and is never given up for its attempts alone, though a job is
\* charged one attempt for every block and a worker may die on the way.
CompletesUnlessStuck == <>[](sess.state = "COMPLETED" \/ Stuck)

\* The end of the pull reaches Central: as SITE_READY, or, when releasing the
\* staged file failed, as a completed session that is not said to be ready.
CompletionReported ==
    (sess.state = "COMPLETED") ~>
        (central.import = "SITE_READY" \/ (central.state = "COMPLETED" /\ ~central.ready))

\* ADR-0011: "Timeout, transient HTTP error, process crash, network loss, and
\* restart resume the same session at the receiver's durable offset."
Resumes == <>(job.status = "SUCCEEDED")

\* A pull never claims more than it has: what Central is told, what is published and
\* what is recorded as received are all true of the staged file, whatever timed out or
\* died in between (execute_central_pull, append_staging, commit).
PullSafe ==
    /\ TypeOK /\ AttemptDurable /\ WriteInOrder /\ AdoptionInOrder
    /\ ReportsHonest /\ PublishedIntact /\ ConfirmedIsDurable

\* A pull completes and Central is told, unless it is in one of the stuck situations
\* named above.
PullEnds == CompletesUnlessStuck /\ CompletionReported
=============================================================================
