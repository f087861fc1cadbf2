------------------------------ MODULE SiteShare ------------------------------
(***************************************************************************)
(* The Site's SMB Incoming share: a scan job queues an ingest job per file *)
(* it sees, keyed by path, size and modification time; an ingest job reads *)
(* the file into a media object and queues a retirement; the retirement    *)
(* removes the source.  Every scan queues the next one.                    *)
(*                                                                         *)
(* Unlike Central's worker (MediaImport), the Site's claims a job, does    *)
(* the work and settles the job in one transaction, so that a job that is  *)
(* being worked on is locked, and the death of its worker leaves it as it  *)
(* was.  The media object has transactions of its own, and the source is   *)
(* removed before the retirement is settled: the storage service checks    *)
(* the file and removes it, in two steps, also when the worker that asked  *)
(* for it has died or given up.                                            *)
(***************************************************************************)
EXTENDS Naturals, FiniteSets, Functions

CONSTANTS
    Paths,              \* paths in the share
    MaxStamps,          \* sizes and modification times of a path: 1..MaxStamps
    ShareWorkers,       \* processes that run general jobs
    MaxScans,           \* bound: scan jobs at a time
    MaxShareAttempts,   \* max_attempts of the three job types
    MaxDrops,           \* bound: changes the users of the share make
    MaxShareFaults      \* bound: failures of storage calls and workers

ASSUME ShareAssumption ==
    /\ MaxStamps \in Nat \ {0} /\ MaxScans \in Nat \ {0} /\ MaxShareAttempts \in Nat \ {0}
    /\ MaxDrops \in Nat /\ MaxShareFaults \in Nat
    /\ ShareWorkers # {}

VARIABLES
    incoming,      \* stamp of the file at a path, or NoFile
    scans,         \* live ProcessingJob rows smb.incoming.reconcile: attempts by row
    scanExhausted, \* a scan has run out of attempts
    intakes,       \* smb.incoming.ingest rows, by path and stamp
    retirements,   \* smb.incoming.retire rows, likewise
    objects,       \* MediaObject rows by ingestion_idempotency_key
    shareWorker,   \* what each process is doing, with its open transaction
    dropped,       \* number of changes made to the share
    shareFaults,   \* number of failures
    orphans,       \* requests to complete_incoming nobody waits for, before the check and behind it
    exposed,       \* ghost: paths whose file was dropped while a request was about to unlink
    again,         \* ghost: files dropped with a path and stamp that had a job
    overlap        \* ghost: two scans have run at the same time

shareVars == <<incoming, scans, scanExhausted, intakes, retirements, objects, shareWorker, dropped, shareFaults,
               again, overlap, orphans, exposed>>

NoFile == 0
NoScan == 0
Stamps == 1..MaxStamps
ScanRows == 1..MaxScans
Drops == Paths \X Stamps
ShareJob == [status: {"PENDING", "RETRY_WAIT", "SUCCEEDED", "EXHAUSTED"}, attempts: 0..MaxShareAttempts]
NewShareJob == [status |-> "PENDING", attempts |-> 0]
NoObject == [state |-> "NONE", torn |-> FALSE]
ShareProcess == [at: {"down", "boot", "idle", "scan", "stream", "publish", "ingested",
                      "complete", "unlink", "retired"},
                 scan: ScanRows \cup {NoScan}, drop: Drops \cup {<<>>}, queued: SUBSET Drops,
                 successor: BOOLEAN]
Resting == [at |-> "idle", scan |-> NoScan, drop |-> <<>>, queued |-> {}, successor |-> FALSE]

ShareTypeOK ==
    /\ incoming \in [Paths -> Stamps \cup {NoFile}]
    /\ DOMAIN scans \subseteq ScanRows /\ \A i \in DOMAIN scans : scans[i] \in 0..MaxShareAttempts
    /\ scanExhausted \in BOOLEAN /\ overlap \in BOOLEAN
    /\ DOMAIN intakes \subseteq Drops /\ \A k \in DOMAIN intakes : intakes[k] \in ShareJob
    /\ DOMAIN retirements \subseteq DOMAIN intakes
    /\ \A k \in DOMAIN retirements : retirements[k] \in ShareJob
    /\ objects \in [Drops -> [state: {"NONE", "STAGING", "FINALIZING", "AVAILABLE", "FAILED"},
                              torn: BOOLEAN]]
    /\ shareWorker \in [ShareWorkers -> ShareProcess]
    /\ dropped \in 0..MaxDrops /\ shareFaults \in 0..MaxShareFaults
    /\ again \subseteq Drops /\ exposed \subseteq Paths
    /\ orphans \in [Drops -> [checking: Nat, unlinking: Nat]]

ShareInit ==
    /\ incoming = [p \in Paths |-> NoFile]
    /\ scans = <<>> /\ scanExhausted = FALSE /\ intakes = <<>> /\ retirements = <<>>
    /\ objects = [k \in Drops |-> NoObject]
    /\ shareWorker = [w \in ShareWorkers |-> [Resting EXCEPT !.at = "down"]]
    /\ dropped = 0 /\ shareFaults = 0 /\ again = {} /\ overlap = FALSE
    /\ orphans = [k \in Drops |-> [checking |-> 0, unlinking |-> 0]] /\ exposed = {}

ShareFault == shareFaults < MaxShareFaults /\ shareFaults' = shareFaults + 1
Does(w, at) == shareWorker[w].at = at
Goes(w, state) == shareWorker' = [shareWorker EXCEPT ![w] = state]

-----------------------------------------------------------------------------
(* The queue.                                                              *)

LiveShareJob(job) == job.status \in {"PENDING", "RETRY_WAIT"}
LiveScans == DOMAIN scans

\* fail(), in the transaction of the claim.
ShareFailed(job) ==
    [attempts |-> job.attempts + 1,
     status |-> IF job.attempts + 1 < MaxShareAttempts THEN "RETRY_WAIT" ELSE "EXHAUSTED"]
ShareSucceeded(job) == [attempts |-> job.attempts + 1, status |-> "SUCCEEDED"]

\* _claim: FOR UPDATE SKIP LOCKED passes over what another worker works on.
ScanFree(i) == i \in LiveScans /\ \A w \in ShareWorkers : Does(w, "scan") => shareWorker[w].scan # i
DropFree(k) == \A w \in ShareWorkers : shareWorker[w].drop # k
IntakeDue(k) == k \in DOMAIN intakes /\ LiveShareJob(intakes[k]) /\ DropFree(k)
RetirementDue(k) == k \in DOMAIN retirements /\ LiveShareJob(retirements[k]) /\ DropFree(k)

FailIntake(k) == intakes' = [intakes EXCEPT ![k] = ShareFailed(@)]

-----------------------------------------------------------------------------
(* A process starts, and may die.                                          *)

\* enqueue_reconciliation in the transaction of the start.
BootShare(w) ==
    /\ Does(w, "down")
    /\ Goes(w, [Resting EXCEPT !.at = "boot", !.successor = LiveScans = {}])
    /\ UNCHANGED <<incoming, scans, scanExhausted, intakes, retirements, objects, dropped, shareFaults, again, overlap, orphans, exposed>>

\* The scan rows without the finished one, with a new one if the worker found none.
NextScan(w, rows) ==
    LET n == CHOOSE i \in ScanRows : i \notin LiveScans
    IN  IF shareWorker[w].successor
        THEN [i \in DOMAIN rows \cup {n} |-> IF i \in DOMAIN rows THEN rows[i] ELSE 0]
        ELSE rows

ShareBooted(w) ==
    /\ Does(w, "boot")
    /\ shareWorker[w].successor => LiveScans # ScanRows       \* bound
    /\ scans' = NextScan(w, scans)
    /\ Goes(w, Resting)
    /\ UNCHANGED <<incoming, scanExhausted, intakes, retirements, objects, dropped, shareFaults, again, overlap, orphans, exposed>>

\* A request to the storage service goes on without its worker.
Abandoned(w) ==
    LET k == shareWorker[w].drop
    IN  IF Does(w, "complete") THEN [orphans EXCEPT ![k].checking = @ + 1]
        ELSE IF Does(w, "unlink") THEN [orphans EXCEPT ![k].unlinking = @ + 1] ELSE orphans

ShareWorkerDies(w) ==
    /\ ~Does(w, "down") /\ ShareFault
    /\ Goes(w, [Resting EXCEPT !.at = "down"])
    /\ orphans' = Abandoned(w)
    /\ UNCHANGED <<incoming, scans, scanExhausted, intakes, retirements, objects, dropped, again, overlap, exposed>>

-----------------------------------------------------------------------------
(* reconcile: queue what is new, and the next scan.                        *)

Seen == {<<p, incoming[p]>> : p \in {q \in Paths : incoming[q] # NoFile}}

\* Mutant: the next scan is left to the next start.
NeedsSuccessor_never(i) == FALSE

\* No other scan that is pending, waiting or running, as far as committed.
NeedsSuccessor(i) == LiveScans \ {i} = {}

ReadShare(w, i) ==
    /\ Does(w, "idle") /\ ScanFree(i)
    /\ Goes(w, [Resting EXCEPT !.at = "scan", !.scan = i, !.queued = Seen \ DOMAIN intakes,
                               !.successor = NeedsSuccessor(i)])
    /\ overlap' = (overlap \/ \E v \in ShareWorkers : Does(v, "scan"))
    /\ UNCHANGED <<incoming, scans, scanExhausted, intakes, retirements, objects, dropped, shareFaults, again, orphans, exposed>>

\* A key that another scan has queued meanwhile violates the unique constraint;
\* the failure handler then fails too, and the process ends.
CommitShareScan(w) ==
    /\ Does(w, "scan")
    /\ shareWorker[w].successor => LiveScans # ScanRows       \* bound
    /\ IF shareWorker[w].queued \cap DOMAIN intakes # {}
       THEN Goes(w, [Resting EXCEPT !.at = "down"]) /\ UNCHANGED <<scans, intakes>>
       ELSE /\ scans' = NextScan(w, RestrictDomain(scans, LAMBDA i : i # shareWorker[w].scan))
            /\ intakes' = [k \in DOMAIN intakes \cup shareWorker[w].queued |->
                              IF k \in DOMAIN intakes THEN intakes[k] ELSE NewShareJob]
            /\ Goes(w, Resting)
    /\ UNCHANGED <<incoming, scanExhausted, retirements, objects, dropped, shareFaults, again, overlap, orphans, exposed>>

\* The storage service does not list the share.
ShareScanFails(w, i) ==
    /\ Does(w, "idle") /\ ScanFree(i)
    /\ IF scans[i] + 1 < MaxShareAttempts
       THEN scans' = [scans EXCEPT ![i] = @ + 1] /\ UNCHANGED scanExhausted
       ELSE scans' = RestrictDomain(scans, LAMBDA j : j # i) /\ scanExhausted' = TRUE
    /\ UNCHANGED <<incoming, intakes, retirements, objects, shareWorker, dropped, shareFaults, again, overlap, orphans, exposed>>

-----------------------------------------------------------------------------
(* ingest.                                                                 *)

SourceIs(k) == incoming[k[1]] = k[2]

\* Mutant: an incomplete object of the same key is taken for done.
FoundRetry_any(k) == objects[k].state # "NONE"

\* _find_retry returns a finished object of this key.
FoundRetry(k) == objects[k].state = "AVAILABLE"

\* The second observation, then the object of an earlier attempt: one that is not
\* AVAILABLE is a conflict, whatever became of it.
ingest_async(w, k) ==
    /\ Does(w, "idle") /\ IntakeDue(k)
    /\ \/ /\ SourceIs(k) /\ FoundRetry(k)
          /\ Goes(w, [Resting EXCEPT !.at = "ingested", !.drop = k])
          /\ UNCHANGED <<objects, intakes>>
       \/ /\ SourceIs(k) /\ objects[k].state = "NONE"
          /\ objects' = [objects EXCEPT ![k].state = "STAGING"]
          /\ Goes(w, [Resting EXCEPT !.at = "stream", !.drop = k])
          /\ UNCHANGED intakes
       \/ /\ ~SourceIs(k) \/ (objects[k].state # "NONE" /\ ~FoundRetry(k))
          /\ FailIntake(k)
          /\ UNCHANGED <<objects, shareWorker>>
    /\ UNCHANGED <<incoming, scans, scanExhausted, retirements, dropped, shareFaults, again, overlap, orphans, exposed>>

\* No allocation: no object is recorded.
AllocateFails(w, k) ==
    /\ Does(w, "idle") /\ IntakeDue(k) /\ SourceIs(k) /\ objects[k].state = "NONE" /\ ShareFault
    /\ FailIntake(k)
    /\ UNCHANGED <<incoming, scans, scanExhausted, retirements, objects, shareWorker, dropped, again, overlap, orphans, exposed>>

\* The blocks are read, written, counted and hashed.  A file that changes under
\* the reader gives a torn object or too few bytes.
StreamShare(w) ==
    LET k == shareWorker[w].drop
    IN  /\ Does(w, "stream")
        /\ \/ /\ objects' = [objects EXCEPT ![k] = [state |-> "FINALIZING", torn |-> ~SourceIs(k)]]
              /\ Goes(w, [shareWorker[w] EXCEPT !.at = "publish"])
              /\ UNCHANGED <<intakes, shareFaults>>
           \/ /\ SourceIs(k) => shareFaults < MaxShareFaults
              /\ shareFaults' = IF SourceIs(k) THEN shareFaults + 1 ELSE shareFaults
              /\ objects' = [objects EXCEPT ![k].state = "FAILED"]
              /\ FailIntake(k) /\ Goes(w, Resting)
        /\ UNCHANGED <<incoming, scans, scanExhausted, retirements, dropped, again, overlap, orphans, exposed>>

\* The object is committed and made available.  A failure before the commit is
\* recorded makes it FAILED, one behind it leaves it FINALIZING.
PublishShare(w) ==
    LET k == shareWorker[w].drop
    IN  /\ Does(w, "publish")
        /\ \/ /\ objects' = [objects EXCEPT ![k].state = "AVAILABLE"]
              /\ Goes(w, [shareWorker[w] EXCEPT !.at = "ingested"])
              /\ UNCHANGED <<intakes, shareFaults>>
           \/ /\ ShareFault
              /\ \E state \in {"FAILED", "FINALIZING"} : objects' = [objects EXCEPT ![k].state = state]
              /\ FailIntake(k) /\ Goes(w, Resting)
        /\ UNCHANGED <<incoming, scans, scanExhausted, retirements, dropped, again, overlap, orphans, exposed>>

\* Mutant: the retirement is not queued.
CommitIntake_only(w) ==
    /\ Does(w, "ingested")
    /\ intakes' = [intakes EXCEPT ![shareWorker[w].drop] = ShareSucceeded(@)]
    /\ Goes(w, Resting)
    /\ UNCHANGED <<incoming, scans, scanExhausted, retirements, objects, dropped, shareFaults, again, overlap, orphans, exposed>>

\* enqueue_retirement and complete.
CommitIntake(w) ==
    LET k == shareWorker[w].drop
    IN  /\ Does(w, "ingested")
        /\ intakes' = [intakes EXCEPT ![k] = ShareSucceeded(@)]
        /\ retirements' = [d \in DOMAIN retirements \cup {k} |->
                              IF d = k THEN NewShareJob ELSE retirements[d]]
        /\ Goes(w, Resting)
        /\ UNCHANGED <<incoming, scans, scanExhausted, objects, dropped, shareFaults, again, overlap, orphans, exposed>>

-----------------------------------------------------------------------------
(* retire.                                                                 *)

\* Mutant: size and modification time are enough.
SameSource_stamp(k) == SourceIs(k)

\* Size, modification time and digest, and the file behind the path at the last look.
SameSource(k) == SourceIs(k) /\ ~objects[k].torn

retire_smb(w, k) ==
    /\ Does(w, "idle") /\ RetirementDue(k)
    /\ Goes(w, [Resting EXCEPT !.at = "complete", !.drop = k])
    /\ UNCHANGED <<incoming, scans, scanExhausted, intakes, retirements, objects, dropped, shareFaults, again, overlap, orphans, exposed>>

\* complete_incoming up to final_stat.  A source that is gone or has changed also ends
\* the job.
complete_incoming(w) ==
    /\ Does(w, "complete")
    /\ Goes(w, [shareWorker[w] EXCEPT !.at = IF SameSource(shareWorker[w].drop) THEN "unlink" ELSE "retired"])
    /\ UNCHANGED <<incoming, scans, scanExhausted, intakes, retirements, objects, dropped, shareFaults, again, overlap, orphans, exposed>>

\* path.unlink takes whatever has the name by now.
Unlinked(k) ==
    /\ incoming' = [incoming EXCEPT ![k[1]] = NoFile]
    /\ exposed' = exposed \ {k[1]}

\* A file that is gone by now is an error, and the job is tried again.
UnlinkSource(w) ==
    LET k == shareWorker[w].drop
    IN  /\ Does(w, "unlink")
        /\ IF incoming[k[1]] # NoFile
           THEN Unlinked(k) /\ Goes(w, [shareWorker[w] EXCEPT !.at = "retired"]) /\ UNCHANGED retirements
           ELSE /\ retirements' = [retirements EXCEPT ![k] = ShareFailed(@)]
                /\ Goes(w, Resting)
                /\ UNCHANGED <<incoming, exposed>>
        /\ UNCHANGED <<scans, scanExhausted, intakes, objects, dropped, shareFaults, again, overlap, orphans>>

\* The request of a worker that has died or given up.
OrphanCompletes(k) ==
    /\ \/ /\ orphans[k].checking > 0
          /\ orphans' = [orphans EXCEPT ![k] = [checking |-> @.checking - 1,
                               unlinking |-> IF SameSource(k) THEN @.unlinking + 1 ELSE @.unlinking]]
          /\ UNCHANGED <<incoming, exposed>>
       \/ /\ orphans[k].unlinking > 0
          /\ orphans' = [orphans EXCEPT ![k].unlinking = @ - 1]
          /\ Unlinked(k)
    /\ UNCHANGED <<scans, scanExhausted, intakes, retirements, objects, shareWorker, dropped, shareFaults, again, overlap>>

CommitRetirement(w) ==
    /\ Does(w, "retired")
    /\ retirements' = [retirements EXCEPT ![shareWorker[w].drop] = ShareSucceeded(@)]
    /\ Goes(w, Resting)
    /\ UNCHANGED <<incoming, scans, scanExhausted, intakes, objects, dropped, shareFaults, again, overlap, orphans, exposed>>

\* The service does not get the request, may not remove the file, or does not answer in
\* time and goes on.
RetirementFails(w) ==
    /\ Does(w, "complete") \/ Does(w, "unlink")
    /\ ShareFault
    /\ retirements' = [retirements EXCEPT ![shareWorker[w].drop] = ShareFailed(@)]
    /\ orphans' = orphans \/ orphans' = Abandoned(w)
    /\ Goes(w, Resting)
    /\ UNCHANGED <<incoming, scans, scanExhausted, intakes, objects, dropped, again, overlap, exposed>>

-----------------------------------------------------------------------------
(* The users of the share: a copy may keep the modification time.          *)

Unlinking(k) == orphans[k].unlinking > 0 \/ \E w \in ShareWorkers : Does(w, "unlink") /\ shareWorker[w].drop = k

DropFile(p, s) ==
    /\ dropped < MaxDrops /\ dropped' = dropped + 1
    /\ incoming[p] # s
    /\ incoming' = [incoming EXCEPT ![p] = s]
    /\ again' = IF <<p, s>> \in DOMAIN intakes THEN again \cup {<<p, s>>} ELSE again
    /\ exposed' = IF \E k \in Drops : k[1] = p /\ Unlinking(k) THEN exposed \cup {p} ELSE exposed \ {p}
    /\ UNCHANGED <<scans, scanExhausted, intakes, retirements, objects, shareWorker, shareFaults, overlap, orphans>>

-----------------------------------------------------------------------------

ShareWorks(w) ==
    \/ BootShare(w) \/ ShareBooted(w)
    \/ \E i \in DOMAIN scans : ReadShare(w, i)
    \/ CommitShareScan(w)
    \/ \E k \in DOMAIN intakes : ingest_async(w, k)
    \/ StreamShare(w) \/ PublishShare(w) \/ CommitIntake(w)
    \/ \E k \in DOMAIN retirements : retire_smb(w, k)
    \/ complete_incoming(w) \/ UnlinkSource(w) \/ CommitRetirement(w)

\* A due job is claimed by age, so that no scan that is queued later keeps it waiting.
ShareClaims == \E w \in ShareWorkers : \/ \E k \in DOMAIN intakes : ingest_async(w, k)
                                       \/ \E k \in DOMAIN retirements : retire_smb(w, k)

WorkFails(w) ==
    \/ ShareWorkerDies(w)
    \/ \E k \in DOMAIN intakes : AllocateFails(w, k)
    \/ RetirementFails(w)

ShareUsers == \E p \in Paths, s \in Stamps : DropFile(p, s)

ShareNext ==
    \/ \E w \in ShareWorkers : \/ ShareWorks(w) \/ WorkFails(w)
                              \/ \E i \in DOMAIN scans : ShareScanFails(w, i)
    \/ ShareUsers
    \/ \E k \in Drops : OrphanCompletes(k)

ShareSpec == ShareInit /\ [][ShareNext]_shareVars

-----------------------------------------------------------------------------
(* Properties.                                                             *)

\* What a process has in hand: a job that is live and that no other works on, and an
\* object in the state in which the process left it.
Holding(w) ==
    LET k == shareWorker[w].drop
    IN  /\ k # <<>> => \A v \in ShareWorkers \ {w} : shareWorker[v].drop # k
        /\ shareWorker[w].at \in {"down", "boot", "idle", "scan"} <=> k = <<>>
        /\ shareWorker[w].at \in {"stream", "publish", "ingested"} =>
               k \in DOMAIN intakes /\ LiveShareJob(intakes[k])
        /\ Does(w, "stream") => objects[k].state = "STAGING"
        /\ Does(w, "publish") => objects[k].state = "FINALIZING"
        /\ Does(w, "ingested") => objects[k].state = "AVAILABLE"
        /\ shareWorker[w].at \in {"complete", "unlink", "retired"} =>
               k \in DOMAIN retirements /\ LiveShareJob(retirements[k])

\* Every process works on a job of its own, no live job has used up its attempts, and a
\* retirement is queued only for an object that is available.
JobsHeld ==
    /\ \A w \in ShareWorkers : Holding(w)
    /\ \A k \in DOMAIN intakes : LiveShareJob(intakes[k]) => intakes[k].attempts < MaxShareAttempts
    /\ \A k \in DOMAIN retirements :
           /\ objects[k].state = "AVAILABLE"
           /\ LiveShareJob(retirements[k]) => retirements[k].attempts < MaxShareAttempts
    /\ \A i \in LiveScans : scans[i] < MaxShareAttempts

\* As long as no scan ran out of attempts and no two ran at once, a scan whose process
\* found a successor has one, and once a process has started there is a live scan.
ScanComes ==
    overlap \/ scanExhausted \/
        /\ \A w, v \in ShareWorkers : Does(w, "scan") /\ Does(v, "scan") => w = v
        /\ \A w \in ShareWorkers :
               Does(w, "scan") /\ ~shareWorker[w].successor => LiveScans \ {shareWorker[w].scan} # {}
        /\ \/ LiveScans # {}
           \/ \A w \in ShareWorkers : Does(w, "down") \/ (Does(w, "boot") /\ shareWorker[w].successor)

\* Whoever is about to unlink a path has seen there what the Site has an intact object of,
\* and the path is as it was, empty, or marked.
UnlinksBacked ==
    \A k \in Drops : Unlinking(k) =>
        \/ incoming[k[1]] = NoFile \/ k[1] \in exposed
        \/ SameSource(k) /\ k \in DOMAIN retirements

\* The service removes a file from the share only when the Site has an available object
\* with exactly that content.  The exception: the file was put there after the last look
\* of a request that had not yet unlinked what it saw (complete_incoming).
SourceKept ==
    [][\A p \in Paths : (incoming[p] # NoFile /\ incoming'[p] = NoFile) =>
           \/ objects[<<p, incoming[p]>>] = [state |-> "AVAILABLE", torn |-> FALSE]
           \/ p \in exposed]_shareVars

\* An ingest that is reported done has an available object and a retirement,
\* wherever a worker died and however often the job was run.
IntakeHonest ==
    \A k \in DOMAIN intakes : intakes[k].status = "SUCCEEDED" =>
        objects[k].state = "AVAILABLE" /\ k \in DOMAIN retirements

\* While a process is up and idle there is a scan to come, unless one ran out of
\* attempts or two ran at once and each took the other for its successor.
ScanningGoesOn ==
    (\A w \in ShareWorkers : Does(w, "idle")) =>
        LiveScans # {} \/ overlap \/ scanExhausted

\* The ways in which a file stays in the share for ever: an attempt was broken off
\* with its object begun, a job ran out of attempts, the content was torn, or the
\* same path, size and time had been through here before.
ShareStuck(k) ==
    \/ objects[k].state \in {"STAGING", "FINALIZING", "FAILED"} \/ objects[k].torn
    \/ k \in DOMAIN intakes /\ intakes[k].status = "EXHAUSTED"
    \/ k \in DOMAIN retirements /\ retirements[k].status = "EXHAUSTED"
    \/ k \in again

\* Every file leaves the share or is stuck in a way ShareStuck names, as long as scans
\* are made.
ShareDrains ==
    []<>(overlap \/ scanExhausted \/ \A k \in Drops : ~SourceIs(k) \/ ShareStuck(k))

\* The Incoming share: a finished ingest has its object and its retirement, there is
\* always a scan to come but for the named exceptions, and a path about to be unlinked
\* holds what the Site has, unless a file was put there since (reconcile, ingest,
\* enqueue_retirement, complete_incoming).
ShareSafe ==
    /\ ShareTypeOK
    /\ JobsHeld
    /\ ScanComes
    /\ UnlinksBacked
    /\ IntakeHonest
    /\ ScanningGoesOn

\* A file leaves the share only when the Site has its content, or when it came between
\* the check and the removal of another one, and every file leaves it unless it is stuck
\* in a named way (complete_incoming, retire).
ShareEnds == SourceKept /\ ShareDrains
================================================================================
