----------------------------- MODULE MediaImport -----------------------------
(***************************************************************************)
(* Central's presentation media (ADR-0014, ADR-0015): files are staged by  *)
(* browser uploads and by the SMB intake, analysed and promoted by the     *)
(* Central workers, and confirmed by an operator.                          *)
(*                                                                         *)
(* A Central worker commits its claim BEFORE it works on a media job and   *)
(* settles it in a fresh transaction, so that a lease may run out under a  *)
(* living worker and two workers may hold one job.  The steps below are    *)
(* the transactions of stage, analyze, promote_and_assign, ingest and      *)
(* retire, and the storage calls between them.  A worker and an upload     *)
(* request are both threads, because both run stage().                     *)
(*                                                                         *)
(* A file is abstracted to whether it is completely written under the      *)
(* staging key its record points to; `owner' is the thread that allocated  *)
(* that key.  Names, sizes, hashes, candidates and rankings are left out:  *)
(* a match is one of the two outcomes the matcher has.                     *)
(***************************************************************************)
EXTENDS Naturals, FiniteSets

CONSTANTS
    Imports,        \* idempotency keys of imports
    Smb,            \* the imports found in the SMB Incoming share
    Batch,          \* the files selected for one browser batch
    Sited,          \* the imports with a destination Site
    Presentations,
    Uploads,        \* upload requests
    Target,         \* the import each request is for
    Workers,
    MaxAttempts,    \* ProcessingJob.max_attempts
    Worlds,         \* bounds: what takes part in a behaviour, see World
    None

\* The requests that are sent, the files in the share, the workers, the
\* presentations the operator chooses from, and how many faults (failures, deaths,
\* overrun leases) and operations (cancellations, re-matches, changed sources)
\* there may be.
World == [uploads: SUBSET Uploads, sources: SUBSET Smb, workers: SUBSET Workers,
          presentations: SUBSET Presentations, faults: Nat, ops: Nat]

ASSUME SetsAssumption == /\ Smb \subseteq Imports /\ Sited \subseteq Imports \ Smb
                         /\ Batch \subseteq Imports \ Smb
ASSUME UploadsAssumption == Target \in [Uploads -> Imports \ Smb] /\ Uploads \cap Workers = {}
ASSUME NoneAssumption == None \notin Presentations
ASSUME BoundsAssumption == MaxAttempts \in Nat \ {0} /\ \A m \in Worlds : m \in World

VARIABLES
    rec,        \* PresentationMediaImport rows
    versions,   \* number of versions of each presentation
    assets,     \* the original of each version: <<presentation, number, import>>
    batch,      \* PresentationMediaImportBatch.completed_at is set
    job,        \* ProcessingJob rows
    digest,     \* the retire jobs whose payload has a sha256
    source,     \* files in the Incoming share
    thr,        \* threads: uploads and workers
    world,      \* the world of this behaviour
    faults, ops

queue == <<job, digest>>
library == <<versions, assets>>
bounds == <<world, faults, ops>>
vars == <<rec, versions, assets, batch, job, digest, source, thr, world, faults, ops>>

Threads == Uploads \cup Workers

JobIds == ({"process", "rescan"} \X Imports \X {None})
          \cup ({"promote"} \X Imports \X Presentations)
          \cup ({"ingest", "retire"} \X Smb \X {None})

NoJob == [status |-> "NONE", owner |-> None, live |-> FALSE, attempts |-> 0]
NewJob == [NoJob EXCEPT !.status = "PENDING"]

NoRecord == [state |-> "NONE", match |-> "UNMATCHED", sha |-> FALSE, owner |-> None,
             written |-> FALSE, committed |-> FALSE, pres |-> None, version |-> 0]

Idle == [phase |-> "idle", imp |-> None, job |-> None, read |-> FALSE, key |-> None,
         match |-> "UNMATCHED"]

ImportStates == {"NONE", "UPLOADING", "STAGED", "NEEDS_REVIEW", "ASSIGNED", "FAILED", "CANCELLED"}
MatchStates == {"UNMATCHED", "SUGGESTED", "CONFIRMED"}
Active == {"PENDING", "RETRY_WAIT", "RUNNING"}

StagePhases == {"check", "register", "write", "finish", "recover"}
WorkPhases == {"observe", "retire", "analyze", "analyzed", "unanalyzed", "promote", "repair",
               "commit", "assign", "complete", "fail"}

TypeOK ==
    /\ rec \in [Imports -> [state: ImportStates, match: MatchStates, sha: BOOLEAN,
                            owner: Threads \cup {None}, written: BOOLEAN, committed: BOOLEAN,
                            pres: Presentations \cup {None}, version: Nat]]
    /\ versions \in [Presentations -> Nat]
    /\ assets \subseteq Presentations \X Nat \X Imports
    /\ batch \in BOOLEAN
    /\ job \in [JobIds -> [status: {"NONE", "SUCCEEDED", "EXHAUSTED"} \cup Active,
                           owner: Workers \cup {None}, live: BOOLEAN, attempts: Nat]]
    /\ digest \subseteq Smb
    /\ source \in [Smb -> {"absent", "present", "changed", "removed"}]
    /\ thr \in [Threads -> [phase: {"idle", "done"} \cup StagePhases \cup WorkPhases,
                            imp: Imports \cup {None}, job: JobIds \cup {None}, read: BOOLEAN,
                            key: Threads \cup {None}, match: MatchStates \ {"CONFIRMED"}]]
    /\ world \in Worlds /\ faults \in 0..world.faults /\ ops \in 0..world.ops

Init ==
    /\ world \in Worlds
    /\ rec = [i \in Imports |-> NoRecord]
    /\ versions = [p \in Presentations |-> 0] /\ assets = {}
    /\ batch = FALSE
    /\ job = [j \in JobIds |-> NoJob] /\ digest = {}
    /\ source = [i \in Smb |-> IF i \in world.sources THEN "present" ELSE "absent"]
    /\ thr = [t \in Threads |-> IF t \in world.uploads
                                THEN [Idle EXCEPT !.phase = "check", !.imp = Target[t]]
                                ELSE Idle]
    /\ faults = 0 /\ ops = 0

-----------------------------------------------------------------------------
(* Threads, faults and row locks.                                          *)

Fault == faults < world.faults /\ faults' = faults + 1 /\ UNCHANGED world

Operates == ops < world.ops /\ ops' = ops + 1 /\ UNCHANGED world

At(t, phase) == thr[t].phase = phase

Goto(t, phase) == thr' = [thr EXCEPT ![t].phase = phase]

\* stage() returns or raises: the request is answered, the worker settles its job.
Return(t) == IF t \in Workers THEN "complete" ELSE "done"
Raise(t) == IF t \in Workers THEN "fail" ELSE "done"

\* analyze() holds its FOR UPDATE lock from its read to its commit; a writer of
\* the row waits.
Locked(i) == \E w \in Workers : At(w, "analyzed") /\ thr[w].imp = i

\* The process of a thread is killed: its transaction is rolled back.
Kill(t) ==
    /\ thr[t].phase \in StagePhases \cup WorkPhases
    /\ Fault
    /\ thr' = [thr EXCEPT ![t] = IF t \in Workers THEN Idle ELSE [@ EXCEPT !.phase = "done"]]
    /\ UNCHANGED <<rec, library, batch, queue, source, ops>>

-----------------------------------------------------------------------------
(* stage().                                                                *)

\* The record is read without a lock, before and again after allocate_staging (the
\* second read decides); anything but a FAILED one is returned as it is, with or
\* without a digest.
CheckExisting(t) ==
    /\ At(t, "check")
    /\ LET r == rec[thr[t].imp] IN
       thr' = IF r.state \in {"NONE", "FAILED"}
              THEN [thr EXCEPT ![t].phase = "register", ![t].read = r.state = "FAILED"]
              ELSE [thr EXCEPT ![t].phase = Return(t), ![t].read = r.sha]
    /\ UNCHANGED <<rec, library, batch, queue, source, bounds>>

\* allocate_staging fails.
AllocationFails(t) ==
    /\ At(t, "check")
    /\ rec[thr[t].imp].state \in {"NONE", "FAILED"}
    /\ Fault
    /\ Goto(t, Raise(t))
    /\ UNCHANGED <<rec, library, batch, queue, source, ops>>

\* A record that was seen FAILED is taken over, whatever it is by now; a new one
\* is inserted unless its unique key exists.
Register(t) ==
    LET i == thr[t].imp
        taken == [rec[i] EXCEPT !.state = "UPLOADING", !.owner = t, !.written = FALSE,
                                !.committed = FALSE]
    IN  /\ At(t, "register")
        /\ ~Locked(i)
        /\ \/ /\ thr[t].read \/ rec[i].state = "NONE"
              /\ rec' = [rec EXCEPT ![i] = taken]
              /\ Goto(t, "write")
           \/ /\ ~thr[t].read /\ rec[i].state # "NONE"
              /\ Goto(t, Raise(t))
              /\ UNCHANGED rec
        /\ UNCHANGED <<library, batch, queue, source, bounds>>

\* The bytes of a browser come with the request, those of the intake from the
\* share.
Readable(i) == i \in Smb => source[i] = "present"

write_staging(t) ==
    LET i == thr[t].imp IN
    /\ At(t, "write")
    /\ Readable(i)
    /\ rec' = [rec EXCEPT ![i].written = @ \/ rec[i].owner = t]
    /\ Goto(t, "finish")
    /\ UNCHANGED <<library, batch, queue, source, bounds>>

\* The storage service or the sender fails: the record becomes FAILED, whatever
\* it is by now.
UploadFails(t) ==
    LET i == thr[t].imp IN
    /\ At(t, "write")
    /\ ~Locked(i)
    /\ IF Readable(i) THEN Fault ELSE UNCHANGED <<faults, world>>
    /\ rec' = [rec EXCEPT ![i].state = "FAILED"]
    /\ Goto(t, Raise(t))
    /\ UNCHANGED <<library, batch, queue, source, ops>>

\* STAGED and the processing job are one transaction; a second job of the import
\* violates the unique key.
FinishUpload(t) ==
    LET i == thr[t].imp
        process == <<"process", i, None>>
    IN  /\ At(t, "finish")
        /\ ~Locked(i)
        /\ \/ /\ job[process].status = "NONE"
              /\ rec' = [rec EXCEPT ![i].state = "STAGED", ![i].sha = TRUE]
              /\ job' = [job EXCEPT ![process] = NewJob]
              /\ thr' = [thr EXCEPT ![t].phase = Return(t), ![t].read = TRUE]
              /\ UNCHANGED <<faults, world>>
           \/ /\ job[process].status # "NONE"
              /\ Goto(t, "recover")
              /\ UNCHANGED <<rec, job, faults, world>>
           \/ /\ Fault
              /\ Goto(t, "recover")
              /\ UNCHANGED <<rec, job>>
        /\ UNCHANGED <<library, batch, digest, source, ops>>

\* "Post-upload processing failed; file preserved for review"
RecoverUpload(t) ==
    LET i == thr[t].imp IN
    /\ At(t, "recover")
    /\ ~Locked(i)
    /\ rec' = [rec EXCEPT ![i].state = "NEEDS_REVIEW", ![i].match = "UNMATCHED", ![i].sha = TRUE]
    /\ thr' = [thr EXCEPT ![t].phase = Return(t), ![t].read = TRUE]
    /\ UNCHANGED <<library, batch, queue, source, bounds>>

Stage(t) == CheckExisting(t) \/ AllocationFails(t) \/ Register(t) \/ write_staging(t)
            \/ UploadFails(t) \/ FinishUpload(t) \/ RecoverUpload(t)

-----------------------------------------------------------------------------
(* The queue.                                                              *)

FirstPhase == [process |-> "analyze", rescan |-> "analyze", promote |-> "promote",
               ingest |-> "observe", retire |-> "retire"]

\* Mutant: a job whose worker has died is not claimed again.
Claimable_no_reclaim(j) == job[j].status \in {"PENDING", "RETRY_WAIT"}

Claimable(j) ==
    \/ job[j].status \in {"PENDING", "RETRY_WAIT"}
    \/ job[j].status = "RUNNING" /\ ~job[j].live

\* Which of the due jobs a worker gets is left open: they are ordered by age, but
\* back-offs and skipped locks reorder them.
_claim(w, j) ==
    /\ At(w, "idle")
    /\ Claimable(j)
    /\ job' = [job EXCEPT ![j] = [status |-> "RUNNING", owner |-> w, live |-> TRUE,
                                  attempts |-> @.attempts + 1]]
    /\ thr' = [thr EXCEPT ![w] = [Idle EXCEPT !.phase = FirstPhase[j[1]], !.imp = j[2],
                                              !.job = j]]
    /\ UNCHANGED <<rec, library, batch, digest, source, bounds>>

\* Nothing renews a lease: it runs out under a dead worker, and, as a fault,
\* under a slow one.
LeaseExpires(j) ==
    /\ job[j].status = "RUNNING" /\ job[j].live
    /\ IF thr[job[j].owner].job = j THEN Fault ELSE UNCHANGED <<faults, world>>
    /\ job' = [job EXCEPT ![j].live = FALSE]
    /\ UNCHANGED <<rec, library, batch, digest, source, thr, ops>>

Claims(w) == job[thr[w].job].status = "RUNNING" /\ job[thr[w].job].owner = w

\* Mutant: the retirement is queued before the claim is checked, and kept.
complete_retires_first(w) ==
    LET j == thr[w].job
        retire == <<"retire", j[2], None>>
        done == IF Claims(w) THEN [job EXCEPT ![j].status = "SUCCEEDED", ![j].live = FALSE] ELSE job
    IN  /\ At(w, "complete")
        /\ thr' = [thr EXCEPT ![w] = Idle]
        /\ job' = IF j[1] = "ingest" THEN [done EXCEPT ![retire] = NewJob] ELSE done
        /\ UNCHANGED <<rec, library, batch, digest, source, bounds>>

\* A finished ingest queues the retirement of its source with the digest of the
\* record stage() returned.  A worker that has lost its claim raises, in the
\* except clause too, and its process ends.
complete(w) ==
    LET j == thr[w].job
        retire == <<"retire", j[2], None>>
        done == [job EXCEPT ![j].status = "SUCCEEDED", ![j].live = FALSE]
    IN  /\ At(w, "complete")
        /\ \/ /\ j[1] = "ingest" /\ job[retire].status # "NONE"
              /\ Goto(w, "fail")
              /\ UNCHANGED queue
           \/ /\ j[1] = "ingest" => job[retire].status = "NONE"
              /\ thr' = [thr EXCEPT ![w] = Idle]
              /\ IF ~Claims(w) THEN UNCHANGED queue
                 ELSE IF j[1] = "ingest"
                      THEN /\ job' = [done EXCEPT ![retire] = NewJob]
                           /\ digest' = IF thr[w].read THEN digest \cup {j[2]} ELSE digest
                      ELSE job' = done /\ UNCHANGED digest
        /\ UNCHANGED <<rec, library, batch, source, bounds>>

fail(w) ==
    LET j == thr[w].job
        status == IF job[j].attempts < MaxAttempts THEN "RETRY_WAIT" ELSE "EXHAUSTED"
    IN  /\ At(w, "fail")
        /\ job' = IF Claims(w)
                  THEN [job EXCEPT ![j] = [@ EXCEPT !.status = status, !.owner = None,
                                                    !.live = FALSE]]
                  ELSE job
        /\ thr' = [thr EXCEPT ![w] = Idle]
        /\ UNCHANGED <<rec, library, batch, digest, source, bounds>>

-----------------------------------------------------------------------------
(* analyze().                                                              *)

\* Mutant: the import that is being analysed counts as active.
Accounted_with_itself(i) ==
    /\ i \in Batch
    /\ \A k \in Batch : rec[k].state \notin {"NONE", "UPLOADING", "STAGED"}

\* _complete_batch_if_accounted, for an import that is no longer active itself.
Accounted(i) ==
    /\ i \in Batch
    /\ \A k \in Batch \ {i} : rec[k].state \notin {"NONE", "UPLOADING", "STAGED"}

\* Mutant: the state of the record is not looked at.
Analyze_any_state(w) ==
    LET i == thr[w].imp IN
    /\ At(w, "analyze")
    /\ ~Locked(i)
    /\ thr' = [thr EXCEPT ![w].phase = "analyzed", ![w].read = Accounted(i)]
    /\ UNCHANGED <<rec, library, batch, queue, source, bounds>>

\* The row is locked, matched and flushed, and the batch counted.
Analyze(w) ==
    LET i == thr[w].imp IN
    /\ At(w, "analyze")
    /\ ~Locked(i)
    /\ IF rec[i].state \in {"STAGED", "NEEDS_REVIEW"}
       THEN \E match \in {"UNMATCHED", "SUGGESTED"} :
                thr' = [thr EXCEPT ![w].phase = "analyzed", ![w].match = match,
                                   ![w].read = Accounted(i)]
       ELSE Goto(w, "complete")
    /\ UNCHANGED <<rec, library, batch, queue, source, bounds>>

AnalyzeCommits(w) ==
    LET i == thr[w].imp IN
    /\ At(w, "analyzed")
    /\ rec' = [rec EXCEPT ![i].state = "NEEDS_REVIEW", ![i].match = thr[w].match]
    /\ batch' = (batch \/ thr[w].read)
    /\ Goto(w, "complete")
    /\ UNCHANGED <<library, queue, source, bounds>>

AnalyzeRaises(w) ==
    /\ thr[w].phase \in {"analyze", "analyzed"}
    /\ Fault
    /\ Goto(w, "unanalyzed")
    /\ UNCHANGED <<rec, library, batch, queue, source, ops>>

\* "Analysis failed; staged media is preserved for review": a new transaction
\* that does not look at the state the record has by now.
AnalysisFailed(w) ==
    LET i == thr[w].imp IN
    /\ At(w, "unanalyzed")
    /\ ~Locked(i)
    /\ rec' = [rec EXCEPT ![i].state = "NEEDS_REVIEW", ![i].match = "UNMATCHED"]
    /\ batch' = (batch \/ Accounted(i))
    /\ Goto(w, "fail")
    /\ UNCHANGED <<library, queue, source, bounds>>

-----------------------------------------------------------------------------
(* promote_and_assign().                                                   *)

\* The unlocked read that decides what is promoted.
ReadForPromotion(w) ==
    LET r == rec[thr[w].imp] IN
    /\ At(w, "promote")
    /\ thr' = [thr EXCEPT ![w].phase = IF r.match = "CONFIRMED"
                                       THEN IF r.pres = thr[w].job[3] THEN "repair" ELSE "fail"
                                       ELSE IF r.sha THEN "commit" ELSE "fail",
                          ![w].key = r.owner, ![w].read = r.written]
    /\ UNCHANGED <<rec, library, batch, queue, source, bounds>>

\* The storage service publishes the staged file when it is all there.
CommitStaged(w) ==
    LET r == rec[thr[w].imp]
        complete_file == thr[w].read \/ (r.owner = thr[w].key /\ r.written)
    IN  /\ At(w, "commit")
        /\ \/ /\ complete_file
              /\ Goto(w, "assign")
              /\ UNCHANGED <<faults, world>>
           \/ /\ ~complete_file
              /\ Goto(w, "fail")
              /\ UNCHANGED <<faults, world>>
           \/ Fault /\ Goto(w, "fail")
        /\ UNCHANGED <<rec, library, batch, queue, source, ops>>

\* assign: a version that some import uses is not used again.  The presentation
\* row is locked, so that the choice and the insertion are one step.
VersionFor(p) ==
    LET latest == versions[p] IN
    IF latest = 0 \/ \E k \in Imports : rec[k].pres = p /\ rec[k].version = latest
                                        /\ rec[k].state # "CANCELLED"
    THEN latest + 1
    ELSE latest

\* ensure_confirmed_original_asset wants the record ASSIGNED, which assign makes
\* TRANSFER_QUEUED for an import with a destination, and a version without
\* another original.
Linkable(i, p, n) == i \notin Sited /\ \A a \in assets : a[1] = p /\ a[2] = n => a[3] = i

\* Mutant: the version is assigned without its original.
Assign_without_asset(w) ==
    LET i == thr[w].imp
        p == thr[w].job[3]
        n == VersionFor(p)
    IN  /\ At(w, "assign")
        /\ ~Locked(i)
        /\ rec' = [rec EXCEPT ![i].state = "ASSIGNED", ![i].match = "CONFIRMED",
                              ![i].committed = TRUE, ![i].pres = p, ![i].version = n]
        /\ versions' = [versions EXCEPT ![p] = n]
        /\ Goto(w, "complete")
        /\ UNCHANGED <<assets, batch, queue, source, bounds>>

\* Mutant: a link that cannot be made is passed over.
Assign_ignores_conflict(w) ==
    LET i == thr[w].imp
        p == thr[w].job[3]
        n == VersionFor(p)
    IN  /\ At(w, "assign")
        /\ ~Locked(i)
        /\ rec' = IF rec[i].match # "CONFIRMED" /\ Linkable(i, p, n)
                  THEN [rec EXCEPT ![i].match = "CONFIRMED", ![i].pres = p, ![i].version = n]
                  ELSE rec
        /\ Goto(w, "complete")
        /\ UNCHANGED <<library, batch, queue, source, bounds>>

\* The state is not looked at: a cancelled or failed import is assigned too.
Assign(w) ==
    LET i == thr[w].imp
        p == thr[w].job[3]
        n == VersionFor(p)
    IN  /\ At(w, "assign")
        /\ ~Locked(i)
        /\ \/ /\ rec[i].match = "CONFIRMED"
              /\ Goto(w, "complete")
              /\ UNCHANGED <<rec, library>>
           \/ /\ rec[i].match # "CONFIRMED" /\ Linkable(i, p, n)
              /\ rec' = [rec EXCEPT ![i].state = "ASSIGNED", ![i].match = "CONFIRMED",
                                    ![i].committed = TRUE, ![i].pres = p, ![i].version = n]
              /\ versions' = [versions EXCEPT ![p] = n]
              /\ assets' = assets \cup {<<p, n, i>>}
              /\ Goto(w, "complete")
           \/ /\ rec[i].match # "CONFIRMED" /\ ~Linkable(i, p, n)
              /\ Goto(w, "fail")
              /\ UNCHANGED <<rec, library>>
        /\ UNCHANGED <<batch, queue, source, bounds>>

\* A repeated promotion to the same presentation checks the link again.
Repair(w) ==
    LET r == rec[thr[w].imp] IN
    /\ At(w, "repair")
    /\ ~Locked(thr[w].imp)
    /\ Goto(w, IF r.match = "CONFIRMED" /\ r.state = "ASSIGNED" /\ r.committed
               THEN "complete" ELSE "fail")
    /\ UNCHANGED <<rec, library, batch, queue, source, bounds>>

-----------------------------------------------------------------------------
(* The SMB intake.                                                         *)

\* A scan finds a stable file with no ingest job under its identity.
reconcile(i) ==
    /\ source[i] = "present"
    /\ job[<<"ingest", i, None>>].status = "NONE"
    /\ job' = [job EXCEPT ![<<"ingest", i, None>>] = NewJob]
    /\ UNCHANGED <<rec, library, batch, digest, source, thr, bounds>>

\* The second observation; then stage() in the worker.
ingest(w) ==
    /\ At(w, "observe")
    /\ Goto(w, IF source[thr[w].imp] = "present" THEN "check" ELSE "fail")
    /\ UNCHANGED <<rec, library, batch, queue, source, bounds>>

\* complete_incoming removes the file it was told about; a digest, when there is
\* one, is compared with the file, which still has its identity.
retire(w) ==
    LET i == thr[w].imp IN
    /\ At(w, "retire")
    /\ \/ /\ source' = [source EXCEPT ![i] = IF @ = "present" THEN "removed" ELSE @]
          /\ Goto(w, "complete")
          /\ UNCHANGED <<faults, world>>
       \/ /\ Fault
          /\ Goto(w, "fail")
          /\ UNCHANGED source
    /\ UNCHANGED <<rec, library, batch, queue, ops>>

\* Somebody saves over the file: it has another identity from now on.
SourceChanges(i) ==
    /\ source[i] = "present"
    /\ Operates
    /\ source' = [source EXCEPT ![i] = "changed"]
    /\ UNCHANGED <<rec, library, batch, queue, thr, faults>>

-----------------------------------------------------------------------------
(* The operator.                                                           *)

\* queue_promotion, from the assignment and the confirmations endpoint; a job
\* that exists, in whatever status, is enough.
queue_promotion(i, p) ==
    LET j == <<"promote", i, p>> IN
    /\ ~Locked(i)
    /\ rec[i].sha /\ rec[i].match # "CONFIRMED"
    /\ job[j].status = "NONE"
    /\ job' = [job EXCEPT ![j] = NewJob]
    /\ UNCHANGED <<rec, library, batch, digest, source, thr, bounds>>

\* An unconfirmed import is matched again, whatever its state.
refresh_match(i) ==
    /\ ~Locked(i)
    /\ rec[i].state # "NONE" /\ rec[i].match # "CONFIRMED" /\ rec[i].pres = None
    /\ Operates
    /\ \E match \in {"UNMATCHED", "SUGGESTED"} :
           rec' = [rec EXCEPT ![i].match = match, ![i].state = "NEEDS_REVIEW"]
    /\ UNCHANGED <<library, batch, queue, source, thr, faults>>

Unresolved(i) == rec[i].state = "NEEDS_REVIEW" /\ rec[i].match # "CONFIRMED" /\ rec[i].pres = None

rescan_unmatched ==
    /\ \A i \in Imports : job[<<"rescan", i, None>>].status \notin Active
    /\ \E i \in Imports : Unresolved(i)
    /\ Operates
    /\ job' = [j \in JobIds |-> IF j[1] = "rescan" /\ Unresolved(j[2]) THEN NewJob ELSE job[j]]
    /\ UNCHANGED <<rec, library, batch, digest, source, thr, faults>>

cancel(i) ==
    /\ ~Locked(i)
    /\ rec[i].state \notin {"NONE", "CANCELLED"} /\ rec[i].pres = None
    /\ Operates
    /\ rec' = [rec EXCEPT ![i].state = "CANCELLED"]
    /\ UNCHANGED <<library, batch, queue, source, thr, faults>>

-----------------------------------------------------------------------------
Handler(w) == ingest(w) \/ retire(w) \/ Analyze(w) \/ AnalyzeCommits(w) \/ AnalyzeRaises(w)
              \/ AnalysisFailed(w) \/ ReadForPromotion(w) \/ CommitStaged(w) \/ Assign(w)
              \/ Repair(w) \/ complete(w) \/ fail(w)

Work(w) == Stage(w) \/ Handler(w) \/ \E j \in JobIds : _claim(w, j)

Operator == \/ rescan_unmatched
            \/ \E i \in Imports : refresh_match(i) \/ cancel(i)
            \/ \E i \in Imports, p \in world.presentations : queue_promotion(i, p)

Next == \/ \E t \in world.uploads : Stage(t)
        \/ \E w \in world.workers : Work(w)
        \/ \E t \in Threads : Kill(t)
        \/ \E j \in JobIds : LeaseExpires(j)
        \/ \E i \in Smb : reconcile(i) \/ SourceChanges(i)
        \/ Operator

Spec == Init /\ [][Next]_vars

\* Requests are served, workers are restarted and poll for ever, the scan job
\* queues its successor, and time passes.
FairSpec ==
    /\ Spec
    /\ \A t \in Uploads : WF_vars(Stage(t))
    /\ \A w \in Workers : WF_vars(Work(w))
    /\ \A j \in JobIds : WF_vars(LeaseExpires(j))
    /\ \A i \in Smb : WF_vars(reconcile(i))

-----------------------------------------------------------------------------
(* Properties.                                                             *)

\* Two imports never share a version, and a version's original is the import
\* that was confirmed to it: whatever was promoted at the same time or undone.
OneOriginalEach ==
    \A i \in Imports :
        rec[i].match = "CONFIRMED" =>
            /\ <<rec[i].pres, rec[i].version, i>> \in assets
            /\ \A a \in assets : a[1] = rec[i].pres /\ a[2] = rec[i].version => a[3] = i

Confirmed(i) == rec[i].match = "CONFIRMED" /\ rec[i].state = "ASSIGNED" /\ rec[i].committed

\* ADR-0014: re-running the matching "never changes a confirmed assignment".
\* The only steps that can are a belated failure handler of an analysis that
\* was repeated by another worker, and the rest of a second upload.
ConfirmedStays ==
    [][\A i \in Imports : Confirmed(i) =>
            \/ Confirmed(i)'
            \/ \E t \in Threads : /\ thr[t].phase \in StagePhases \cup {"unanalyzed"}
                                 /\ thr[t].imp = i /\ thr'[t] # thr[t]]_vars

\* A promotion that succeeded has left its import with a presentation, and the
\* presentation with a version.
SucceededIsAssigned ==
    \A j \in JobIds :
        j[1] = "promote" /\ job[j].status = "SUCCEEDED" =>
            rec[j[2]].pres # None /\ versions[rec[j[2]].pres] > 0

\* A source is removed only when its ingest has succeeded, though two workers may
\* run one ingest and each queues the retirement in the transaction that
\* completes it.
RetiredWasIngested ==
    \A i \in Smb : source[i] = "removed" => job[<<"ingest", i, None>>].status = "SUCCEEDED"

\* Every job ends, though leases run out, workers die and claims are lost: the
\* operator stops asking in the end.
JobsDrain == <>[](\A j \in JobIds : job[j].status \notin Active)

\* Two analyses overlap: each counts the other's import as active.
Overlap == \E v, w \in Workers : v # w /\ At(v, "analyzed") /\ At(w, "analyzed")

\* A promotion overtakes the analysis, which then finds nothing to do.
Overtaken == \E i \in Batch : rec[i].state = "ASSIGNED" /\ job[<<"process", i, None>>].status \in Active

AllSent == \A i \in Batch : \E u \in world.uploads : Target[u] = i

\* Without faults and cancellations a batch is completed, save for the two races
\* in which nobody is left to count it.
BatchCompletes == [](AllSent /\ faults = 0 /\ ops = 0 /\ ~Overlap /\ ~Overtaken) => <>batch

\* "retain failed sources for retry": no source is removed unless its bytes are
\* completely staged.
SourceNotLost == \A i \in Smb : source[i] = "removed" => rec[i].written

\* The phases a job of each kind takes a worker through.
PhasesOf == [process |-> {"analyze", "analyzed", "unanalyzed", "complete", "fail"},
             rescan |-> {"analyze", "analyzed", "unanalyzed", "complete", "fail"},
             promote |-> {"promote", "repair", "commit", "assign", "complete", "fail"},
             ingest |-> {"observe", "complete", "fail"} \cup StagePhases,
             retire |-> {"retire", "complete", "fail"}]

\* A worker is about the import of its job, which was queued, and a request
\* about its own.
ThreadsFit ==
    /\ \A w \in Workers : ~At(w, "idle") =>
           /\ thr[w].job \in JobIds /\ job[thr[w].job].status # "NONE"
           /\ thr[w].imp = thr[w].job[2] /\ thr[w].phase \in PhasesOf[thr[w].job[1]]
    /\ \A t \in Uploads :
           /\ thr[t].phase \in {"idle", "done"} \cup StagePhases
           /\ thr[t].phase \in StagePhases => thr[t].imp = Target[t]

\* What is being analysed waits for review: the row lock keeps it so.
AnalysisHolds ==
    \A w \in Workers : At(w, "analyzed") => rec[thr[w].imp].state \in {"STAGED", "NEEDS_REVIEW"}

\* An import that was assigned stays with its presentation, which has a version, and a
\* promotion is complete only with such an import.
PromotionsAssign ==
    /\ \A i \in Imports : rec[i].pres # None => versions[rec[i].pres] > 0
    /\ \A w \in Workers : At(w, "complete") /\ thr[w].job[1] = "promote" => rec[thr[w].imp].pres # None

\* A retirement is queued with the success of its ingest.
RetirementsFollow ==
    \A i \in Smb : job[<<"retire", i, None>>].status # "NONE" => job[<<"ingest", i, None>>].status = "SUCCEEDED"

\* What the threads keep true, and why the above hold.
ImportsCoherent ==
    /\ ThreadsFit
    /\ AnalysisHolds
    /\ PromotionsAssign
    /\ RetirementsFollow

\* Imports of media at Central: a presentation version has one original, a promotion
\* that reports success has assigned its file, and a source that was given up was
\* ingested (promote_and_assign, ingest, complete).
ImportsHonest ==
    /\ TypeOK
    /\ ImportsCoherent
    /\ OneOriginalEach
    /\ SucceededIsAssigned
    /\ RetiredWasIngested

\* The jobs come to an end, and a batch is completed once its files are accounted for.
ImportsEnd == JobsDrain /\ BatchCompletes
=============================================================================
