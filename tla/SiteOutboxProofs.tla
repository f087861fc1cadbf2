-------------------------- MODULE SiteOutboxProofs --------------------------
(***************************************************************************)
(* Proofs about SiteOutbox, for every number of workers, slots, events,    *)
(* attempts, credentials and faults.                                       *)
(***************************************************************************)
EXTENDS SiteOutbox, TLAPS

-----------------------------------------------------------------------------
(* Type correctness *)

Replies == {"none", "ok", "http_401", "http_500"}

\* An empty slot is a request.
LEMMA FreeSlotType == FreeSlot \in Request
<1>1. 0 \in 0..MaxTokens /\ 0 \in 0..MaxEvents
  BY ConstantsAssumption
<1> QED
  BY <1>1 DEF FreeSlot, Request

\* apply_site_event's verdict on one event leaves a request a request.
LEMMA DecideType ==
    ASSUME NEW r \in Request, NEW e \in Events, NEW last \in 0..MaxEvents
    PROVE  Decide(r, e, last) \in Request
<1> DEFINE apply == e = last + 1 /\ e \notin Rejected
<1>1. /\ r.todo \ {e} \in SUBSET Events
      /\ (IF apply THEN r.accepted \cup {e} ELSE r.accepted) \in SUBSET Events
      /\ (IF e # last + 1 THEN r.gaps \cup {e} ELSE r.gaps) \in SUBSET Events
  BY DEF Request
<1>2. (IF apply THEN e ELSE last) \in 0..MaxEvents
  BY DEF Events
<1> QED
  BY <1>1, <1>2 DEF Decide, Request

\* The end of a handler keeps the slots typed.
LEMMA FinishType ==
    ASSUME req \in [Slots -> Request], NEW s \in Slots, NEW reply \in Replies,
           Finish(s, reply)
    PROVE  req' \in [Slots -> Request]
<1>1. [req[s] EXCEPT !.phase = "done", !.reply = reply] \in Request
  BY DEF Request, Replies
<1> QED
  BY <1>1, FreeSlotType DEF Finish

\* So does the delivery of an answer.
LEMMA DetachType ==
    ASSUME req \in [Slots -> Request], NEW s \in Slots, Detach(s)
    PROVE  req' \in [Slots -> Request]
<1>1. [req[s] EXCEPT !.client = NoWorker] \in Request
  BY DEF Request
<1> QED
  BY <1>1, FreeSlotType DEF Detach

\* Settling outbox rows keeps the row columns typed.
LEMMA SettleType ==
    ASSUME TypeOK, NEW ok, NEW retry, NEW fatal, Settle(ok, retry, fatal)
    PROVE  /\ status' \in [Events -> Statuses]
           /\ owner' \in [Events -> Workers \cup {NoWorker}]
           /\ due' \in [Events -> BOOLEAN]
           /\ expired' \in [Events -> BOOLEAN]
<1>1. \A e \in Events : \A b \in BOOLEAN : FailedStatus(e, b) \in Statuses
  BY DEF FailedStatus, Statuses
<1>2. status' \in [Events -> Statuses]
  BY <1>1 DEF Settle, TypeOK, Statuses
<1>3. owner' \in [Events -> Workers \cup {NoWorker}]
  BY DEF Settle, TypeOK
<1>4. due' \in [Events -> BOOLEAN] /\ expired' \in [Events -> BOOLEAN]
  BY DEF Settle, TypeOK
<1> QED
  BY <1>2, <1>3, <1>4

\* Failing a batch does too.
LEMMA FailBatchType ==
    ASSUME TypeOK, NEW w \in Workers, NEW retryable \in BOOLEAN, FailBatch(w, retryable)
    PROVE  /\ status' \in [Events -> Statuses]
           /\ owner' \in [Events -> Workers \cup {NoWorker}]
           /\ due' \in [Events -> BOOLEAN]
           /\ expired' \in [Events -> BOOLEAN]
<1> DEFINE running == {e \in held[w] : status[e] = "RUNNING"}
<1>1. CASE Owns(w, running)
  <2>1. Settle({}, IF retryable THEN running ELSE {}, IF retryable THEN {} ELSE running)
    BY <1>1 DEF FailBatch
  <2> QED
    BY <2>1, SettleType
<1>2. CASE ~Owns(w, running)
  <2>1. UNCHANGED <<status, owner, due, expired>>
    BY <1>2 DEF FailBatch
  <2> QED
    BY <2>1 DEF TypeOK
<1> QED
  BY <1>1, <1>2

\* A fault is counted within its bound.
LEMMA FaultType ==
    ASSUME faults \in 0..MaxFaults, Fault
    PROVE  faults' \in 0..MaxFaults
BY ConstantsAssumption DEF Fault

\* The receipts a transaction inserts are events.
LEMMA InsertedType ==
    ASSUME NEW r \in Request
    PROVE  Inserted(r) \in SUBSET Events
<1>1. r.base \in 0..MaxEvents /\ r.last \in 0..MaxEvents
  BY DEF Request
<1> QED
  BY <1>1, ConstantsAssumption DEF Inserted, Events

\* The outbox is empty and nothing is in flight at the start.
LEMMA InitType == Init => TypeOK
<1>1. SUFFICES ASSUME Init PROVE TypeOK
  OBVIOUS
<1>2. /\ 1 \in 1..(MaxEvents + 1) /\ 0 \in 0..MaxAttempts /\ 1 \in 0..MaxTokens
      /\ 0 \in 0..MaxEvents /\ 1 \in 1..MaxTokens /\ 0 \in 0..MaxFaults
  BY ConstantsAssumption
<1>3. req \in [Slots -> Request]
  BY <1>1, FreeSlotType DEF Init
<1> QED
  BY <1>1, <1>2, <1>3 DEF Init, TypeOK, Statuses

\* Steps of a Site worker keep the types.
LEMMA SiteStepType ==
    ASSUME TypeOK, NEW w \in Workers, SiteStep(w)
    PROVE  TypeOK'
<1>1. ASSUME NEW s \in Slots, Deliver(w, s) PROVE TypeOK'
  <2>1. PICK B \in SUBSET Claimable :
            /\ claim_outbox(w, B)
            /\ held' = [held EXCEPT ![w] = B]
            /\ req' = [req EXCEPT ![s] =
                         [FreeSlot EXCEPT !.phase = "received", !.client = w,
                            !.token = token, !.batch = B, !.todo = B]]
    BY <1>1 DEF Deliver
  <2>2. B \in SUBSET Events
    BY DEF Claimable
  <2>3. [FreeSlot EXCEPT !.phase = "received", !.client = w,
            !.token = token, !.batch = B, !.todo = B] \in Request
    BY <2>2, FreeSlotType DEF Request, TypeOK
  <2>4. /\ req' \in [Slots -> Request]
        /\ held' \in [Workers -> SUBSET Events]
    BY <2>1, <2>2, <2>3 DEF TypeOK
  <2>5. status' \in [Events -> Statuses]
    BY <2>1 DEF claim_outbox, TypeOK, Statuses
  <2>6. owner' \in [Events -> Workers \cup {NoWorker}]
    BY <2>1 DEF claim_outbox, TypeOK
  <2>7. expired' \in [Events -> BOOLEAN]
    BY <2>1 DEF claim_outbox, TypeOK
  <2>8. attempts' \in [Events -> 0..MaxAttempts]
    BY <2>1, ConstantsAssumption DEF claim_outbox, TypeOK
  <2> QED
    BY <1>1, <2>4, <2>5, <2>6, <2>7, <2>8 DEF Deliver, TypeOK, enrollVars, centralVars
<1>2. ASSUME NEW s \in Slots, HandleAcks(w, s) PROVE TypeOK'
  <2>1. /\ status' \in [Events -> Statuses]
        /\ owner' \in [Events -> Workers \cup {NoWorker}]
        /\ due' \in [Events -> BOOLEAN]
        /\ expired' \in [Events -> BOOLEAN]
    <3> DEFINE ok == held[w] \cap req[s].accepted
               retry == held[w] \cap req[s].gaps
    <3>1. CASE Owns(w, held[w])
      <4>1. Settle(ok, retry, held[w] \ (ok \cup retry))
        BY <1>2, <3>1 DEF HandleAcks
      <4> QED
        BY <4>1, SettleType
    <3>2. CASE ~Owns(w, held[w])
      <4>1. UNCHANGED <<status, owner, due, expired>>
        BY <1>2, <3>2 DEF HandleAcks
      <4> QED
        BY <4>1 DEF TypeOK
    <3> QED
      BY <3>1, <3>2
  <2>2. req' \in [Slots -> Request]
    BY <1>2, DetachType DEF HandleAcks, TypeOK
  <2>3. held' \in [Workers -> SUBSET Events]
    BY <1>2 DEF HandleAcks, TypeOK
  <2> QED
    BY <1>2, <2>1, <2>2, <2>3 DEF HandleAcks, TypeOK, enrollVars, centralVars
<1>3. ASSUME NEW s \in Slots, HandleHttpError(w, s) PROVE TypeOK'
  <2>1. req' \in [Slots -> Request]
    BY <1>3, DetachType DEF HandleHttpError, TypeOK
  <2>2. held' \in [Workers -> SUBSET Events] /\ registration' \in {"ACTIVE", "REVOKED"}
    BY <1>3 DEF HandleHttpError, TypeOK
  <2>3. (req[s].reply = "http_500") \in BOOLEAN /\ FailBatch(w, req[s].reply = "http_500")
    BY <1>3 DEF HandleHttpError
  <2> HIDE DEF FailBatch
  <2> QED
    BY <1>3, <2>1, <2>2, <2>3, FailBatchType DEF HandleHttpError, TypeOK, centralVars
<1>4. ASSUME NEW s \in Slots, Timeout(w, s) PROVE TypeOK'
  <2>1. req' \in [Slots -> Request] /\ faults' \in 0..MaxFaults
    BY <1>4, DetachType, FaultType DEF Timeout, TypeOK
  <2>2. held' \in [Workers -> SUBSET Events]
    BY <1>4 DEF Timeout, TypeOK
  <2> QED
    BY <1>4, <2>1, <2>2, FailBatchType DEF Timeout, TypeOK, enrollVars, centralVars
<1>5. ASSUME ConnectionError(w) PROVE TypeOK'
  <2>1. held' \in [Workers -> SUBSET Events]
    BY <1>5 DEF ConnectionError, TypeOK
  <2> QED
    BY <1>5, <2>1, FailBatchType DEF ConnectionError, TypeOK, enrollVars, centralVars
<1>6. ASSUME WorkerCrash(w) PROVE TypeOK'
  <2>1. \A s \in Slots : [req[s] EXCEPT !.client = NoWorker] \in Request
    BY DEF Request, TypeOK
  <2>2. req' \in [Slots -> Request]
    BY <1>6, <2>1, FreeSlotType DEF WorkerCrash, TypeOK
  <2>3. held' \in [Workers -> SUBSET Events] /\ owner' \in [Events -> Workers \cup {NoWorker}]
    BY <1>6 DEF WorkerCrash, TypeOK
  <2>4. faults' \in 0..MaxFaults
    BY <1>6, FaultType DEF WorkerCrash, TypeOK
  <2> QED
    BY <1>6, <2>2, <2>3, <2>4 DEF WorkerCrash, TypeOK, enrollVars, centralVars
<1> QED
  BY <1>1, <1>2, <1>3, <1>4, <1>5, <1>6 DEF SiteStep

\* Steps of a Central handler keep the types.
LEMMA HandlerStepType ==
    ASSUME TypeOK, NEW s \in Slots, HandlerStep(s)
    PROVE  TypeOK'
<1> USE DEF Replies
<1>0. req[s] \in Request
  BY DEF TypeOK
<1>1. CASE authenticate_site(s)
  <2>1. [req[s] EXCEPT !.phase = "applying"] \in Request
    BY <1>0 DEF Request
  <2>2. req' \in [Slots -> Request]
    BY <1>1, <2>1, FinishType DEF authenticate_site, TypeOK
  <2> QED
    BY <1>1, <2>2 DEF authenticate_site, TypeOK, siteVars, enrollVars, centralVars
<1>2. CASE CheckReceipt(s)
  <2>1. CASE UniqueViolation(req[s])
    <3>1. req' \in [Slots -> Request]
      BY <1>2, <2>1, FinishType DEF CheckReceipt, TypeOK
    <3> QED
      BY <1>2, <3>1 DEF CheckReceipt, TypeOK, siteVars, enrollVars, centralVars
  <2>2. CASE ~UniqueViolation(req[s])
    <3>1. PICK e \in Current(req[s]) :
             req' = [req EXCEPT ![s] =
                IF e \in receipts \cup Inserted(req[s])
                THEN [req[s] EXCEPT !.todo = @ \ {e}, !.accepted = @ \cup {e}]
                ELSE IF req[s].loaded THEN Decide(req[s], e, req[s].last)
                ELSE [req[s] EXCEPT !.seen = TRUE]]
      BY <1>2, <2>2 DEF CheckReceipt
    <3>2. e \in Events /\ req[s].last \in 0..MaxEvents
      BY <1>0 DEF Current, Request
    <3>3. [req[s] EXCEPT !.todo = @ \ {e}, !.accepted = @ \cup {e}] \in Request
      BY <1>0, <3>2 DEF Request
    <3>4. [req[s] EXCEPT !.seen = TRUE] \in Request
      BY <1>0 DEF Request
    <3>5. Decide(req[s], e, req[s].last) \in Request
      BY <1>0, <3>2, DecideType
    <3>6. req' \in [Slots -> Request]
      BY <3>1, <3>3, <3>4, <3>5 DEF TypeOK
    <3> QED
      BY <1>2, <3>6 DEF CheckReceipt, TypeOK, siteVars, enrollVars, centralVars
  <2> QED
    BY <2>1, <2>2
<1>3. CASE ReadCursor(s)
  <2> DEFINE r == [req[s] EXCEPT !.loaded = TRUE, !.base = cursor]
  <2>1. PICK e \in Current(req[s]) : req' = [req EXCEPT ![s] = Decide(r, e, cursor)]
    BY <1>3 DEF ReadCursor
  <2>2. e \in Events /\ cursor \in 0..MaxEvents
    BY <1>0 DEF Current, Request, TypeOK
  <2>3. r \in Request
    BY <1>0, <2>2 DEF Request
  <2> HIDE DEF r
  <2>4. Decide(r, e, cursor) \in Request
    BY <2>2, <2>3, DecideType
  <2>5. req' \in [Slots -> Request]
    BY <2>1, <2>4 DEF TypeOK
  <2> QED
    BY <1>3, <2>5 DEF ReadCursor, TypeOK, siteVars, enrollVars, centralVars
<1>4. CASE Respond(s)
  <2>1. [req[s] EXCEPT !.reply = "ok"] \in Request
    BY <1>0 DEF Request
  <2>2. req' \in [Slots -> Request]
    BY <1>4, <2>1 DEF Respond, TypeOK
  <2> QED
    BY <1>4, <2>2 DEF Respond, TypeOK, siteVars, enrollVars, centralVars
<1>5. CASE Commit(s)
  <2>1. CASE UniqueViolation(req[s])
    <3>1. Finish(s, "ok") /\ UNCHANGED centralVars
      BY <1>5, <2>1 DEF Commit, centralVars
    <3>2. req' \in [Slots -> Request]
      BY <3>1, FinishType DEF TypeOK
    <3> QED
      BY <1>5, <3>1, <3>2 DEF Commit, TypeOK, siteVars, enrollVars, centralVars
  <2>2. CASE ~UniqueViolation(req[s])
    <3>1. req' \in [Slots -> Request]
      BY <1>5, <2>2, FinishType DEF Commit, TypeOK
    <3>2. receipts' \in SUBSET Events
      BY <1>0, <1>5, <2>2, InsertedType DEF Commit, TypeOK
    <3>3. cursor' \in 0..MaxEvents
      BY <1>0, <1>5, <2>2 DEF Commit, TypeOK, Request
    <3> QED
      BY <1>5, <3>1, <3>2, <3>3 DEF Commit, TypeOK, siteVars, enrollVars
  <2> QED
    BY <2>1, <2>2
<1> QED
  BY <1>1, <1>2, <1>3, <1>4, <1>5 DEF HandlerStep

\* The remaining steps keep the types.
LEMMA OtherStepType ==
    ASSUME TypeOK,
           \/ enqueue_outbox
           \/ \E s \in Slots : Drop(s) \/ CommitFails(s)
           \/ \E e \in Events : LeaseExpires(e) \/ BackoffElapses(e)
           \/ retry_failed_sync
           \/ Revoke
           \/ Reenroll
    PROVE  TypeOK'
<1>1. CASE enqueue_outbox
  <2>1. next' \in 1..(MaxEvents + 1) /\ next \in Events
    BY <1>1, ConstantsAssumption DEF enqueue_outbox, TypeOK, Events
  <2>2. status' \in [Events -> Statuses] /\ due' \in [Events -> BOOLEAN]
    BY <1>1, <2>1 DEF enqueue_outbox, TypeOK, Statuses
  <2> QED
    BY <1>1, <2>1, <2>2 DEF enqueue_outbox, TypeOK, enrollVars, centralVars
<1>2. ASSUME NEW s \in Slots, Drop(s) PROVE TypeOK'
  <2>1. req' \in [Slots -> Request] /\ faults' \in 0..MaxFaults
    BY <1>2, FreeSlotType, FaultType DEF Drop, TypeOK
  <2> QED
    BY <1>2, <2>1 DEF Drop, TypeOK, siteVars, enrollVars, centralVars
<1>3. ASSUME NEW e \in Events, LeaseExpires(e) PROVE TypeOK'
  <2>1. faults' \in 0..MaxFaults
    BY <1>3, FaultType DEF LeaseExpires, TypeOK
  <2>2. expired' \in [Events -> BOOLEAN]
    BY <1>3 DEF LeaseExpires, TypeOK
  <2> QED
    BY <1>3, <2>1, <2>2 DEF LeaseExpires, TypeOK, enrollVars, centralVars
<1>4. ASSUME NEW e \in Events, BackoffElapses(e) PROVE TypeOK'
  <2>1. due' \in [Events -> BOOLEAN]
    BY <1>4 DEF BackoffElapses, TypeOK
  <2> QED
    BY <1>4, <2>1 DEF BackoffElapses, TypeOK, enrollVars, centralVars
<1>5. CASE retry_failed_sync
  <2>1. /\ status' \in [Events -> Statuses]
        /\ owner' \in [Events -> Workers \cup {NoWorker}]
    BY <1>5 DEF retry_failed_sync, TypeOK, Statuses
  <2>2. due' \in [Events -> BOOLEAN]
    BY <1>5 DEF retry_failed_sync, TypeOK
  <2> QED
    BY <1>5, <2>1, <2>2 DEF retry_failed_sync, TypeOK, enrollVars, centralVars
<1>6. CASE Revoke
  <2>1. credential' \in 0..MaxTokens
    BY <1>6, ConstantsAssumption DEF Revoke
  <2> QED
    BY <1>6, <2>1 DEF Revoke, TypeOK, siteVars, centralVars
<1>7. CASE Reenroll
  <2>1. credential' \in 0..MaxTokens /\ token' \in 0..MaxTokens /\ issued' \in 1..MaxTokens
    BY <1>7, ConstantsAssumption DEF Reenroll, TypeOK
  <2> QED
    BY <1>7, <2>1 DEF Reenroll, TypeOK, siteVars, centralVars
<1>8. ASSUME NEW s \in Slots, CommitFails(s) PROVE TypeOK'
  <2>1. req' \in [Slots -> Request] /\ faults' \in 0..MaxFaults
    BY <1>8, FinishType, FaultType DEF CommitFails, TypeOK, Replies
  <2>2. unkept' \in SUBSET Events
    <3>1. req[s] \in Request
      BY DEF TypeOK
    <3> QED
      BY <1>8, <3>1, InsertedType DEF CommitFails, TypeOK
  <2> QED
    BY <1>8, <2>1, <2>2 DEF CommitFails, TypeOK, siteVars, enrollVars
<1> QED
  BY <1>1, <1>2, <1>3, <1>4, <1>5, <1>6, <1>7, <1>8

\* Type correctness: every variable of the outbox, of the workers and of Central's
\* handlers keeps its type in every behaviour.
THEOREM TypeCorrect == Spec => []TypeOK
<1>1. TypeOK /\ [Next]_vars => TypeOK'
  <2>1. SUFFICES ASSUME TypeOK, [Next]_vars PROVE TypeOK'
    OBVIOUS
  <2>2. CASE UNCHANGED vars
    BY <2>1, <2>2 DEF TypeOK, vars, siteVars, enrollVars, centralVars
  <2>3. CASE Next
    BY <2>1, <2>3, SiteStepType, HandlerStepType, OtherStepType DEF Next
  <2> QED
    BY <2>1, <2>2, <2>3
<1> QED
  BY <1>1, InitType, PTL DEF Spec

-----------------------------------------------------------------------------
(* Receipts and cursor: the transactions stand on what is committed *)

\* The part of Coherent that needs no other.
Rooted ==
    /\ RowsExist
    /\ ReceiptsMatchCursor
    /\ \A s \in Slots : HandlerCoherent(req[s])

\* The step leaves the transaction of slot t alone.
SameWork(t) ==
    /\ req'[t].base = req[t].base
    /\ req'[t].last = req[t].last
    /\ req'[t].todo = req[t].todo
    /\ req'[t].loaded = req[t].loaded
    /\ req'[t].seen = req[t].seen
    /\ req'[t].accepted = req[t].accepted

\* The step leaves the answer of slot t alone.
SameAnswer(t) ==
    /\ req'[t].phase = req[t].phase
    /\ req'[t].reply = req[t].reply
    /\ req'[t].batch = req[t].batch

\* The step changes no row that does not exist or is completed.
RowsKept ==
    \A e \in Events : status[e] \in {"NONE", "SUCCEEDED"} => status'[e] = status[e]

\* The step completes only rows that a 200 has accepted.
CompletesAccepted ==
    \A e \in Events : status'[e] = "SUCCEEDED" =>
        \/ status[e] = "SUCCEEDED"
        \/ \E s \in Slots : req[s].reply = "ok" /\ e \in req[s].accepted

\* Central's tables and the sequence only grow.
Grows ==
    /\ next <= next'
    /\ cursor <= cursor'
    /\ receipts \subseteq receipts'

\* The sequences handed out so far stay handed out when the counter grows.
LEMMA IntervalGrows ==
    ASSUME NEW m \in Nat, NEW n \in Nat, m <= n, NEW x \in 1..(m - 1)
    PROVE  x \in 1..(n - 1)
BY SMTT(30)

\* A transaction the step leaves alone stays coherent while the tables grow.
LEMMA WorkKept ==
    ASSUME TypeOK, TypeOK', NEW t \in Slots, HandlerCoherent(req[t]), Grows, SameWork(t)
    PROVE  HandlerCoherent(req[t])'
<1>1. /\ next \in Nat /\ next' \in Nat /\ cursor \in Nat /\ cursor' \in Nat
      /\ req[t].base \in Nat /\ req[t].last \in Nat
  BY ConstantsAssumption DEF TypeOK, Request
<1>2. ASSUME NEW x \in 1..(next - 1) PROVE x \in 1..(next' - 1)
  <2>1. next <= next'
    BY DEF Grows
  <2> QED
    BY <1>1, <2>1, IntervalGrows
<1>3. /\ req'[t].base <= req'[t].last
      /\ req'[t].base <= cursor'
      /\ req'[t].last < next'
  BY <1>1 DEF HandlerCoherent, Grows, SameWork
<1>4. Inserted(req[t])' = Inserted(req[t])
  BY DEF Inserted, SameWork
<1> QED
  BY <1>2, <1>3, <1>4 DEF HandlerCoherent, Grows, SameWork

\* A slot that has become free is coherent.
LEMMA FreeKept ==
    ASSUME TypeOK', NEW t \in Slots, req'[t] = FreeSlot
    PROVE  HandlerCoherent(req[t])'
<1>1. next' \in Nat \ {0} /\ cursor' \in Nat
  BY ConstantsAssumption DEF TypeOK
<1> QED
  BY <1>1 DEF FreeSlot, HandlerCoherent, Inserted

\* The end of a handler frees its slot or leaves only the answer changed.
LEMMA FinishSlots ==
    ASSUME TypeOK, NEW s \in Slots, NEW reply \in Replies, Finish(s, reply)
    PROVE  /\ \A t \in Slots \ {s} : req'[t] = req[t]
           /\ \/ req'[s] = FreeSlot
              \/ /\ SameWork(s) /\ req'[s].phase = "done" /\ req'[s].reply = reply
                 /\ req'[s].batch = req[s].batch
BY DEF Finish, TypeOK, Request, SameWork

\* The delivery of an answer frees its slot or changes only the client.
LEMMA DetachSlots ==
    ASSUME TypeOK, NEW s \in Slots, Detach(s)
    PROVE  \A t \in Slots : req'[t] = FreeSlot \/ (SameWork(t) /\ SameAnswer(t))
BY DEF Detach, TypeOK, Request, SameWork, SameAnswer

\* fail_outbox never completes a row and never touches a completed one: the rows
\* it settles are RUNNING.
LEMMA FailBatchRows ==
    ASSUME TypeOK, NEW w \in Workers, NEW retryable \in BOOLEAN, FailBatch(w, retryable)
    PROVE  RowsKept /\ CompletesAccepted
<1> DEFINE running == {e \in held[w] : status[e] = "RUNNING"}
<1>1. \A e \in Events : \A b \in BOOLEAN : FailedStatus(e, b) # "SUCCEEDED"
  BY DEF FailedStatus
<1>2. CASE Owns(w, running)
  <2>1. Settle({}, IF retryable THEN running ELSE {}, IF retryable THEN {} ELSE running)
    BY <1>2 DEF FailBatch
  <2> QED
    BY <1>1, <2>1 DEF Settle, RowsKept, CompletesAccepted
<1>3. CASE ~Owns(w, running)
  <2>1. UNCHANGED status
    BY <1>3 DEF FailBatch
  <2> QED
    BY <2>1 DEF RowsKept, CompletesAccepted
<1> QED
  BY <1>2, <1>3

\* Settling a 200 completes only accepted rows, all of them RUNNING before.
LEMMA HandleAcksRows ==
    ASSUME TypeOK, NEW w \in Workers, NEW s \in Slots, HandleAcks(w, s)
    PROVE  /\ RowsKept
           /\ \A e \in Events : status'[e] = "SUCCEEDED"
                    => status[e] = "SUCCEEDED" \/ e \in req[s].accepted
<1> DEFINE ok == held[w] \cap req[s].accepted
           retry == held[w] \cap req[s].gaps
<1>1. \A e \in Events : \A b \in BOOLEAN : FailedStatus(e, b) # "SUCCEEDED"
  BY DEF FailedStatus
<1>2. CASE Owns(w, held[w])
  <2>1. Settle(ok, retry, held[w] \ (ok \cup retry))
    BY <1>2 DEF HandleAcks
  <2>2. \A e \in held[w] : status[e] = "RUNNING"
    BY <1>2 DEF Owns
  <2> QED
    BY <1>1, <2>1, <2>2 DEF Settle, RowsKept
<1>3. CASE ~Owns(w, held[w])
  <2>1. UNCHANGED status
    BY <1>3 DEF HandleAcks
  <2> QED
    BY <2>1 DEF RowsKept
<1> QED
  BY <1>2, <1>3

\* A Site step touches Central only by posting a fresh request.
LEMMA SiteStepSlots ==
    ASSUME TypeOK, Rooted, NEW w \in Workers, SiteStep(w), NEW t \in Slots
    PROVE  \/ req'[t] = FreeSlot
           \/ SameWork(t) /\ SameAnswer(t)
           \/ \E B \in SUBSET (1..(next - 1)) :
                 req'[t] = [FreeSlot EXCEPT !.phase = "received", !.client = w,
                              !.token = token, !.batch = B, !.todo = B]
<1>1. ASSUME NEW s \in Slots, Deliver(w, s)
      PROVE \/ SameWork(t) /\ SameAnswer(t)
            \/ \E B \in SUBSET (1..(next - 1)) :
                 req'[t] = [FreeSlot EXCEPT !.phase = "received", !.client = w,
                              !.token = token, !.batch = B, !.todo = B]
  <2>1. PICK B \in SUBSET Claimable :
            req' = [req EXCEPT ![s] =
                      [FreeSlot EXCEPT !.phase = "received", !.client = w,
                         !.token = token, !.batch = B, !.todo = B]]
    BY <1>1 DEF Deliver
  <2>2. ASSUME NEW e \in B PROVE e \in 1..(next - 1)
    <3>1. e \in Events /\ status[e] # "NONE"
      BY DEF Claimable
    <3>2. ~(e >= next)
      BY <3>1 DEF Rooted, RowsExist
    <3>3. next \in Int /\ e \in Nat \ {0}
      BY <3>1, ConstantsAssumption DEF TypeOK, Events
    <3> QED
      BY <3>2, <3>3
  <2> QED
    BY <2>1, <2>2 DEF TypeOK, SameWork, SameAnswer
<1>2. ASSUME NEW s \in Slots,
             HandleAcks(w, s) \/ HandleHttpError(w, s) \/ Timeout(w, s)
      PROVE req'[t] = FreeSlot \/ (SameWork(t) /\ SameAnswer(t))
  BY <1>2, DetachSlots DEF HandleAcks, HandleHttpError, Timeout
<1>3. ASSUME ConnectionError(w) PROVE SameWork(t) /\ SameAnswer(t)
  BY <1>3 DEF ConnectionError, SameWork, SameAnswer
<1>4. ASSUME WorkerCrash(w) PROVE req'[t] = FreeSlot \/ (SameWork(t) /\ SameAnswer(t))
  BY <1>4 DEF WorkerCrash, SameWork, SameAnswer, TypeOK, Request
<1> QED
  BY <1>1, <1>2, <1>3, <1>4 DEF SiteStep

\* A Site step completes only received rows and reopens none.
LEMMA SiteStepRows ==
    ASSUME TypeOK, Rooted, NEW w \in Workers, SiteStep(w)
    PROVE  /\ RowsKept
           /\ CompletesAccepted
           /\ UNCHANGED <<next, receipts, cursor, unkept>>
<1>1. ASSUME NEW s \in Slots, Deliver(w, s)
      PROVE RowsKept /\ CompletesAccepted /\ UNCHANGED <<next, receipts, cursor, unkept>>
  <2>1. PICK B \in SUBSET Claimable : claim_outbox(w, B)
    BY <1>1 DEF Deliver
  <2>2. \A e \in B : status[e] \notin {"NONE", "SUCCEEDED"}
    BY DEF Claimable
  <2>3. RowsKept /\ CompletesAccepted
    BY <2>1, <2>2 DEF claim_outbox, RowsKept, CompletesAccepted
  <2> QED
    BY <1>1, <2>3 DEF Deliver, centralVars
<1>2. ASSUME NEW s \in Slots, HandleAcks(w, s)
      PROVE /\ RowsKept
            /\ CompletesAccepted
            /\ UNCHANGED <<next, receipts, cursor, unkept>>
  <2>1. req[s].reply = "ok"
    BY <1>2 DEF HandleAcks
  <2> QED
    BY <1>2, <2>1, HandleAcksRows DEF CompletesAccepted, HandleAcks, centralVars
<1>3. ASSUME NEW s \in Slots, HandleHttpError(w, s)
      PROVE RowsKept /\ CompletesAccepted /\ UNCHANGED <<next, receipts, cursor, unkept>>
  <2>1. (req[s].reply = "http_500") \in BOOLEAN /\ FailBatch(w, req[s].reply = "http_500")
    BY <1>3 DEF HandleHttpError
  <2> QED
    BY <1>3, <2>1, FailBatchRows DEF HandleHttpError, centralVars
<1>4. ASSUME NEW s \in Slots, Timeout(w, s)
      PROVE RowsKept /\ CompletesAccepted /\ UNCHANGED <<next, receipts, cursor, unkept>>
  BY <1>4, FailBatchRows DEF Timeout, centralVars
<1>5. ASSUME ConnectionError(w)
      PROVE RowsKept /\ CompletesAccepted /\ UNCHANGED <<next, receipts, cursor, unkept>>
  BY <1>5, FailBatchRows DEF ConnectionError, centralVars
<1>6. ASSUME WorkerCrash(w)
      PROVE RowsKept /\ CompletesAccepted /\ UNCHANGED <<next, receipts, cursor, unkept>>
  BY <1>6 DEF WorkerCrash, centralVars, RowsKept, CompletesAccepted
<1> QED
  BY <1>1, <1>2, <1>3, <1>4, <1>5, <1>6 DEF SiteStep

\* The statements of a handler before its commit keep its own slot coherent.
LEMMA HandlerWork ==
    ASSUME TypeOK, TypeOK', Rooted, NEW s \in Slots,
           authenticate_site(s) \/ CheckReceipt(s) \/ ReadCursor(s) \/ Respond(s)
    PROVE  /\ UNCHANGED <<next, status, receipts, cursor>>
           /\ \A t \in Slots \ {s} : req'[t] = req[t]
           /\ HandlerCoherent(req[s])'
<1>0. /\ req[s] \in Request
      /\ HandlerCoherent(req[s])
      /\ req[s].last \in Nat /\ req[s].base \in Nat
      /\ cursor \in Nat /\ next \in Nat /\ cursor < next
  BY ConstantsAssumption DEF TypeOK, Rooted, RowsExist, Request
<1>1. UNCHANGED <<next, status, receipts, cursor>>
  BY DEF authenticate_site, CheckReceipt, ReadCursor, Respond, siteVars, centralVars
<1>2. Grows
  BY <1>0, <1>1 DEF Grows
<1> DEFINE Goal == /\ \A t \in Slots \ {s} : req'[t] = req[t]
                   /\ HandlerCoherent(req[s])'
<1> SUFFICES Goal
  BY <1>1
<1>3. ASSUME NEW reply \in Replies \ {"ok"}, Finish(s, reply) PROVE Goal
  <2>1. CASE req'[s] = FreeSlot
    BY <1>3, <2>1, FinishSlots, FreeKept
  <2>2. CASE SameWork(s) /\ req'[s].phase = "done" /\ req'[s].reply = reply
    BY <1>0, <1>2, <1>3, <2>2, FinishSlots, WorkKept
  <2> QED
    BY <1>3, <2>1, <2>2, FinishSlots
<1>4. CASE authenticate_site(s)
  <2>1. CASE Finish(s, "http_401")
    BY <1>3, <2>1 DEF Replies
  <2>2. CASE req' = [req EXCEPT ![s].phase = "applying"]
    <3>1. /\ SameWork(s) /\ req'[s].phase = "applying" /\ req'[s].reply = req[s].reply
          /\ \A t \in Slots \ {s} : req'[t] = req[t]
      BY <1>0, <2>2 DEF SameWork, TypeOK, Request
    <3>2. HandlerCoherent(req[s])'
      BY <1>0, <1>2, <3>1, WorkKept
    <3> QED
      BY <3>1, <3>2
  <2> QED
    BY <1>4, <2>1, <2>2 DEF authenticate_site
<1>5. CASE CheckReceipt(s)
  <2>1. CASE UniqueViolation(req[s])
    BY <1>3, <1>5, <2>1 DEF CheckReceipt, Replies
  <2>2. CASE ~UniqueViolation(req[s])
    <3>1. PICK e \in Current(req[s]) :
             req' = [req EXCEPT ![s] =
                IF e \in receipts \cup Inserted(req[s])
                THEN [req[s] EXCEPT !.todo = @ \ {e}, !.accepted = @ \cup {e}]
                ELSE IF req[s].loaded THEN Decide(req[s], e, req[s].last)
                ELSE [req[s] EXCEPT !.seen = TRUE]]
      BY <1>5, <2>2 DEF CheckReceipt
    <3>2. e \in req[s].todo /\ e \in 1..(next - 1)
      BY <1>0 DEF Current, HandlerCoherent
    <3>3. \A t \in Slots \ {s} : req'[t] = req[t]
      BY <3>1 DEF TypeOK
    <3>5. CASE e \in receipts \cup Inserted(req[s])
      <4>1. req'[s] = [req[s] EXCEPT !.todo = @ \ {e}, !.accepted = @ \cup {e}]
        BY <3>1, <3>5 DEF TypeOK
      <4>2. /\ req'[s].base = req[s].base /\ req'[s].last = req[s].last
            /\ req'[s].loaded = req[s].loaded /\ req'[s].seen = req[s].seen
            /\ req'[s].reply = req[s].reply
            /\ req'[s].todo = req[s].todo \ {e}
            /\ req'[s].accepted = req[s].accepted \cup {e}
        BY <1>0, <4>1 DEF Request
      <4>3. Inserted(req[s])' = Inserted(req[s])
        BY <4>2 DEF Inserted
      <4> QED
        BY <1>0, <1>1, <3>3, <3>5, <4>2, <4>3 DEF HandlerCoherent
    <3>6. CASE e \notin receipts \cup Inserted(req[s]) /\ req[s].loaded
      <4>1. req'[s] = Decide(req[s], e, req[s].last)
        BY <3>1, <3>6 DEF TypeOK
      <4>2. /\ req'[s].todo = req[s].todo \ {e} /\ req'[s].seen = FALSE
            /\ req'[s].loaded = req[s].loaded /\ req'[s].base = req[s].base
            /\ req'[s].reply = req[s].reply
            /\ \/ /\ e = req[s].last + 1 /\ req'[s].last = e
                  /\ req'[s].accepted = req[s].accepted \cup {e}
               \/ req'[s].last = req[s].last /\ req'[s].accepted = req[s].accepted
        BY <1>0, <4>1 DEF Decide, Request
      <4>3. req'[s].base <= req'[s].last /\ req'[s].last < next
        BY <1>0, <3>2, <4>2 DEF HandlerCoherent
      <4>4. req'[s].accepted \subseteq receipts \cup Inserted(req[s])'
        BY <1>0, <3>2, <4>2 DEF HandlerCoherent, Inserted
      <4> QED
        BY <1>0, <1>1, <3>3, <3>6, <4>2, <4>3, <4>4 DEF HandlerCoherent
    <3>7. CASE e \notin receipts \cup Inserted(req[s]) /\ ~req[s].loaded
      <4>1. req'[s] = [req[s] EXCEPT !.seen = TRUE]
        BY <3>1, <3>7 DEF TypeOK
      <4>2. /\ req'[s].base = req[s].base /\ req'[s].last = req[s].last
            /\ req'[s].loaded = req[s].loaded /\ req'[s].todo = req[s].todo
            /\ req'[s].reply = req[s].reply /\ req'[s].accepted = req[s].accepted
        BY <1>0, <4>1 DEF Request
      <4>3. Inserted(req[s])' = Inserted(req[s])
        BY <4>2 DEF Inserted
      <4> QED
        BY <1>0, <1>1, <3>3, <3>7, <4>2, <4>3 DEF HandlerCoherent
    <3> QED
      BY <3>5, <3>6, <3>7
  <2> QED
    BY <2>1, <2>2
<1>6. CASE ReadCursor(s)
  <2> DEFINE r == [req[s] EXCEPT !.loaded = TRUE, !.base = cursor]
  <2>1. PICK e \in Current(req[s]) : req' = [req EXCEPT ![s] = Decide(r, e, cursor)]
    BY <1>6 DEF ReadCursor
  <2>2. e \in req[s].todo /\ e \in 1..(next - 1)
    BY <1>0 DEF Current, HandlerCoherent
  <2>3. /\ r \in Request /\ r.todo = req[s].todo /\ r.loaded = TRUE /\ r.base = cursor
        /\ r.reply = req[s].reply /\ r.accepted = req[s].accepted
    BY <1>0 DEF Request, TypeOK
  <2> HIDE DEF r
  <2>4. req'[s] = Decide(r, e, cursor) /\ \A t \in Slots \ {s} : req'[t] = req[t]
    BY <2>1 DEF TypeOK
  <2>5. /\ req'[s].todo = req[s].todo \ {e} /\ req'[s].seen = FALSE
        /\ req'[s].loaded = TRUE /\ req'[s].base = cursor
        /\ req'[s].reply = req[s].reply
        /\ \/ /\ e = cursor + 1 /\ req'[s].last = e
              /\ req'[s].accepted = req[s].accepted \cup {e}
           \/ req'[s].last = cursor /\ req'[s].accepted = req[s].accepted
    BY <2>3, <2>4 DEF Decide, Request
  <2>6. req[s].accepted \subseteq receipts
    <3>1. req[s].last = 0
      BY <1>0, <1>6 DEF ReadCursor, HandlerCoherent
    <3> QED
      BY <1>0, <3>1 DEF HandlerCoherent, Inserted
  <2>7. req'[s].base <= req'[s].last /\ req'[s].last < next
    BY <1>0, <2>2, <2>5
  <2>8. req'[s].accepted \subseteq receipts \cup Inserted(req[s])'
    BY <1>0, <2>2, <2>5, <2>6 DEF Inserted
  <2> QED
    BY <1>0, <1>1, <2>4, <2>5, <2>7, <2>8 DEF HandlerCoherent
<1>7. CASE Respond(s)
  <2>1. SameWork(s) /\ \A t \in Slots \ {s} : req'[t] = req[t]
    BY <1>0, <1>7 DEF Respond, SameWork, TypeOK, Request
  <2> QED
    BY <1>0, <1>2, <1>7, <2>1, WorkKept DEF Respond
<1> QED
  BY <1>1, <1>4, <1>5, <1>6, <1>7

\* The commit of a handler: the unique constraint lets a run of receipts in only
\* if the cursor the transaction read is still the current one.
LEMMA CommitEffect ==
    ASSUME TypeOK, Rooted, NEW s \in Slots, Commit(s)
    PROVE  /\ UNCHANGED <<next, status>>
           /\ receipts' = 1..cursor'
           /\ cursor <= cursor' /\ cursor' < next
           /\ receipts \subseteq receipts'
           /\ receipts' \subseteq receipts \cup Inserted(req[s])
           /\ ~UniqueViolation(req[s]) => Inserted(req[s]) \subseteq receipts'
<1>0. /\ req[s].base <= req[s].last /\ req[s].base <= cursor /\ req[s].last < next
      /\ req[s].accepted \subseteq receipts \cup Inserted(req[s])
      /\ receipts = 1..cursor /\ cursor < next
      /\ req[s].base \in Nat /\ req[s].last \in Nat /\ cursor \in Nat /\ next \in Nat
  BY ConstantsAssumption
     DEF TypeOK, Rooted, RowsExist, ReceiptsMatchCursor, HandlerCoherent, Request
<1>1. UNCHANGED <<next, status>>
  BY DEF Commit, siteVars
<1>2. CASE UniqueViolation(req[s])
  <2>1. UNCHANGED <<receipts, cursor>>
    BY <1>2 DEF Commit, centralVars
  <2> QED
    BY <1>0, <1>1, <1>2, <2>1
<1>3. CASE ~UniqueViolation(req[s])
  <2>1. /\ receipts' = receipts \cup Inserted(req[s])
        /\ cursor' = IF Inserted(req[s]) # {} THEN req[s].last ELSE cursor
    BY <1>3 DEF Commit
  <2>2. CASE Inserted(req[s]) = {}
    BY <1>0, <1>1, <2>1, <2>2
  <2>3. CASE Inserted(req[s]) # {}
    <3>1. req[s].base < req[s].last
      BY <1>0, <2>3 DEF Inserted
    <3>2. req[s].base + 1 \in Inserted(req[s])
      BY <1>0, <3>1 DEF Inserted
    <3>3. req[s].base + 1 \notin 1..cursor
      BY <1>0, <1>3, <3>2 DEF UniqueViolation
    <3>4. req[s].base = cursor
      BY <1>0, <3>3
    <3>5. cursor' = req[s].last /\ receipts' = 1..cursor'
      BY <1>0, <2>1, <2>3, <3>1, <3>4 DEF Inserted
    <3> QED
      BY <1>0, <1>1, <2>1, <3>1, <3>4, <3>5
  <2> QED
    BY <2>2, <2>3
<1> QED
  BY <1>2, <1>3

\* Rooted does not change while its variables do not.
LEMMA StutterRooted ==
    ASSUME Rooted, UNCHANGED vars
    PROVE  Rooted'
BY DEF Rooted, RowsExist, ReceiptsMatchCursor, HandlerCoherent,
       Inserted, vars, siteVars, enrollVars, centralVars

\* Nothing exists at the start.
LEMMA InitRooted == Init => Rooted
<1>1. SUFFICES ASSUME Init PROVE Rooted
  OBVIOUS
<1>2. RowsExist /\ ReceiptsMatchCursor
  BY <1>1 DEF Init, RowsExist, ReceiptsMatchCursor
<1>3. \A s \in Slots : HandlerCoherent(req[s])
  BY <1>1 DEF Init, FreeSlot, HandlerCoherent, Inserted
<1> QED
  BY <1>2, <1>3 DEF Rooted

\* A step that only adds or settles rows, and leaves slots alone or frees them.
LEMMA RowStepRooted ==
    ASSUME TypeOK, TypeOK', Rooted, RowsKept, UNCHANGED <<next, receipts, cursor>>,
           \A t \in Slots : req'[t] = FreeSlot \/ SameWork(t)
    PROVE  Rooted'
<1>1. Grows
  BY ConstantsAssumption DEF Grows, TypeOK
<1>2. RowsExist' /\ ReceiptsMatchCursor'
  BY DEF Rooted, RowsExist, RowsKept, ReceiptsMatchCursor
<1>3. ASSUME NEW t \in Slots
      PROVE  HandlerCoherent(req[t])'
  <2>1. CASE req'[t] = FreeSlot
    BY <2>1, FreeKept
  <2>2. CASE SameWork(t)
    BY <1>1, <2>2, WorkKept DEF Rooted
  <2> QED
    BY <2>1, <2>2
<1> QED
  BY <1>2, <1>3 DEF Rooted

\* Steps of a Site worker keep the invariant.
LEMMA SiteStepRooted ==
    ASSUME TypeOK, TypeOK', Rooted, NEW w \in Workers, SiteStep(w)
    PROVE  Rooted'
<1>1. RowsKept /\ CompletesAccepted /\ UNCHANGED <<next, receipts, cursor, unkept>>
  BY SiteStepRows
<1>2. Grows
  BY <1>1, ConstantsAssumption DEF Grows, TypeOK
<1>3. RowsExist' /\ ReceiptsMatchCursor'
  BY <1>1 DEF Rooted, RowsExist, RowsKept, ReceiptsMatchCursor
<1>5. ASSUME NEW t \in Slots
      PROVE  HandlerCoherent(req[t])'
  <2>1. CASE req'[t] = FreeSlot
    BY <2>1, FreeKept
  <2>2. CASE SameWork(t) /\ SameAnswer(t)
    BY <1>2, <2>2, WorkKept DEF Rooted
  <2>3. CASE \E B \in SUBSET (1..(next - 1)) :
               req'[t] = [FreeSlot EXCEPT !.phase = "received", !.client = w,
                            !.token = token, !.batch = B, !.todo = B]
    <3>1. PICK B \in SUBSET (1..(next - 1)) :
               req'[t] = [FreeSlot EXCEPT !.phase = "received", !.client = w,
                            !.token = token, !.batch = B, !.todo = B]
      BY <2>3
    <3>2. next \in Nat \ {0} /\ cursor \in Nat
      BY ConstantsAssumption DEF TypeOK
    <3> QED
      BY <1>1, <3>1, <3>2 DEF FreeSlot, HandlerCoherent, Inserted
  <2> QED
    BY <2>1, <2>2, <2>3, SiteStepSlots
<1> QED
  BY <1>3, <1>5 DEF Rooted

\* Steps of a Central handler keep the invariant.
LEMMA HandlerStepRooted ==
    ASSUME TypeOK, TypeOK', Rooted, NEW s \in Slots, HandlerStep(s)
    PROVE  Rooted'
<1>1. CASE authenticate_site(s) \/ CheckReceipt(s) \/ ReadCursor(s) \/ Respond(s)
  <2>1. /\ UNCHANGED <<next, status, receipts, cursor>>
        /\ \A t \in Slots \ {s} : req'[t] = req[t]
        /\ HandlerCoherent(req[s])'
    BY <1>1, HandlerWork
  <2>2. Grows
    BY <2>1, ConstantsAssumption DEF Grows, TypeOK
  <2>3. ASSUME NEW t \in Slots
        PROVE  HandlerCoherent(req[t])'
    <3>1. CASE t = s
      BY <2>1, <3>1
    <3>2. CASE t # s
      BY <2>1, <2>2, <3>2, WorkKept DEF Rooted, SameWork
    <3> QED
      BY <3>1, <3>2
  <2>4. RowsExist' /\ ReceiptsMatchCursor'
    BY <2>1 DEF Rooted, RowsExist, ReceiptsMatchCursor
  <2> QED
    BY <2>3, <2>4 DEF Rooted
<1>2. CASE Commit(s)
  <2>1. /\ UNCHANGED <<next, status>>
        /\ receipts' = 1..cursor'
        /\ cursor <= cursor' /\ cursor' < next
        /\ receipts \subseteq receipts'
    BY <1>2, CommitEffect
  <2>2. Grows
    BY <2>1, ConstantsAssumption DEF Grows, TypeOK
  <2>3. ASSUME NEW t \in Slots PROVE req'[t] = FreeSlot \/ SameWork(t)
    <3>1. Finish(s, "ok")
      BY <1>2 DEF Commit
    <3> QED
      BY <3>1, FinishSlots DEF Replies, SameWork
  <2>4. ASSUME NEW t \in Slots
        PROVE  HandlerCoherent(req[t])'
    <3>1. CASE req'[t] = FreeSlot
      BY <3>1, FreeKept
    <3>2. CASE SameWork(t)
      BY <2>2, <3>2, WorkKept DEF Rooted
    <3> QED
      BY <2>3, <3>1, <3>2
  <2>5. RowsExist' /\ ReceiptsMatchCursor'
    BY <2>1 DEF Rooted, RowsExist, ReceiptsMatchCursor
  <2> QED
    BY <2>4, <2>5 DEF Rooted
<1> QED
  BY <1>1, <1>2 DEF HandlerStep

\* The remaining steps keep the invariant.
LEMMA OtherStepRooted ==
    ASSUME TypeOK, TypeOK', Rooted,
           \/ enqueue_outbox
           \/ \E s \in Slots : Drop(s) \/ CommitFails(s)
           \/ \E e \in Events : LeaseExpires(e) \/ BackoffElapses(e)
           \/ retry_failed_sync
           \/ Revoke
           \/ Reenroll
    PROVE  Rooted'
<1>1. CASE enqueue_outbox
  <2>1. /\ next' = next + 1 /\ status' = [status EXCEPT ![next] = "PENDING"]
        /\ UNCHANGED <<receipts, cursor, req>>
    BY <1>1 DEF enqueue_outbox, centralVars
  <2>2. next \in Nat /\ cursor \in Nat
    BY ConstantsAssumption DEF TypeOK
  <2>3. Grows
    BY <2>1, <2>2 DEF Grows
  <2>4. RowsExist' /\ ReceiptsMatchCursor'
    BY <2>1, <2>2 DEF Rooted, RowsExist, ReceiptsMatchCursor, TypeOK, Events
  <2>6. ASSUME NEW t \in Slots
        PROVE  HandlerCoherent(req[t])'
    BY <2>1, <2>3, WorkKept DEF Rooted, SameWork
  <2> QED
    BY <1>1, <2>4, <2>6 DEF Rooted
<1>2. ASSUME NEW s \in Slots, Drop(s) PROVE Rooted'
  <2>1. RowsKept /\ UNCHANGED <<next, receipts, cursor>>
    BY <1>2 DEF Drop, siteVars, centralVars, RowsKept
  <2>2. \A t \in Slots : req'[t] = FreeSlot \/ SameWork(t)
    BY <1>2 DEF Drop, SameWork, TypeOK
  <2> QED
    BY <2>1, <2>2, RowStepRooted
<1>3. ASSUME NEW s \in Slots, CommitFails(s) PROVE Rooted'
  <2>1. RowsKept /\ UNCHANGED <<next, receipts, cursor>>
    BY <1>3 DEF CommitFails, siteVars, RowsKept
  <2>2. \A t \in Slots : req'[t] = FreeSlot \/ SameWork(t)
    <3>1. Finish(s, "ok")
      BY <1>3 DEF CommitFails
    <3> QED
      BY <3>1, FinishSlots DEF Replies, SameWork
  <2> QED
    BY <2>1, <2>2, RowStepRooted
<1>4. ASSUME \/ \E e \in Events : LeaseExpires(e) \/ BackoffElapses(e)
             \/ Revoke
             \/ Reenroll
      PROVE  Rooted'
  <2>1. UNCHANGED <<next, status, receipts, cursor, req>>
    BY <1>4 DEF LeaseExpires, BackoffElapses, Revoke, Reenroll, siteVars, centralVars
  <2>2. RowsKept
    BY <2>1 DEF RowsKept
  <2> QED
    BY <2>1, <2>2, RowStepRooted DEF SameWork
<1>5. CASE retry_failed_sync
  <2>1. UNCHANGED <<next, receipts, cursor, req>>
    BY <1>5 DEF retry_failed_sync, centralVars
  <2>2. RowsKept
    BY <1>5 DEF retry_failed_sync, RowsKept, TypeOK
  <2> QED
    BY <2>1, <2>2, RowStepRooted DEF SameWork
<1> QED
  BY <1>1, <1>2, <1>3, <1>4, <1>5

-----------------------------------------------------------------------------
(* Order and flushes: what two open transactions may insert *)

\* A slot without a transaction: free, or a request nobody has looked at.
Idle(q) ==
    /\ q.phase \in {"free", "received"} /\ q.reply = "none"
    /\ q.base = 0 /\ q.last = 0 /\ q.todo = q.batch

LEMMA FreeIdle == Idle(FreeSlot)
BY DEF Idle, FreeSlot

LEMMA IdleOrder ==
    ASSUME NEW q, Idle(q)
    PROVE  OrderCoherent(q) /\ Flushed(q) = {} /\ Promised(q) = {} /\ q.reply = "none"
BY DEF Idle, OrderCoherent, Flushed, Promised, Inserted

\* The step does not touch the transaction of slot t, or slot t has none.
Untouched(t) ==
    \/ SameWork(t) /\ SameAnswer(t)
    \/ req[t].phase # "applying" /\ Idle(req'[t])

LEMMA UntouchedOrder ==
    ASSUME NEW t \in Slots, OrderCoherent(req[t]), Untouched(t)
    PROVE  /\ OrderCoherent(req'[t])
           /\ Flushed(req'[t]) \subseteq Flushed(req[t])
           /\ Promised(req'[t]) = Promised(req[t])
<1>1. CASE SameWork(t) /\ SameAnswer(t)
  BY <1>1 DEF SameWork, SameAnswer, OrderCoherent, Flushed, Inserted, Promised
<1>2. CASE req[t].phase # "applying" /\ Idle(req'[t])
  BY <1>2, IdleOrder DEF Promised
<1> QED
  BY <1>1, <1>2 DEF Untouched

\* Site workers do not touch transactions.
LEMMA SiteStepUntouched ==
    ASSUME TypeOK, NEW w \in Workers, SiteStep(w), NEW t \in Slots
    PROVE  Untouched(t)
<1>1. ASSUME NEW s \in Slots, Deliver(w, s) PROVE Untouched(t)
  <2>1. PICK B \in SUBSET Claimable :
            req' = [req EXCEPT ![s] =
                      [FreeSlot EXCEPT !.phase = "received", !.client = w,
                         !.token = token, !.batch = B, !.todo = B]]
    BY <1>1 DEF Deliver
  <2>2. CASE t = s
    <3>1. req[t].phase # "applying" /\ Idle(req'[t])
      BY <1>1, <2>1, <2>2 DEF Deliver, TypeOK, FreeSlot, Idle
    <3> QED
      BY <3>1 DEF Untouched
  <2>3. CASE t # s
    BY <2>1, <2>3 DEF TypeOK, Untouched, SameWork, SameAnswer
  <2> QED
    BY <2>2, <2>3
<1>2. ASSUME NEW s \in Slots,
             HandleAcks(w, s) \/ HandleHttpError(w, s) \/ Timeout(w, s)
      PROVE Untouched(t)
  <2>1. Detach(s)
    BY <1>2 DEF HandleAcks, HandleHttpError, Timeout
  <2>2. \/ req'[t] = FreeSlot /\ req[t].phase = "done"
        \/ SameWork(t) /\ SameAnswer(t)
    BY <2>1 DEF Detach, TypeOK, Request, SameWork, SameAnswer
  <2> QED
    BY <2>2, FreeIdle DEF Untouched
<1>3. ASSUME ConnectionError(w) PROVE Untouched(t)
  BY <1>3 DEF ConnectionError, SameWork, SameAnswer, Untouched
<1>4. ASSUME WorkerCrash(w) PROVE Untouched(t)
  <2>1. \/ req'[t] = FreeSlot /\ req[t].phase = "done"
        \/ SameWork(t) /\ SameAnswer(t)
    BY <1>4 DEF WorkerCrash, SameWork, SameAnswer, TypeOK, Request
  <2> QED
    BY <2>1, FreeIdle DEF Untouched
<1> QED
  BY <1>1, <1>2, <1>3, <1>4 DEF SiteStep

\* The verdict on the next event keeps the order; the insert it adds is not flushed.
LEMMA DecideOrder ==
    ASSUME NEW r \in Request, OrderCoherent(r), r.phase = "applying",
           NEW e \in Current(r), NEW last \in 0..MaxEvents, last = r.base \/ last = r.last
    PROVE  /\ OrderCoherent(Decide(r, e, last))
           /\ Flushed(Decide(r, e, last)) \subseteq Inserted(r)
<1> DEFINE q == Decide(r, e, last)
<1>1. /\ e \in r.todo /\ e \in Events /\ \A z \in r.todo : e <= z
      /\ r.todo \subseteq Events /\ r.batch \subseteq Events
  BY DEF Current, Request
<1>2. r.base \in Nat /\ r.last \in Nat /\ last \in Nat /\ MaxEvents \in Nat /\ Events \subseteq Nat
  BY ConstantsAssumption DEF Request, Events
<1>3. /\ q.todo = r.todo \ {e} /\ q.batch = r.batch /\ q.base = r.base /\ q.phase = "applying"
      /\ \/ q.last = e /\ e = last + 1
         \/ q.last = last
  BY DEF Decide, Request
<1> HIDE DEF q
<1>4. e \in r.batch /\ \A y \in r.batch \ r.todo : y < e
  BY <1>1 DEF OrderCoherent
<1>5. \A y \in q.batch \ q.todo : y \in r.batch \ r.todo \/ y = e
  BY <1>3
<1>6. ASSUME NEW y \in q.batch \ q.todo PROVE y \in Nat /\ y <= e
  <2>1. y \in Nat /\ e \in Nat
    BY <1>1, <1>2, <1>3
  <2>2. y < e \/ y = e
    BY <1>4, <1>5
  <2> QED
    BY <2>1, <2>2
<1>7. ASSUME NEW y \in q.batch \ q.todo, NEW z \in q.todo PROVE y < z
  <2>1. z \in r.todo /\ z # e /\ z \in Nat /\ e \in Nat /\ e <= z
    BY <1>1, <1>2, <1>3
  <2>2. y \in Nat /\ y <= e
    BY <1>6
  <2> QED
    BY <2>1, <2>2
<1>8. q.base < q.last => q.last \in q.batch \ q.todo
  <2>1. CASE q.last = e
    BY <1>3, <1>4, <2>1
  <2>2. CASE q.last = last /\ q.last # e
    <3>1. q.base < q.last => r.base < r.last /\ last = r.last
      BY <1>2, <1>3, <2>2
    <3>2. r.last \in r.batch \ r.todo => r.last \in q.batch \ q.todo
      BY <1>3
    <3> QED
      BY <2>2, <3>1, <3>2 DEF OrderCoherent
  <2> QED
    BY <1>3, <2>1, <2>2
<1>9. OrderCoherent(q)
  BY <1>3, <1>7, <1>8 DEF OrderCoherent
<1>10. ASSUME NEW x \in Flushed(q) PROVE x \in Inserted(r)
  <2>1. x \in (q.base + 1)..q.last
    BY DEF Flushed, Inserted
  <2>2. PICK y \in q.batch \ q.todo : x < y
    BY DEF Flushed
  <2>3. x < e
    BY <1>1, <1>2, <1>3, <1>6, <2>1, <2>2
  <2>4. x \in (r.base + 1)..last
    BY <1>1, <1>2, <1>3, <2>1, <2>3
  <2> QED
    BY <1>2, <2>4 DEF Inserted
<1> QED
  BY <1>9, <1>10 DEF q

\* A finished handler has no transaction.
LEMMA FinishOrder ==
    ASSUME TypeOK, NEW s \in Slots, NEW reply \in Replies, Finish(s, reply),
           OrderCoherent(req[s])
    PROVE  /\ \A t \in Slots \ {s} : req'[t] = req[t]
           /\ OrderCoherent(req'[s])
           /\ Flushed(req'[s]) = {}
           /\ Promised(req'[s]) = {}
<1>1. CASE req'[s] = FreeSlot
  BY <1>1, FinishSlots, FreeIdle, IdleOrder
<1>2. CASE /\ SameWork(s) /\ req'[s].phase = "done" /\ req'[s].reply = reply
           /\ req'[s].batch = req[s].batch
  <2>1. \A t \in Slots \ {s} : req'[t] = req[t]
    BY FinishSlots
  <2>2. OrderCoherent(req'[s])
    BY <1>2 DEF SameWork, OrderCoherent
  <2>3. Flushed(req'[s]) = {} /\ Promised(req'[s]) = {}
    BY <1>2 DEF Flushed, Promised
  <2> QED
    BY <2>1, <2>2, <2>3
<1> QED
  BY <1>1, <1>2, FinishSlots

\* Every statement of a handler keeps the order; what is flushed afterwards was
\* flushed, or has passed the lookup of CheckReceipt.
FlushedBy(s) ==
    \/ Flushed(req'[s]) \subseteq Flushed(req[s])
    \/ /\ Flushed(req'[s]) \subseteq Inserted(req[s])
       /\ ~Blocked(s)
       /\ ~UniqueViolation(req[s])

LEMMA HandlerOrder ==
    ASSUME TypeOK, Rooted, NEW s \in Slots, OrderCoherent(req[s]),
           HandlerStep(s) \/ CommitFails(s) \/ Drop(s)
    PROVE  /\ \A t \in Slots \ {s} : req'[t] = req[t]
           /\ OrderCoherent(req'[s])
           /\ FlushedBy(s)
<1> DEFINE Goal == /\ \A t \in Slots \ {s} : req'[t] = req[t]
                   /\ OrderCoherent(req'[s])
                   /\ FlushedBy(s)
<1>0. /\ req[s] \in Request /\ req \in [Slots -> Request] /\ HandlerCoherent(req[s])
      /\ req[s].base \in 0..MaxEvents /\ req[s].last \in 0..MaxEvents /\ cursor \in 0..MaxEvents
  BY DEF TypeOK, Rooted, Request
<1>1. ASSUME NEW reply \in Replies, Finish(s, reply) PROVE Goal
  BY <1>1, FinishOrder DEF FlushedBy
<1>2. CASE authenticate_site(s)
  <2>1. CASE Finish(s, "http_401")
    BY <1>1, <2>1 DEF Replies
  <2>2. CASE req' = [req EXCEPT ![s].phase = "applying"]
    <3>1. /\ req'[s] = [req[s] EXCEPT !.phase = "applying"]
          /\ \A t \in Slots \ {s} : req'[t] = req[t]
      BY <1>0, <2>2
    <3>2. /\ req'[s].base = req[s].base /\ req'[s].last = req[s].last /\ req'[s].todo = req[s].todo
          /\ req'[s].batch = req[s].batch /\ req'[s].phase = "applying"
      BY <1>0, <3>1 DEF Request
    <3>3. req[s].last = 0
      BY <1>2 DEF authenticate_site, OrderCoherent
    <3>4. OrderCoherent(req'[s])
      BY <3>2 DEF OrderCoherent
    <3>5. Flushed(req'[s]) = {}
      BY <1>0, <3>2, <3>3, ConstantsAssumption DEF Flushed, Inserted
    <3> QED
      BY <3>1, <3>4, <3>5 DEF FlushedBy
  <2> QED
    BY <1>2, <2>1, <2>2 DEF authenticate_site
<1>3. CASE CheckReceipt(s)
  <2>1. CASE UniqueViolation(req[s])
    BY <1>1, <1>3, <2>1 DEF CheckReceipt, Replies
  <2>2. CASE ~UniqueViolation(req[s])
    <3>1. PICK e \in Current(req[s]) :
             req' = [req EXCEPT ![s] =
                IF e \in receipts \cup Inserted(req[s])
                THEN [req[s] EXCEPT !.todo = @ \ {e}, !.accepted = @ \cup {e}]
                ELSE IF req[s].loaded THEN Decide(req[s], e, req[s].last)
                ELSE [req[s] EXCEPT !.seen = TRUE]]
      BY <1>3, <2>2 DEF CheckReceipt
    <3>2. ~Blocked(s) /\ req[s].phase = "applying"
      BY <1>3 DEF CheckReceipt
    <3>3. \A t \in Slots \ {s} : req'[t] = req[t]
      BY <1>0, <3>1
    <3>4. CASE req'[s] = [req[s] EXCEPT !.todo = @ \ {e}, !.accepted = @ \cup {e}]
      <4>1. /\ req'[s].base = req[s].base /\ req'[s].last = req[s].last
            /\ req'[s].todo = req[s].todo \ {e} /\ req'[s].batch = req[s].batch
            /\ req'[s].phase = req[s].phase
        BY <1>0, <3>4 DEF Request
      <4>2. Flushed(req'[s]) \subseteq Inserted(req[s])
        BY <4>1 DEF Flushed, Inserted
      <4>3. \A y \in req[s].batch \ req[s].todo : y < e
        BY DEF OrderCoherent, Current
      <4>4. ASSUME NEW y \in req'[s].batch \ req'[s].todo, NEW z \in req'[s].todo PROVE y < z
        <5>1. z \in req[s].todo /\ z # e /\ z \in Nat /\ e \in Nat /\ e <= z
          BY <1>0, <4>1, ConstantsAssumption DEF Current, Request, Events
        <5>2. CASE y = e
          BY <5>1, <5>2
        <5>3. CASE y # e
          BY <4>1, <5>1, <5>3 DEF OrderCoherent
        <5> QED
          BY <5>2, <5>3
      <4>5. OrderCoherent(req'[s])
        BY <4>1, <4>4 DEF OrderCoherent
      <4> QED
        BY <2>2, <3>2, <3>3, <4>2, <4>5 DEF FlushedBy
    <3>5. CASE req'[s] = Decide(req[s], e, req[s].last)
      BY <1>0, <2>2, <3>2, <3>3, <3>5, DecideOrder DEF FlushedBy
    <3>6. CASE req'[s] = [req[s] EXCEPT !.seen = TRUE]
      <4>1. /\ req'[s].base = req[s].base /\ req'[s].last = req[s].last
            /\ req'[s].todo = req[s].todo /\ req'[s].batch = req[s].batch
            /\ req'[s].phase = req[s].phase
        BY <1>0, <3>6 DEF Request
      <4>2. OrderCoherent(req'[s]) /\ Flushed(req'[s]) = Flushed(req[s])
        BY <4>1 DEF OrderCoherent, Flushed, Inserted
      <4> QED
        BY <3>3, <4>2 DEF FlushedBy
    <3> QED
      BY <1>0, <3>1, <3>4, <3>5, <3>6
  <2> QED
    BY <2>1, <2>2
<1>4. CASE ReadCursor(s)
  <2> DEFINE r == [req[s] EXCEPT !.loaded = TRUE, !.base = cursor]
  <2>1. PICK e \in Current(req[s]) : req' = [req EXCEPT ![s] = Decide(r, e, cursor)]
    BY <1>4 DEF ReadCursor
  <2>2. req[s].last = 0 /\ req[s].phase = "applying"
    BY <1>0, <1>4 DEF ReadCursor, HandlerCoherent
  <2>3. /\ r \in Request /\ r.todo = req[s].todo /\ r.batch = req[s].batch /\ r.base = cursor
        /\ r.last = 0 /\ r.phase = "applying"
    BY <1>0, <2>2 DEF Request
  <2>4. req'[s] = Decide(r, e, cursor) /\ \A t \in Slots \ {s} : req'[t] = req[t]
    BY <1>0, <2>1
  <2> HIDE DEF r
  <2>5. OrderCoherent(r) /\ Inserted(r) = {} /\ e \in Current(r)
    BY <1>0, <2>3, ConstantsAssumption DEF OrderCoherent, Inserted, Current
  <2>6. OrderCoherent(req'[s]) /\ Flushed(req'[s]) \subseteq Inserted(r)
    BY <1>0, <2>3, <2>4, <2>5, DecideOrder
  <2> QED
    BY <2>4, <2>5, <2>6 DEF FlushedBy
<1>5. CASE Respond(s)
  <2>1. SameWork(s) /\ req'[s].phase = req[s].phase /\ req'[s].batch = req[s].batch
    BY <1>0, <1>5 DEF Respond, SameWork, Request
  <2>2. \A t \in Slots \ {s} : req'[t] = req[t]
    BY <1>0, <1>5 DEF Respond
  <2>3. OrderCoherent(req'[s]) /\ Flushed(req'[s]) = Flushed(req[s])
    BY <2>1 DEF SameWork, OrderCoherent, Flushed, Inserted
  <2> QED
    BY <2>2, <2>3 DEF FlushedBy
<1>6. CASE Commit(s)
  BY <1>1, <1>6 DEF Commit, Replies
<1>7. CASE CommitFails(s)
  BY <1>1, <1>7 DEF CommitFails, Replies
<1>8. CASE Drop(s)
  <2>1. req'[s] = FreeSlot /\ \A t \in Slots \ {s} : req'[t] = req[t]
    BY <1>0, <1>8 DEF Drop
  <2> QED
    BY <2>1, FreeIdle, IdleOrder DEF FlushedBy
<1> QED
  BY <1>2, <1>3, <1>4, <1>5, <1>6, <1>7, <1>8 DEF HandlerStep

-----------------------------------------------------------------------------
(* Order and flushes, for all slots *)

Flushes == \A s \in Slots : OrderCoherent(req[s]) /\ FlushCoherent(s)

\* What a transaction inserts while it is not blocked nobody else has flushed.
LEMMA UnblockedInserts ==
    ASSUME NEW s \in Slots, FlushCoherent(s), ~Blocked(s), NEW t \in Slots \ {s}
    PROVE  Inserted(req[s]) \cap Flushed(req[t]) = {}
<1>1. (Inserted(req[s]) \ Flushed(req[s])) \cap Flushed(req[t]) = {}
  BY DEF Blocked
<1>2. Flushed(req[s]) \cap Flushed(req[t]) = {}
  BY DEF FlushCoherent
<1> QED
  BY <1>1, <1>2

\* Flushes that only shrink stay coherent.
LEMMA ShrinkFlushes ==
    ASSUME Flushes, UNCHANGED receipts,
           \A t \in Slots : OrderCoherent(req'[t]) /\ Flushed(req'[t]) \subseteq Flushed(req[t])
    PROVE  Flushes'
BY DEF Flushes, FlushCoherent

\* The statements and the commit of a handler keep the flushes coherent.
LEMMA HandlerFlushes ==
    ASSUME TypeOK, Rooted, Flushes, NEW s \in Slots,
           HandlerStep(s) \/ CommitFails(s) \/ Drop(s)
    PROVE  Flushes'
<1>1. /\ \A t \in Slots \ {s} : req'[t] = req[t]
      /\ OrderCoherent(req'[s])
      /\ FlushedBy(s)
  BY HandlerOrder DEF Flushes
<1>2. \A t \in Slots : OrderCoherent(req'[t])
  BY <1>1 DEF Flushes
<1>3. CASE Commit(s)
  <2>1. receipts' \subseteq receipts \cup Inserted(req[s])
    BY <1>3, CommitEffect
  <2>2. Flushed(req'[s]) = {}
    BY <1>3, FinishOrder DEF Commit, Flushes, Replies
  <2>3. \A t \in Slots \ {s} : Inserted(req[s]) \cap Flushed(req[t]) = {}
    BY <1>3, UnblockedInserts DEF Flushes, Commit
  <2>4. ASSUME NEW t \in Slots PROVE FlushCoherent(t)'
    <3>1. CASE t = s
      BY <2>2, <3>1 DEF FlushCoherent
    <3>2. CASE t # s
      BY <1>1, <2>1, <2>2, <2>3, <3>2 DEF FlushCoherent, Flushes
    <3> QED
      BY <3>1, <3>2
  <2> QED
    BY <1>2, <2>4 DEF Flushes
<1>4. CASE ~Commit(s)
  <2>1. UNCHANGED receipts
    BY <1>4 DEF HandlerStep, authenticate_site, CheckReceipt, ReadCursor, Respond, CommitFails,
                Drop, centralVars
  <2>2. CASE Flushed(req'[s]) \subseteq Flushed(req[s])
    BY <1>1, <1>2, <2>1, <2>2, ShrinkFlushes
  <2>3. CASE /\ Flushed(req'[s]) \subseteq Inserted(req[s])
             /\ ~Blocked(s)
             /\ ~UniqueViolation(req[s])
    <3>1. \A t \in Slots \ {s} : Inserted(req[s]) \cap Flushed(req[t]) = {}
      BY <2>3, UnblockedInserts DEF Flushes
    <3>2. Inserted(req[s]) \cap receipts = {}
      BY <2>3 DEF UniqueViolation
    <3>3. ASSUME NEW t \in Slots PROVE FlushCoherent(t)'
      <4>1. CASE t = s
        BY <1>1, <2>1, <2>3, <3>1, <3>2, <4>1 DEF FlushCoherent
      <4>2. CASE t # s
        BY <1>1, <2>1, <2>3, <3>1, <4>2 DEF FlushCoherent, Flushes
      <4> QED
        BY <4>1, <4>2
    <3> QED
      BY <1>2, <3>3 DEF Flushes
  <2> QED
    BY <1>1, <2>2, <2>3 DEF FlushedBy
<1> QED
  BY <1>3, <1>4

-----------------------------------------------------------------------------
(* What Central has answered for *)

Honest == \A s \in Slots : AnswerHonest(req[s])

\* If the unique constraint undoes a transaction at its commit, another handler has
\* committed all that it inserted: the key that was free at the last lookup and is
\* taken now is the last one.
LEMMA ViolationIsDuplicate ==
    ASSUME TypeOK, Rooted, Flushes, NEW s \in Slots, req[s].phase = "applying",
           UniqueViolation(req[s])
    PROVE  Inserted(req[s]) \subseteq receipts
<1>1. /\ req[s].base \in Nat /\ req[s].last \in Nat /\ cursor \in Nat
      /\ receipts = 1..cursor /\ req[s] \in Request
  BY ConstantsAssumption DEF TypeOK, Request, Rooted, ReceiptsMatchCursor
<1>2. PICK x \in Inserted(req[s]) : x \in receipts
  BY DEF UniqueViolation
<1>3. x \in (req[s].base + 1)..req[s].last /\ x \in 1..cursor
  BY <1>1, <1>2 DEF Inserted
<1>4. x \notin Flushed(req[s])
  BY <1>2 DEF Flushes, FlushCoherent
<1>5. req[s].last \in req[s].batch \ req[s].todo
  <2>1. req[s].base < req[s].last
    BY <1>1, <1>3
  <2> QED
    BY <2>1 DEF Flushes, OrderCoherent
<1>6. ~(x < req[s].last)
  BY <1>2, <1>4, <1>5 DEF Flushed
<1>7. req[s].last <= cursor
  BY <1>1, <1>3, <1>6
<1>8. ASSUME NEW y \in Inserted(req[s]) PROVE y \in receipts
  <2>1. y \in (req[s].base + 1)..req[s].last
    BY DEF Inserted
  <2> QED
    BY <1>1, <1>7, <2>1
<1> QED
  BY <1>8

\* What a step may do to the set of events answered for: nothing, or add the inserts of
\* the handler that answers.
Adds(S) ==
    /\ receipts \subseteq receipts'
    /\ unkept \subseteq unkept'
    /\ receipts' \cup unkept' \subseteq Answered
    /\ \A t \in Slots : /\ Promised(req[t]) \subseteq Promised(req'[t]) \cup receipts' \cup unkept'
                        /\ Promised(req'[t]) \subseteq Promised(req[t]) \cup S
    /\ S \subseteq Answered'

LEMMA AddsAnswered ==
    ASSUME NEW S, Adds(S) PROVE Answered' = Answered \cup S
<1>1. Awaited' = UNION {Promised(req'[t]) : t \in Slots}
  BY DEF Awaited, Promised
<1>2. ASSUME NEW x \in Answered PROVE x \in Answered'
  <2>1. CASE x \in receipts \cup unkept
    BY <2>1 DEF Adds, Answered
  <2>2. CASE x \in Awaited
    <3>1. PICK t \in Slots : x \in Promised(req[t])
      BY <2>2 DEF Awaited
    <3>2. x \in Promised(req'[t]) \cup receipts' \cup unkept'
      BY <3>1 DEF Adds
    <3> QED
      BY <1>1, <3>2 DEF Answered
  <2> QED
    BY <2>1, <2>2 DEF Answered
<1>3. ASSUME NEW x \in Answered' PROVE x \in Answered \cup S
  <2>1. CASE x \in receipts' \cup unkept'
    BY <2>1 DEF Adds
  <2>2. CASE x \in Awaited'
    <3>1. PICK t \in Slots : x \in Promised(req'[t])
      BY <1>1, <2>2
    <3>2. x \in Promised(req[t]) \cup S
      BY <3>1 DEF Adds
    <3> QED
      BY <3>2 DEF Answered, Awaited
  <2> QED
    BY <2>1, <2>2 DEF Answered
<1>4. S \subseteq Answered'
  BY DEF Adds
<1> QED
  BY <1>2, <1>3, <1>4

\* Steps that touch no transaction and neither receipts nor ghosts.
LEMMA UntouchedAnswered ==
    ASSUME Flushes, UNCHANGED <<receipts, unkept>>, \A t \in Slots : Untouched(t)
    PROVE  Answered' = Answered
<1>1. \A t \in Slots : Promised(req'[t]) = Promised(req[t])
  BY UntouchedOrder DEF Flushes
<1>2. Adds({})
  BY <1>1 DEF Adds, Answered
<1> QED
  BY <1>2, AddsAnswered

\* A handler adds to what is answered for only when it answers, and its commit,
\* successful, undone or failed, takes nothing out of it.
LEMMA HandlerAnswered ==
    ASSUME TypeOK, Rooted, Flushes, Honest, NEW s \in Slots,
           HandlerStep(s) \/ CommitFails(s) \/ Drop(s)
    PROVE  /\ ~Respond(s) => Answered' = Answered
           /\ Respond(s) => Answered' = Answered \cup Inserted(req[s])
<1>0. /\ req[s] \in Request /\ req \in [Slots -> Request]
      /\ AnswerHonest(req[s]) /\ OrderCoherent(req[s])
      /\ \A t \in Slots \ {s} : req'[t] = req[t]
  BY HandlerOrder DEF TypeOK, Honest, Flushes
<1>1. CASE Respond(s)
  <2>1. /\ req'[s].base = req[s].base /\ req'[s].last = req[s].last
        /\ req'[s].phase = "applying" /\ req'[s].reply = "ok" /\ req[s].reply = "none"
    BY <1>0, <1>1 DEF Respond, Request
  <2>2. Promised(req[s]) = {} /\ Promised(req'[s]) = Inserted(req[s])
    BY <2>1 DEF Promised, Inserted
  <2>3. UNCHANGED <<receipts, unkept>>
    BY <1>1 DEF Respond, centralVars
  <2>4. Inserted(req[s]) \subseteq Answered'
    BY <2>2 DEF Answered, Awaited
  <2>5. Adds(Inserted(req[s]))
    BY <1>0, <2>2, <2>3, <2>4 DEF Adds, Answered
  <2>6. Answered' = Answered \cup Inserted(req[s])
    BY <2>5, AddsAnswered
  <2> QED
    BY <1>1, <2>6
<1>2. ASSUME ~Respond(s), UNCHANGED <<receipts, unkept>>,
             Promised(req[s]) = {}, Promised(req'[s]) = {}
      PROVE  Answered' = Answered
  <2>1. Adds({})
    BY <1>0, <1>2 DEF Adds, Answered
  <2> QED
    BY <2>1, AddsAnswered
<1>3. CASE (authenticate_site(s) \/ CheckReceipt(s) \/ ReadCursor(s) \/ Drop(s)) /\ ~Respond(s)
  <2>1. UNCHANGED <<receipts, unkept>>
    BY <1>3 DEF authenticate_site, CheckReceipt, ReadCursor, Drop, centralVars
  <2>2. req[s].reply # "ok"
    BY <1>0, <1>3 DEF authenticate_site, CheckReceipt, ReadCursor, Drop, Current, AnswerHonest
  <2>3. Promised(req[s]) = {}
    BY <2>2 DEF Promised
  <2>4. req'[s].reply # "ok" \/ Promised(req'[s]) = {}
    <3>1. ASSUME NEW reply \in Replies, Finish(s, reply) PROVE Promised(req'[s]) = {}
      BY <1>0, <3>1, FinishOrder
    <3>2. CASE authenticate_site(s)
      <4>1. CASE Finish(s, "http_401")
        BY <3>1, <4>1 DEF Replies
      <4>2. CASE req' = [req EXCEPT ![s].phase = "applying"]
        BY <1>0, <2>2, <4>2 DEF Request
      <4> QED
        BY <3>2, <4>1, <4>2 DEF authenticate_site
    <3>3. CASE CheckReceipt(s)
      <4>1. CASE UniqueViolation(req[s])
        BY <3>1, <3>3, <4>1 DEF CheckReceipt, Replies
      <4>2. CASE ~UniqueViolation(req[s])
        <5>1. PICK e \in Current(req[s]) :
             req' = [req EXCEPT ![s] =
                IF e \in receipts \cup Inserted(req[s])
                THEN [req[s] EXCEPT !.todo = @ \ {e}, !.accepted = @ \cup {e}]
                ELSE IF req[s].loaded THEN Decide(req[s], e, req[s].last)
                ELSE [req[s] EXCEPT !.seen = TRUE]]
          BY <3>3, <4>2 DEF CheckReceipt
        <5>2. /\ [req[s] EXCEPT !.todo = @ \ {e}, !.accepted = @ \cup {e}].reply = req[s].reply
              /\ Decide(req[s], e, req[s].last).reply = req[s].reply
              /\ [req[s] EXCEPT !.seen = TRUE].reply = req[s].reply
          BY <1>0 DEF Decide, Request
        <5>3. \/ req'[s] = [req[s] EXCEPT !.todo = @ \ {e}, !.accepted = @ \cup {e}]
              \/ req'[s] = Decide(req[s], e, req[s].last)
              \/ req'[s] = [req[s] EXCEPT !.seen = TRUE]
          BY <1>0, <5>1
        <5> QED
          BY <2>2, <5>2, <5>3
      <4> QED
        BY <4>1, <4>2
    <3>4. CASE ReadCursor(s)
      <4>1. PICK e \in Current(req[s]) :
                req' = [req EXCEPT ![s] =
                    Decide([req[s] EXCEPT !.loaded = TRUE, !.base = cursor], e, cursor)]
        BY <3>4 DEF ReadCursor
      <4>2. req'[s].reply = req[s].reply
        BY <1>0, <4>1 DEF Decide, Request
      <4> QED
        BY <2>2, <4>2
    <3>5. CASE Drop(s)
      BY <1>0, <3>5, FreeIdle, IdleOrder DEF Drop
    <3> QED
      BY <1>3, <3>2, <3>3, <3>4, <3>5
  <2>5. Promised(req'[s]) = {}
    BY <2>4 DEF Promised
  <2> QED
    BY <1>2, <1>3, <2>1, <2>3, <2>5
<1>4. CASE Commit(s) /\ ~Respond(s)
  <2>1. /\ receipts \subseteq receipts' /\ receipts' \subseteq receipts \cup Inserted(req[s])
        /\ ~UniqueViolation(req[s]) => Inserted(req[s]) \subseteq receipts'
    BY <1>4, CommitEffect
  <2>2. req[s].phase = "applying" /\ req[s].reply = "ok" /\ unkept' = unkept
    BY <1>4 DEF Commit
  <2>3. Inserted(req[s]) \subseteq receipts'
    BY <2>1, <2>2, ViolationIsDuplicate
  <2>4. Promised(req[s]) = Inserted(req[s]) /\ Inserted(req[s]) \subseteq Answered
    BY <2>2 DEF Promised, Answered, Awaited
  <2>5. Promised(req'[s]) = {}
    BY <1>0, <1>4, FinishOrder DEF Commit, Replies
  <2>6. receipts' \cup unkept' \subseteq Answered
    BY <2>1, <2>2, <2>4 DEF Answered
  <2>7. Adds({})
    BY <1>0, <2>1, <2>2, <2>3, <2>4, <2>5, <2>6 DEF Adds
  <2> QED
    BY <1>4, <2>7, AddsAnswered
<1>5. CASE CommitFails(s) /\ ~Respond(s)
  <2>1. /\ req[s].phase = "applying" /\ req[s].reply = "ok" /\ receipts' = receipts
        /\ unkept' = unkept \cup Inserted(req[s])
    BY <1>5 DEF CommitFails
  <2>2. Promised(req[s]) = Inserted(req[s]) /\ Inserted(req[s]) \subseteq Answered
    BY <2>1 DEF Promised, Answered, Awaited
  <2>3. Promised(req'[s]) = {}
    BY <1>0, <1>5, FinishOrder DEF CommitFails, Replies
  <2>4. receipts' \cup unkept' \subseteq Answered
    BY <2>1, <2>2 DEF Answered
  <2>5. Adds({})
    BY <1>0, <2>1, <2>2, <2>3, <2>4 DEF Adds
  <2> QED
    BY <1>5, <2>5, AddsAnswered
<1> QED
  BY <1>1, <1>3, <1>4, <1>5 DEF HandlerStep

\* The answers of a slot whose transaction the step does not touch stay honest.
LEMMA UntouchedHonest ==
    ASSUME NEW t \in Slots, AnswerHonest(req[t]), Untouched(t), Answered \subseteq Answered'
    PROVE  AnswerHonest(req[t])'
<1>1. CASE SameWork(t) /\ SameAnswer(t)
  BY <1>1 DEF SameWork, SameAnswer, AnswerHonest
<1>2. CASE Idle(req'[t])
  BY <1>2 DEF Idle, AnswerHonest
<1> QED
  BY <1>1, <1>2 DEF Untouched

\* A 200 is honest when it leaves, and stays so.
LEMMA HandlerHonest ==
    ASSUME TypeOK, Rooted, Flushes, Honest, NEW s \in Slots,
           HandlerStep(s) \/ CommitFails(s) \/ Drop(s)
    PROVE  Honest'
<1>0. /\ req[s] \in Request /\ req \in [Slots -> Request]
      /\ AnswerHonest(req[s]) /\ OrderCoherent(req[s]) /\ HandlerCoherent(req[s])
      /\ \A t \in Slots \ {s} : req'[t] = req[t]
  BY HandlerOrder DEF TypeOK, Honest, Flushes, Rooted
<1>1. Answered \subseteq Answered'
  BY HandlerAnswered
<1>2. \A t \in Slots \ {s} : AnswerHonest(req[t])'
  BY <1>0, <1>1 DEF Honest, AnswerHonest
<1> SUFFICES AnswerHonest(req[s])'
  BY <1>2 DEF Honest
<1>3. ASSUME NEW reply \in Replies, Finish(s, reply),
             reply = "ok" => req[s].todo = {} /\ req[s].accepted \subseteq Answered
      PROVE  AnswerHonest(req[s])'
  <2>1. CASE req'[s] = FreeSlot
    BY <2>1 DEF FreeSlot, AnswerHonest
  <2>2. CASE SameWork(s) /\ req'[s].phase = "done" /\ req'[s].reply = reply
    BY <1>1, <1>3, <2>2 DEF SameWork, AnswerHonest
  <2> QED
    BY <1>3, <2>1, <2>2, FinishSlots
<1>4. ASSUME req'[s].phase = "applying", req'[s].reply # "ok" PROVE AnswerHonest(req[s])'
  BY <1>4 DEF AnswerHonest
<1>5. CASE authenticate_site(s)
  <2>1. req[s].reply = "none"
    BY <1>0, <1>5 DEF authenticate_site, AnswerHonest
  <2>2. CASE Finish(s, "http_401")
    BY <1>3, <2>2 DEF Replies
  <2>3. CASE req' = [req EXCEPT ![s].phase = "applying"]
    BY <1>0, <1>4, <2>1, <2>3 DEF Request
  <2> QED
    BY <1>5, <2>2, <2>3 DEF authenticate_site
<1>6. CASE CheckReceipt(s)
  <2>1. req[s].phase = "applying" /\ req[s].reply # "ok"
    BY <1>0, <1>6 DEF CheckReceipt, AnswerHonest
  <2>2. CASE UniqueViolation(req[s])
    BY <1>3, <1>6, <2>2 DEF CheckReceipt, Replies
  <2>3. CASE ~UniqueViolation(req[s])
    <3>1. PICK e \in Current(req[s]) :
             req' = [req EXCEPT ![s] =
                IF e \in receipts \cup Inserted(req[s])
                THEN [req[s] EXCEPT !.todo = @ \ {e}, !.accepted = @ \cup {e}]
                ELSE IF req[s].loaded THEN Decide(req[s], e, req[s].last)
                ELSE [req[s] EXCEPT !.seen = TRUE]]
      BY <1>6, <2>3 DEF CheckReceipt
    <3> DEFINE Same(q) == q.reply = req[s].reply /\ q.phase = req[s].phase
    <3>2. /\ Same([req[s] EXCEPT !.todo = @ \ {e}, !.accepted = @ \cup {e}])
          /\ Same(Decide(req[s], e, req[s].last))
          /\ Same([req[s] EXCEPT !.seen = TRUE])
      BY <1>0 DEF Decide, Request
    <3>3. \/ req'[s] = [req[s] EXCEPT !.todo = @ \ {e}, !.accepted = @ \cup {e}]
          \/ req'[s] = Decide(req[s], e, req[s].last)
          \/ req'[s] = [req[s] EXCEPT !.seen = TRUE]
      BY <1>0, <3>1
    <3> HIDE DEF Same
    <3>4. Same(req'[s])
      BY <3>2, <3>3
    <3> QED
      BY <1>4, <2>1, <3>4 DEF Same
  <2> QED
    BY <2>2, <2>3
<1>7. CASE ReadCursor(s)
  <2>1. PICK e \in Current(req[s]) :
            req' = [req EXCEPT ![s] =
                Decide([req[s] EXCEPT !.loaded = TRUE, !.base = cursor], e, cursor)]
    BY <1>7 DEF ReadCursor
  <2>2. req[s].phase = "applying" /\ req[s].reply # "ok"
    BY <1>0, <1>7, <2>1 DEF ReadCursor, AnswerHonest, Current
  <2>3. req'[s].reply = req[s].reply /\ req'[s].phase = req[s].phase
    BY <1>0, <2>1 DEF Decide, Request
  <2> QED
    BY <1>4, <2>2, <2>3
<1>8. CASE Respond(s)
  <2>1. /\ req'[s].phase = "applying" /\ req'[s].reply = "ok" /\ req'[s].todo = {}
        /\ req'[s].accepted = req[s].accepted
    BY <1>0, <1>8 DEF Respond, Request
  <2>2. req[s].accepted \subseteq receipts \cup Inserted(req[s])
    BY <1>0 DEF HandlerCoherent
  <2>3. Answered' = Answered \cup Inserted(req[s]) /\ receipts \subseteq Answered
    BY <1>8, HandlerAnswered DEF Answered
  <2>4. req'[s].accepted \subseteq Answered'
    BY <2>1, <2>2, <2>3
  <2> QED
    BY <2>1, <2>4 DEF AnswerHonest
<1>9. CASE Commit(s) \/ CommitFails(s)
  <2>1. Finish(s, "ok") /\ req[s].reply = "ok"
    BY <1>9 DEF Commit, CommitFails
  <2> QED
    BY <1>0, <1>3, <2>1 DEF AnswerHonest, Replies
<1>10. CASE Drop(s)
  <2>1. req'[s] = FreeSlot
    BY <1>0, <1>10 DEF Drop
  <2> QED
    BY <2>1 DEF FreeSlot, AnswerHonest
<1> QED
  BY <1>5, <1>6, <1>7, <1>8, <1>9, <1>10 DEF HandlerStep

\* Steps that leave transactions and Central's tables alone keep both parts.
LEMMA UntouchedCoherent ==
    ASSUME Flushes, Honest, UNCHANGED <<receipts, unkept>>, \A t \in Slots : Untouched(t)
    PROVE  Flushes' /\ Honest'
<1>1. Answered' = Answered
  BY UntouchedAnswered
<1>2. \A t \in Slots : OrderCoherent(req'[t]) /\ Flushed(req'[t]) \subseteq Flushed(req[t])
  BY UntouchedOrder DEF Flushes
<1>3. Flushes'
  BY <1>2, ShrinkFlushes
<1>4. Honest'
  BY <1>1, UntouchedHonest DEF Honest
<1> QED
  BY <1>3, <1>4

-----------------------------------------------------------------------------
(* The theorems *)

\* The steps that touch no transaction.
LEMMA OtherStepUntouched ==
    ASSUME TypeOK,
           \/ enqueue_outbox
           \/ \E e \in Events : LeaseExpires(e) \/ BackoffElapses(e)
           \/ retry_failed_sync
           \/ Revoke
           \/ Reenroll
           \/ UNCHANGED vars
    PROVE  UNCHANGED <<receipts, cursor, unkept>> /\ \A t \in Slots : Untouched(t)
<1>1. UNCHANGED <<receipts, cursor, unkept, req>>
  BY DEF enqueue_outbox, LeaseExpires, BackoffElapses, retry_failed_sync, Revoke, Reenroll,
         vars, siteVars, centralVars
<1> QED
  BY <1>1 DEF Untouched, SameWork, SameAnswer

LEMMA InitCoherent == Init => Coherent
<1> SUFFICES ASSUME Init PROVE Coherent
  OBVIOUS
<1>1. \A s \in Slots : req[s] = FreeSlot
  BY DEF Init
<1>2. \A s \in Slots : OrderCoherent(req[s]) /\ FlushCoherent(s)
  BY <1>1, FreeIdle, IdleOrder DEF FlushCoherent
<1>3. \A s \in Slots : AnswerHonest(req[s])
  BY <1>1 DEF FreeSlot, AnswerHonest
<1> QED
  BY <1>2, <1>3, InitRooted DEF Coherent, Rooted

LEMMA NextCoherent ==
    ASSUME TypeOK, TypeOK', Coherent, [Next]_vars
    PROVE  Coherent'
<1>1. Rooted /\ Flushes /\ Honest
  BY DEF Coherent, Rooted, Flushes, Honest
<1>2. Rooted'
  BY <1>1, StutterRooted, SiteStepRooted, HandlerStepRooted, OtherStepRooted DEF Next
<1>3. Flushes' /\ Honest'
  <2>1. ASSUME NEW w \in Workers, SiteStep(w) PROVE Flushes' /\ Honest'
    BY <1>1, <2>1, SiteStepUntouched, SiteStepRows, UntouchedCoherent
  <2>2. ASSUME NEW s \in Slots, HandlerStep(s) \/ CommitFails(s) \/ Drop(s)
        PROVE  Flushes' /\ Honest'
    BY <1>1, <2>2, HandlerFlushes, HandlerHonest
  <2>3. ASSUME \/ enqueue_outbox
               \/ \E e \in Events : LeaseExpires(e) \/ BackoffElapses(e)
               \/ retry_failed_sync
               \/ Revoke
               \/ Reenroll
               \/ UNCHANGED vars
        PROVE  Flushes' /\ Honest'
    BY <1>1, <2>3, OtherStepUntouched, UntouchedCoherent
  <2> QED
    BY <2>1, <2>2, <2>3 DEF Next
<1> QED
  BY <1>2, <1>3 DEF Coherent, Rooted, Flushes, Honest

\* In every behaviour the handlers of receive_site_events stay coherent with what
\* is committed and with each other.  The induction needs all of Coherent: the unique
\* constraint alone gives neither ReceiptsMatchCursor (no transaction has read a cursor
\* beyond the current one, and it inserts a run right after it) nor an honest answer
\* (what it undoes another handler has committed, because of the flush before every
\* lookup).
THEOREM CoherenceInvariant == Spec => [](TypeOK /\ Coherent)
<1>1. TypeOK /\ TypeOK' /\ Coherent /\ [Next]_vars => Coherent'
  BY NextCoherent
<1> QED
  BY <1>1, InitCoherent, TypeCorrect, PTL DEF Spec

\* However many handlers, retries and duplicates interleave, Central's receipts are
\* exactly the sequences up to its cursor (apply_site_event).
THEOREM ReceiptsAgree == Spec => []ReceiptsMatchCursor
<1>1. Coherent => ReceiptsMatchCursor
  BY DEF Coherent
<1> QED
  BY <1>1, CoherenceInvariant, PTL

\* What Central has answered for stays answered for.
LEMMA AnsweredGrows ==
    ASSUME TypeOK, Coherent, [Next]_vars
    PROVE  Answered \subseteq Answered'
<1>1. Rooted /\ Flushes /\ Honest
  BY DEF Coherent, Rooted, Flushes, Honest
<1>2. ASSUME NEW w \in Workers, SiteStep(w) PROVE Answered' = Answered
  BY <1>1, <1>2, SiteStepUntouched, SiteStepRows, UntouchedAnswered
<1>3. ASSUME NEW s \in Slots, HandlerStep(s) \/ CommitFails(s) \/ Drop(s)
      PROVE  Answered \subseteq Answered'
  BY <1>1, <1>3, HandlerAnswered
<1>4. ASSUME \/ enqueue_outbox
             \/ \E e \in Events : LeaseExpires(e) \/ BackoffElapses(e)
             \/ retry_failed_sync
             \/ Revoke
             \/ Reenroll
             \/ UNCHANGED vars
      PROVE  Answered' = Answered
  BY <1>1, <1>4, OtherStepUntouched, UntouchedAnswered
<1> QED
  BY <1>2, <1>3, <1>4 DEF Next

\* Only Site workers complete rows, and only rows that Central has answered for.
LEMMA CompletesAnswered ==
    ASSUME TypeOK, Coherent, [Next]_vars, NEW e \in Events, status'[e] = "SUCCEEDED"
    PROVE  status[e] = "SUCCEEDED" \/ e \in Answered
<1>1. Rooted /\ Honest
  BY DEF Coherent, Rooted, Honest
<1>2. ASSUME NEW w \in Workers, SiteStep(w) PROVE status[e] = "SUCCEEDED" \/ e \in Answered
  BY <1>1, <1>2, SiteStepRows DEF CompletesAccepted, Honest, AnswerHonest
<1>3. CASE enqueue_outbox \/ retry_failed_sync
  BY <1>3 DEF enqueue_outbox, retry_failed_sync, TypeOK
<1>4. CASE \/ \E s \in Slots : HandlerStep(s) \/ CommitFails(s) \/ Drop(s)
           \/ \E f \in Events : LeaseExpires(f) \/ BackoffElapses(f)
           \/ Revoke
           \/ Reenroll
           \/ UNCHANGED vars
  BY <1>4 DEF HandlerStep, authenticate_site, CheckReceipt, ReadCursor, Respond, Commit,
              CommitFails, Drop, LeaseExpires, BackoffElapses, Revoke, Reenroll, vars, siteVars
<1> QED
  BY <1>2, <1>3, <1>4 DEF Next

\* The Site completes an outbox row only if Central holds its receipt, is about to commit
\* it, or has failed to commit it behind the response that db() follows: two handlers
\* with the same events, and the unique constraint that undoes one of them, lose nothing.
THEOREM NothingLost == Spec => []OnlyFaultsLose
<1>1. Init => OnlyFaultsLose
  BY DEF Init, OnlyFaultsLose
<1>2. TypeOK /\ Coherent /\ OnlyFaultsLose /\ [Next]_vars => OnlyFaultsLose'
  BY AnsweredGrows, CompletesAnswered DEF OnlyFaultsLose
<1> QED
  BY <1>1, <1>2, CoherenceInvariant, PTL DEF Spec

\* No late answer, overrun lease, stale worker or retry-failed reopens a completed
\* outbox row.
THEOREM CompletedStays == Spec => SucceededIsFinal
<1> DEFINE Final == \A e \in Events : status[e] = "SUCCEEDED" => status'[e] = "SUCCEEDED"
<1>1. ASSUME TypeOK, Coherent, [Next]_vars PROVE [Final]_status
  <2>1. ASSUME NEW w \in Workers, SiteStep(w) PROVE Final
    BY <1>1, <2>1, SiteStepRows DEF RowsKept, Coherent, Rooted
  <2>2. CASE enqueue_outbox
    <3>1. next \in Events => status[next] = "NONE"
      BY <1>1, ConstantsAssumption DEF Coherent, RowsExist, TypeOK, Events
    <3> QED
      BY <1>1, <2>2, <3>1 DEF enqueue_outbox, TypeOK
  <2>3. CASE retry_failed_sync
    BY <1>1, <2>3 DEF retry_failed_sync, TypeOK
  <2>4. CASE \/ \E s \in Slots : HandlerStep(s) \/ CommitFails(s) \/ Drop(s)
             \/ \E e \in Events : LeaseExpires(e) \/ BackoffElapses(e)
             \/ Revoke
             \/ Reenroll
             \/ UNCHANGED vars
    <3>1. UNCHANGED status
      BY <2>4 DEF HandlerStep, authenticate_site, CheckReceipt, ReadCursor, Respond,
                  Commit, CommitFails, Drop, LeaseExpires, BackoffElapses, Revoke, Reenroll,
                  vars, siteVars
    <3> QED
      BY <3>1
  <2> QED
    BY <1>1, <2>1, <2>2, <2>3, <2>4 DEF Next
<1> QED
  BY <1>1, CoherenceInvariant, PTL DEF Spec, SucceededIsFinal

\* The whole direction (leases, retries, crashes, concurrent handlers, responses before
\* commits) implements OrderedDelivery: every event is applied at most once and in
\* sequence order, and retired only after Central has answered for it.
THEOREM Refinement == Spec => ImplementsOrderedDelivery
<1> DEFINE done == {e \in Events : status[e] = "SUCCEEDED"}
<1>1. Init => Ordered!Init
  <2> SUFFICES ASSUME Init PROVE Ordered!Init
    OBVIOUS
  <2>1. \A s \in Slots : Promised(req[s]) = {}
    BY FreeIdle, IdleOrder DEF Init
  <2>2. Answered = {}
    BY <2>1 DEF Answered, Awaited, Init
  <2> QED
    BY <2>2 DEF Init, Ordered!Init
<1>2. ASSUME TypeOK, Coherent, OnlyFaultsLose, [Next]_vars PROVE [Ordered!Next]_(Ordered!vars)
  <2>0. next \in Nat /\ cursor \in Nat
    BY <1>2, ConstantsAssumption DEF TypeOK
  <2>00. Rooted /\ Flushes /\ Honest
    BY <1>2 DEF Coherent, Rooted, Flushes, Honest
  <2>1. ASSUME NEW w \in Workers, SiteStep(w) PROVE Ordered!Retire
    <3>1. RowsKept /\ CompletesAccepted /\ UNCHANGED <<next, receipts, cursor, unkept>>
      BY <1>2, <2>00, <2>1, SiteStepRows
    <3>2. done' \in SUBSET Answered
      BY <1>2, CompletesAnswered DEF OnlyFaultsLose
    <3>3. done' = done \cup done'
      BY <3>1 DEF RowsKept
    <3>4. Answered' = Answered
      BY <1>2, <2>00, <2>1, <3>1, SiteStepUntouched, UntouchedAnswered
    <3> QED
      BY <3>1, <3>2, <3>3, <3>4 DEF Ordered!Retire
  <2>2. CASE enqueue_outbox
    <3>1. next' = next + 1 /\ UNCHANGED cursor /\ status' = [status EXCEPT ![next] = "PENDING"]
      BY <2>2 DEF enqueue_outbox, centralVars
    <3>2. next \in Events => status[next] = "NONE"
      BY <1>2, <2>0 DEF Coherent, RowsExist, Events
    <3>3. done' = done
      BY <1>2, <3>1, <3>2 DEF TypeOK
    <3>4. next' - 1 = (next - 1) + 1
      BY <2>0, <3>1
    <3>5. Answered' = Answered
      BY <1>2, <2>00, <2>2, OtherStepUntouched, UntouchedAnswered
    <3> QED
      BY <3>1, <3>3, <3>4, <3>5 DEF Ordered!Next, Ordered!Enqueue
  <2>3. ASSUME NEW s \in Slots, Commit(s) PROVE [Ordered!Next]_(Ordered!vars)
    <3>1. /\ UNCHANGED <<next, status>> /\ cursor <= cursor' /\ cursor' < next
          /\ receipts' = 1..cursor'
      BY <1>2, <2>00, <2>3, CommitEffect
    <3>2. cursor' \in Nat
      <4>1. req[s].last \in Nat
        BY <1>2, ConstantsAssumption DEF TypeOK, Request
      <4> QED
        BY <2>0, <2>3, <4>1 DEF Commit
    <3>3. Answered' = Answered
      <4>1. ~Respond(s)
        BY <2>3 DEF Commit, Respond
      <4> QED
        BY <1>2, <2>00, <2>3, <4>1, HandlerAnswered DEF HandlerStep
    <3>4. CASE cursor' = cursor
      BY <3>1, <3>3, <3>4 DEF Ordered!vars
    <3>5. CASE cursor' # cursor
      <4>1. cursor' \in (cursor + 1)..(next - 1)
        BY <2>0, <3>1, <3>2, <3>5
      <4>2. (cursor + 1)..cursor' \subseteq Answered'
        BY <2>0, <3>1, <3>2 DEF Answered
      <4>3. Answered' = Answered \cup (cursor + 1)..cursor'
        BY <3>3, <4>2
      <4> QED
        BY <3>1, <4>1, <4>3 DEF Ordered!Next, Ordered!Apply
    <3> QED
      BY <3>4, <3>5
  <2>4. ASSUME NEW s \in Slots, Respond(s) PROVE [Ordered!Next]_(Ordered!vars)
    <3>1. UNCHANGED <<next, status, receipts, cursor>>
      BY <2>4 DEF Respond, siteVars, centralVars
    <3>2. Answered' = Answered \cup Inserted(req[s])
      BY <1>2, <2>00, <2>4, HandlerAnswered DEF HandlerStep
    <3>3. /\ req[s].base \in Nat /\ req[s].last \in Nat /\ req[s].base <= cursor
          /\ req[s].last < next /\ receipts = 1..cursor
      BY <1>2, ConstantsAssumption
         DEF TypeOK, Request, Coherent, HandlerCoherent, ReceiptsMatchCursor
    <3>4. \A x : x \in Inserted(req[s]) \ (1..cursor) <=> x \in ((cursor + 1)..req[s].last)
      BY <2>0, <3>3 DEF Inserted
    <3>5. 1..cursor \subseteq Answered
      BY <3>3 DEF Answered
    <3>6. Answered' = Answered \cup (cursor + 1)..req[s].last
      BY <3>2, <3>4, <3>5
    <3>7. CASE req[s].last <= cursor
      <4>1. (cursor + 1)..req[s].last = {}
        BY <2>0, <3>3, <3>7
      <4> QED
        BY <3>1, <3>6, <4>1 DEF Ordered!vars
    <3>8. CASE ~(req[s].last <= cursor)
      <4>1. req[s].last \in (cursor + 1)..(next - 1)
        BY <2>0, <3>3, <3>8
      <4> QED
        BY <3>1, <3>6, <4>1 DEF Ordered!Next, Ordered!Answer
    <3> QED
      BY <3>7, <3>8
  <2>5. ASSUME NEW s \in Slots,
               \/ authenticate_site(s) \/ CheckReceipt(s) \/ ReadCursor(s)
               \/ CommitFails(s) \/ Drop(s),
               ~Respond(s)
        PROVE  UNCHANGED Ordered!vars
    <3>1. UNCHANGED <<next, status, cursor>>
      BY <2>5 DEF authenticate_site, CheckReceipt, ReadCursor, CommitFails, Drop, siteVars,
                  centralVars
    <3>2. Answered' = Answered
      BY <1>2, <2>00, <2>5, HandlerAnswered DEF HandlerStep
    <3> QED
      BY <3>1, <3>2 DEF Ordered!vars
  <2>6. ASSUME \/ \E e \in Events : LeaseExpires(e) \/ BackoffElapses(e)
               \/ retry_failed_sync
               \/ Revoke
               \/ Reenroll
               \/ UNCHANGED vars
        PROVE  UNCHANGED Ordered!vars
    <3>1. UNCHANGED <<next, cursor>> /\ done' = done
      BY <1>2, <2>6 DEF LeaseExpires, BackoffElapses, retry_failed_sync, Revoke, Reenroll, vars,
                        siteVars, centralVars, TypeOK
    <3>2. Answered' = Answered
      BY <1>2, <2>00, <2>6, OtherStepUntouched, UntouchedAnswered
    <3> QED
      BY <3>1, <3>2 DEF Ordered!vars
  <2> QED
    BY <1>2, <2>1, <2>2, <2>3, <2>4, <2>5, <2>6 DEF Next, HandlerStep, Ordered!Next
<1> QED
  BY <1>1, <1>2, CoherenceInvariant, NothingLost, PTL
  DEF Spec, ImplementsOrderedDelivery, Ordered!Spec

-----------------------------------------------------------------------------
(* Races and faults alone fail no row for good *)

\* An answer leaves none of the events it was asked about open: an event the handler is
\* done with is accepted, beyond a gap, or refused; a 200 has looked at all of them.
AnswerComplete(r) ==
    /\ r.batch \ r.todo \subseteq r.accepted \cup r.gaps \cup Rejected
    /\ r.reply = "ok" => r.todo = {}

\* A worker waits for one answer, the one about the batch it holds.
OneRequest ==
    \A w \in Workers : \A s \in Slots : req[s].client = w =>
        /\ held[w] = req[s].batch /\ held[w] # {}
        /\ \A t \in Slots : req[t].client = w => t = s

\* Before a second credential is issued all requests carry the first one, and before
\* that one is revoked none is refused for it.
FirstCredential ==
    issued = 1 =>
        /\ token = 1
        /\ \A s \in Slots : req[s].phase = "received" => req[s].token = 1
        /\ credential = 1 => \A s \in Slots : req[s].reply # "http_401"

\* The inductive invariant behind OnlyRefusalFails.
RefusalCoherent ==
    /\ \A s \in Slots : AnswerComplete(req[s])
    /\ OneRequest
    /\ FirstCredential
    /\ OnlyRefusalFails

\* What a handler may do to its slot: free it, or go on with the same request.
GoesOn(r, q) ==
    /\ q.client = r.client /\ q.batch = r.batch /\ q.token = r.token
    /\ AnswerComplete(q)
    /\ q.phase = "received" => r.phase = "received"
    /\ q.reply = "http_401" => \/ r.reply = "http_401"
                               \/ r.phase = "received" /\ ~(credential # 0 /\ r.token = credential)

LEMMA FreeSlotComplete == AnswerComplete(FreeSlot)
BY DEF AnswerComplete, FreeSlot

LEMMA DecideGoesOn ==
    ASSUME NEW r \in Request, AnswerComplete(r), NEW e \in Events, NEW last,
           e \in r.todo
    PROVE  GoesOn(r, Decide(r, e, last))
<1> DEFINE q == Decide(r, e, last)
<1>1. /\ q.client = r.client /\ q.batch = r.batch /\ q.token = r.token /\ q.phase = r.phase
      /\ q.reply = r.reply /\ q.todo = r.todo \ {e}
      /\ q.accepted = IF e = last + 1 /\ e \notin Rejected THEN r.accepted \cup {e} ELSE r.accepted
      /\ q.gaps = IF e # last + 1 THEN r.gaps \cup {e} ELSE r.gaps
  BY DEF Decide, Request
<1> HIDE DEF q
<1>2. AnswerComplete(q)
  BY <1>1 DEF AnswerComplete
<1>3. GoesOn(r, q)
  BY <1>1, <1>2 DEF GoesOn
<1> QED
  BY <1>3 DEF q

LEMMA FinishGoesOn ==
    ASSUME TypeOK, NEW s \in Slots, AnswerComplete(req[s]), NEW reply, Finish(s, reply),
           reply = "ok" => req[s].todo = {},
           reply = "http_401" => /\ req[s].phase = "received"
                                 /\ ~(credential # 0 /\ req[s].token = credential)
    PROVE  /\ \A t \in Slots \ {s} : req'[t] = req[t]
           /\ req'[s] = FreeSlot \/ GoesOn(req[s], req'[s])
<1>1. /\ \A t \in Slots \ {s} : req'[t] = req[t]
      /\ \/ req'[s] = FreeSlot
         \/ req'[s] = [req[s] EXCEPT !.phase = "done", !.reply = reply]
  BY DEF Finish, TypeOK
<1>2. ASSUME req'[s] = [req[s] EXCEPT !.phase = "done", !.reply = reply]
      PROVE  GoesOn(req[s], req'[s])
  <2>1. req[s] \in Request
    BY DEF TypeOK
  <2>2. /\ req'[s].client = req[s].client /\ req'[s].batch = req[s].batch
        /\ req'[s].token = req[s].token /\ req'[s].phase = "done" /\ req'[s].reply = reply
        /\ req'[s].todo = req[s].todo /\ req'[s].accepted = req[s].accepted
        /\ req'[s].gaps = req[s].gaps
    BY <1>2, <2>1 DEF Request
  <2> QED
    BY <2>2 DEF GoesOn, AnswerComplete
<1> QED
  BY <1>1, <1>2

LEMMA HandlerGoesOn ==
    ASSUME TypeOK, NEW s \in Slots, AnswerComplete(req[s]),
           HandlerStep(s) \/ CommitFails(s) \/ Drop(s)
    PROVE  /\ \A t \in Slots \ {s} : req'[t] = req[t]
           /\ req'[s] = FreeSlot \/ GoesOn(req[s], req'[s])
<1> DEFINE Goal == /\ \A t \in Slots \ {s} : req'[t] = req[t]
                   /\ req'[s] = FreeSlot \/ GoesOn(req[s], req'[s])
<1>0. req[s] \in Request /\ req \in [Slots -> Request]
  BY DEF TypeOK
<1>1. CASE authenticate_site(s)
  <2>1. CASE credential # 0 /\ req[s].token = credential
    <3>1. req' = [req EXCEPT ![s].phase = "applying"]
      BY <1>1, <2>1 DEF authenticate_site
    <3>2. req'[s] = [req[s] EXCEPT !.phase = "applying"] /\ \A t \in Slots \ {s} : req'[t] = req[t]
      BY <1>0, <3>1
    <3>3. GoesOn(req[s], req'[s])
      BY <1>0, <3>2 DEF Request, GoesOn, AnswerComplete
    <3> QED
      BY <3>2, <3>3
  <2>2. CASE ~(credential # 0 /\ req[s].token = credential)
    <3>1. Finish(s, "http_401") /\ req[s].phase = "received"
      BY <1>1, <2>2 DEF authenticate_site
    <3> QED
      BY <2>2, <3>1, FinishGoesOn
  <2> QED
    BY <2>1, <2>2
<1>2. CASE CheckReceipt(s)
  <2>1. CASE UniqueViolation(req[s])
    <3>1. Finish(s, "http_500")
      BY <1>2, <2>1 DEF CheckReceipt
    <3> QED
      BY <3>1, FinishGoesOn
  <2>2. CASE ~UniqueViolation(req[s])
    <3>1. PICK e \in Current(req[s]) :
             req' = [req EXCEPT ![s] =
                IF e \in receipts \cup Inserted(req[s])
                THEN [req[s] EXCEPT !.todo = @ \ {e}, !.accepted = @ \cup {e}]
                ELSE IF req[s].loaded THEN Decide(req[s], e, req[s].last)
                ELSE [req[s] EXCEPT !.seen = TRUE]]
      BY <1>2, <2>2 DEF CheckReceipt
    <3>2. e \in req[s].todo /\ e \in Events
      BY <1>0 DEF Current, Request
    <3>3. \A t \in Slots \ {s} : req'[t] = req[t]
      BY <1>0, <3>1
    <3>4. \/ req'[s] = [req[s] EXCEPT !.todo = @ \ {e}, !.accepted = @ \cup {e}]
          \/ req'[s] = Decide(req[s], e, req[s].last)
          \/ req'[s] = [req[s] EXCEPT !.seen = TRUE]
      BY <1>0, <3>1
    <3>5. GoesOn(req[s], [req[s] EXCEPT !.todo = @ \ {e}, !.accepted = @ \cup {e}])
      BY <1>0, <3>2 DEF Request, GoesOn, AnswerComplete
    <3>6. GoesOn(req[s], [req[s] EXCEPT !.seen = TRUE])
      BY <1>0 DEF Request, GoesOn, AnswerComplete
    <3> QED
      BY <1>0, <3>2, <3>3, <3>4, <3>5, <3>6, DecideGoesOn
  <2> QED
    BY <2>1, <2>2
<1>3. CASE ReadCursor(s)
  <2> DEFINE r == [req[s] EXCEPT !.loaded = TRUE, !.base = cursor]
  <2>1. PICK e \in Current(req[s]) : req' = [req EXCEPT ![s] = Decide(r, e, cursor)]
    BY <1>3 DEF ReadCursor
  <2>2. e \in req[s].todo /\ e \in Events
    BY <1>0 DEF Current, Request
  <2>3. r \in Request /\ AnswerComplete(r) /\ r.todo = req[s].todo
        /\ r.client = req[s].client /\ r.batch = req[s].batch /\ r.token = req[s].token
        /\ r.phase = req[s].phase /\ r.reply = req[s].reply
    BY <1>0 DEF Request, AnswerComplete, TypeOK
  <2>4. req'[s] = Decide(r, e, cursor) /\ \A t \in Slots \ {s} : req'[t] = req[t]
    BY <1>0, <2>1
  <2> HIDE DEF r
  <2>5. GoesOn(r, req'[s])
    BY <2>2, <2>3, <2>4, DecideGoesOn
  <2> QED
    BY <2>3, <2>4, <2>5 DEF GoesOn
<1>4. CASE Respond(s)
  <2>1. req[s].todo = {} /\ req' = [req EXCEPT ![s].reply = "ok"]
    BY <1>4 DEF Respond
  <2>2. req'[s] = [req[s] EXCEPT !.reply = "ok"] /\ \A t \in Slots \ {s} : req'[t] = req[t]
    BY <1>0, <2>1
  <2>3. GoesOn(req[s], req'[s])
    BY <1>0, <2>1, <2>2 DEF Request, GoesOn, AnswerComplete
  <2> QED
    BY <2>2, <2>3
<1>5. CASE Commit(s) \/ CommitFails(s)
  <2>1. Finish(s, "ok") /\ req[s].reply = "ok"
    BY <1>5 DEF Commit, CommitFails
  <2>2. req[s].todo = {}
    BY <2>1 DEF AnswerComplete
  <2> QED
    BY <2>1, <2>2, FinishGoesOn
<1>6. CASE Drop(s)
  BY <1>0, <1>6 DEF Drop
<1> QED
  BY <1>1, <1>2, <1>3, <1>4, <1>5, <1>6 DEF HandlerStep

\* The rows a step leaves alone, or reopens, are not failed by it.
FailsNone == \A e \in Events : status'[e] = "FAILED" => status[e] = "FAILED"

LEMMA HandlerStepRefusal ==
    ASSUME TypeOK, RefusalCoherent, NEW s \in Slots,
           HandlerStep(s) \/ CommitFails(s) \/ Drop(s)
    PROVE  RefusalCoherent'
<1>1. /\ \A t \in Slots \ {s} : req'[t] = req[t]
      /\ req'[s] = FreeSlot \/ GoesOn(req[s], req'[s])
  BY HandlerGoesOn DEF RefusalCoherent
<1>2. UNCHANGED <<status, held, issued, token, credential>>
  BY DEF HandlerStep, Drop, authenticate_site, CheckReceipt, ReadCursor, Respond, Commit,
         CommitFails, siteVars, enrollVars
<1>3. /\ FreeSlot.client = NoWorker /\ FreeSlot.phase = "free" /\ FreeSlot.reply = "none"
      /\ NoWorker \notin Workers
  BY ConstantsAssumption DEF FreeSlot
<1>4. \A t \in Slots : AnswerComplete(req'[t])
  BY <1>1, FreeSlotComplete DEF RefusalCoherent, GoesOn
<1>5. OneRequest'
  BY <1>1, <1>2, <1>3 DEF RefusalCoherent, OneRequest, GoesOn
<1>6. FirstCredential'
  BY <1>1, <1>2, <1>3 DEF RefusalCoherent, FirstCredential, GoesOn
<1>7. OnlyRefusalFails'
  BY <1>2 DEF RefusalCoherent, OnlyRefusalFails
<1> QED
  BY <1>4, <1>5, <1>6, <1>7 DEF RefusalCoherent, AnswerComplete

\* The slots when worker w stops waiting: those it waited for are free or nobody's.
LetGo(w) ==
    \A t \in Slots :
        \/ req'[t] = FreeSlot
        \/ /\ req'[t] = req[t] \/ req'[t] = [req[t] EXCEPT !.client = NoWorker]
           /\ req'[t].client # w

LEMMA LetGoRefusal ==
    ASSUME TypeOK, RefusalCoherent, NEW w \in Workers, LetGo(w),
           held' = [held EXCEPT ![w] = {}],
           UNCHANGED <<issued, token, credential>>,
           FailsNone \/ (issued = 1 /\ credential = 1 => \A e \in Events :
                            status'[e] = "FAILED" => status[e] = "FAILED" \/ e \in Rejected)
    PROVE  RefusalCoherent'
<1>1. \A t \in Slots : \/ req'[t] = FreeSlot
                       \/ /\ req'[t].batch = req[t].batch /\ req'[t].todo = req[t].todo
                          /\ req'[t].accepted = req[t].accepted /\ req'[t].gaps = req[t].gaps
                          /\ req'[t].reply = req[t].reply /\ req'[t].phase = req[t].phase
                          /\ req'[t].token = req[t].token
                          /\ req'[t].client \in {req[t].client, NoWorker} /\ req'[t].client # w
  <2> TAKE t \in Slots
  <2>1. req[t] \in Request
    BY DEF TypeOK
  <2>2. CASE req'[t] = [req[t] EXCEPT !.client = NoWorker] /\ req'[t].client # w
    BY <2>1, <2>2 DEF Request
  <2> QED
    BY <2>2 DEF LetGo
<1>2. /\ FreeSlot.client = NoWorker /\ FreeSlot.phase = "free" /\ FreeSlot.reply = "none"
      /\ NoWorker \notin Workers
  BY ConstantsAssumption DEF FreeSlot
<1>3. ASSUME NEW t \in Slots PROVE AnswerComplete(req[t])'
  <2>1. CASE req'[t] = FreeSlot
    BY <2>1, FreeSlotComplete DEF AnswerComplete
  <2>2. CASE req'[t] # FreeSlot
    BY <1>1, <2>2 DEF RefusalCoherent, AnswerComplete
  <2> QED
    BY <2>1, <2>2
<1>4. \A v \in Workers \ {w} : held'[v] = held[v]
  BY DEF TypeOK
<1>5. OneRequest'
  <2> SUFFICES ASSUME NEW v \in Workers, NEW s \in Slots, req'[s].client = v
               PROVE  /\ held'[v] = req'[s].batch /\ held'[v] # {}
                      /\ \A t \in Slots : req'[t].client = v => t = s
    BY DEF OneRequest
  <2>1. v # w /\ req[s].client = v /\ req'[s].batch = req[s].batch
    BY <1>1, <1>2
  <2>2. \A t \in Slots : req'[t].client = v => req[t].client = v
    BY <1>1, <1>2
  <2> QED
    BY <1>4, <2>1, <2>2 DEF RefusalCoherent, OneRequest
<1>6. FirstCredential'
  BY <1>1, <1>2 DEF RefusalCoherent, FirstCredential
<1>7. OnlyRefusalFails'
  BY DEF RefusalCoherent, OnlyRefusalFails, FailsNone
<1> QED
  BY <1>3, <1>5, <1>6, <1>7 DEF RefusalCoherent

\* Detach lets go of the only slot its worker waits for.
LEMMA DetachLetsGo ==
    ASSUME TypeOK, OneRequest, NEW w \in Workers, NEW s \in Slots, req[s].client = w, Detach(s)
    PROVE  LetGo(w)
<1>1. /\ \A t \in Slots \ {s} : req'[t] = req[t]
      /\ \/ req'[s] = FreeSlot
         \/ req'[s] = [req[s] EXCEPT !.client = NoWorker]
  BY DEF Detach, TypeOK
<1>2. [req[s] EXCEPT !.client = NoWorker].client = NoWorker /\ NoWorker # w
  BY ConstantsAssumption DEF TypeOK, Request
<1>3. \A t \in Slots \ {s} : req[t].client # w
  BY DEF OneRequest
<1> QED
  BY <1>1, <1>2, <1>3 DEF LetGo

\* A retryable failure fails no row for good.
LEMMA RetryFailsNone ==
    ASSUME NEW w \in Workers, FailBatch(w, TRUE) PROVE FailsNone
<1> DEFINE running == {e \in held[w] : status[e] = "RUNNING"}
<1>1. \A e \in Events : FailedStatus(e, TRUE) # "FAILED"
  BY DEF FailedStatus
<1>2. CASE Owns(w, running)
  <2>1. Settle({}, running, {})
    BY <1>2 DEF FailBatch
  <2> QED
    BY <1>1, <2>1 DEF Settle, FailsNone
<1>3. CASE ~Owns(w, running)
  BY <1>3 DEF FailBatch, FailsNone
<1> QED
  BY <1>2, <1>3

LEMMA SiteStepRefusal ==
    ASSUME TypeOK, RefusalCoherent, NEW w \in Workers, SiteStep(w)
    PROVE  RefusalCoherent'
<1>0. OneRequest
  BY DEF RefusalCoherent
<1>1. ASSUME NEW s \in Slots, Deliver(w, s) PROVE RefusalCoherent'
  <2>1. PICK B \in SUBSET Claimable :
           /\ Batch(w, B) /\ claim_outbox(w, B)
           /\ held' = [held EXCEPT ![w] = B]
           /\ req' = [req EXCEPT ![s] = [FreeSlot EXCEPT !.phase = "received", !.client = w,
                         !.token = token, !.batch = B, !.todo = B]]
    BY <1>1 DEF Deliver
  <2>2. /\ held[w] = {} /\ B # {} /\ UNCHANGED <<issued, token, credential>>
    BY <1>1, <2>1 DEF Deliver, Batch, enrollVars
  <2>3. \A t \in Slots : req[t].client # w
    BY <1>0, <2>2 DEF OneRequest
  <2>4. /\ req'[s].client = w /\ req'[s].batch = B /\ req'[s].todo = B /\ req'[s].token = token
        /\ req'[s].reply = "none"
        /\ \A t \in Slots \ {s} : req'[t] = req[t]
        /\ held'[w] = B /\ \A v \in Workers \ {w} : held'[v] = held[v]
    BY <2>1 DEF TypeOK, FreeSlot
  <2>5. ASSUME NEW t \in Slots PROVE AnswerComplete(req[t])'
    BY <2>4 DEF AnswerComplete, RefusalCoherent
  <2>6. OneRequest'
    BY <2>2, <2>3, <2>4 DEF RefusalCoherent, OneRequest
  <2>7. FirstCredential'
    BY <2>2, <2>4 DEF RefusalCoherent, FirstCredential
  <2>8. FailsNone
    BY <2>1 DEF claim_outbox, FailsNone
  <2>9. OnlyRefusalFails'
    BY <2>2, <2>8 DEF RefusalCoherent, OnlyRefusalFails, FailsNone
  <2> QED
    BY <2>5, <2>6, <2>7, <2>9 DEF RefusalCoherent
<1>2. ASSUME NEW s \in Slots, HandleAcks(w, s) PROVE RefusalCoherent'
  <2>1. /\ req[s].client = w /\ req[s].reply = "ok" /\ Detach(s)
        /\ held' = [held EXCEPT ![w] = {}] /\ UNCHANGED <<issued, token, credential>>
    BY <1>2 DEF HandleAcks, enrollVars
  <2>2. held[w] \subseteq req[s].accepted \cup req[s].gaps \cup Rejected
    BY <1>0, <2>1 DEF RefusalCoherent, OneRequest, AnswerComplete
  <2> DEFINE ok == held[w] \cap req[s].accepted
             retry == held[w] \cap req[s].gaps
  <2>3. \A e \in Events : FailedStatus(e, TRUE) # "FAILED"
    BY DEF FailedStatus
  <2>4. \/ Settle(ok, retry, held[w] \ (ok \cup retry))
        \/ UNCHANGED status
    BY <1>2 DEF HandleAcks
  <2>5. \A e \in Events : status'[e] = "FAILED" => status[e] = "FAILED" \/ e \in Rejected
    BY <2>2, <2>3, <2>4 DEF Settle
  <2> QED
    BY <1>0, <2>1, <2>5, DetachLetsGo, LetGoRefusal
<1>3. ASSUME NEW s \in Slots, HandleHttpError(w, s) PROVE RefusalCoherent'
  <2>1. /\ req[s].client = w /\ Detach(s) /\ req[s].reply \in {"http_401", "http_500"}
        /\ FailBatch(w, req[s].reply = "http_500")
        /\ held' = [held EXCEPT ![w] = {}] /\ UNCHANGED <<issued, token, credential>>
    BY <1>3 DEF HandleHttpError
  <2>2. CASE req[s].reply = "http_500"
    <3>1. FailBatch(w, TRUE)
      BY <2>1, <2>2
    <3> QED
      BY <1>0, <2>1, <3>1, RetryFailsNone, DetachLetsGo, LetGoRefusal
  <2>3. CASE req[s].reply = "http_401"
    <3>1. ~(issued = 1 /\ credential = 1)
      BY <2>3 DEF RefusalCoherent, FirstCredential
    <3> QED
      BY <1>0, <2>1, <3>1, DetachLetsGo, LetGoRefusal
  <2> QED
    BY <2>1, <2>2, <2>3
<1>4. ASSUME NEW s \in Slots, Timeout(w, s) PROVE RefusalCoherent'
  <2>1. /\ req[s].client = w /\ Detach(s) /\ FailBatch(w, TRUE)
        /\ held' = [held EXCEPT ![w] = {}] /\ UNCHANGED <<issued, token, credential>>
    BY <1>4 DEF Timeout, enrollVars
  <2> QED
    BY <1>0, <2>1, RetryFailsNone, DetachLetsGo, LetGoRefusal
<1>5. ASSUME ConnectionError(w) PROVE RefusalCoherent'
  <2>1. /\ FailBatch(w, TRUE) /\ held' = [held EXCEPT ![w] = {}]
        /\ UNCHANGED <<issued, token, credential, req>> /\ \A t \in Slots : req[t].client # w
    BY <1>5 DEF ConnectionError, enrollVars
  <2>2. LetGo(w)
    BY <2>1 DEF LetGo
  <2> QED
    BY <2>1, <2>2, RetryFailsNone, LetGoRefusal
<1>6. ASSUME WorkerCrash(w) PROVE RefusalCoherent'
  <2>1. /\ held' = [held EXCEPT ![w] = {}] /\ UNCHANGED <<status, issued, token, credential>>
        /\ req' = [s \in Slots |-> IF req[s].client # w THEN req[s]
                                   ELSE IF req[s].phase = "done" THEN FreeSlot
                                   ELSE [req[s] EXCEPT !.client = NoWorker]]
    BY <1>6 DEF WorkerCrash, enrollVars
  <2>2. \A t \in Slots : [req[t] EXCEPT !.client = NoWorker].client = NoWorker /\ NoWorker # w
    BY ConstantsAssumption DEF TypeOK, Request
  <2>3. LetGo(w) /\ FailsNone
    BY <2>1, <2>2 DEF LetGo, FailsNone
  <2> QED
    BY <2>1, <2>3, LetGoRefusal
<1> QED
  BY <1>1, <1>2, <1>3, <1>4, <1>5, <1>6 DEF SiteStep

\* The steps that leave the requests alone.
LEMMA OtherStepRefusal ==
    ASSUME TypeOK, RefusalCoherent,
           \/ enqueue_outbox \/ retry_failed_sync \/ Revoke \/ Reenroll \/ UNCHANGED vars
           \/ \E e \in Events : LeaseExpires(e) \/ BackoffElapses(e)
    PROVE  RefusalCoherent'
<1>1. UNCHANGED <<req, held>>
  BY DEF enqueue_outbox, retry_failed_sync, Revoke, Reenroll, LeaseExpires, BackoffElapses, vars,
         siteVars
<1>2. FailsNone
  BY DEF enqueue_outbox, retry_failed_sync, Revoke, Reenroll, LeaseExpires, BackoffElapses, vars,
         siteVars, FailsNone, TypeOK
<1>3. \/ UNCHANGED <<issued, token, credential>>
      \/ UNCHANGED <<issued, token>> /\ credential' = 0
      \/ issued' = issued + 1 /\ issued \in Nat \ {0}
  BY ConstantsAssumption
  DEF enqueue_outbox, retry_failed_sync, Revoke, Reenroll, LeaseExpires, BackoffElapses, vars,
      siteVars, enrollVars, TypeOK
<1>4. /\ issued' = 1 => issued = 1 /\ token' = token
      /\ issued' = 1 /\ credential' = 1 => credential = 1
  BY <1>3
<1>5. \A s \in Slots : AnswerComplete(req[s])'
  BY <1>1 DEF RefusalCoherent, AnswerComplete
<1>6. OneRequest'
  BY <1>1 DEF RefusalCoherent, OneRequest
<1>7. FirstCredential'
  BY <1>1, <1>4 DEF RefusalCoherent, FirstCredential
<1>8. OnlyRefusalFails'
  BY <1>2, <1>4 DEF RefusalCoherent, OnlyRefusalFails, FailsNone
<1> QED
  BY <1>5, <1>6, <1>7, <1>8 DEF RefusalCoherent

LEMMA InitRefusal == Init => RefusalCoherent
<1> SUFFICES ASSUME Init PROVE RefusalCoherent
  OBVIOUS
<1>1. \A s \in Slots : req[s] = FreeSlot
  BY DEF Init
<1>2. /\ FreeSlot.client = NoWorker /\ FreeSlot.phase = "free" /\ FreeSlot.reply = "none"
      /\ NoWorker \notin Workers
  BY ConstantsAssumption DEF FreeSlot
<1>3. OneRequest /\ FirstCredential
  BY <1>1, <1>2 DEF OneRequest, FirstCredential, Init
<1>4. OnlyRefusalFails
  BY DEF OnlyRefusalFails, Init
<1> QED
  BY <1>1, <1>3, <1>4, FreeSlotComplete DEF RefusalCoherent

\* As long as Central has not revoked the Site's credential, a row fails for good only if
\* Central refuses its content: lost and late answers, overrun leases, crashes, gaps and
\* handlers that lose a race cost attempts, never the row (deliver_site_events,
\* fail_outbox, apply_site_event).
THEOREM RacesFailNothing == Spec => []OnlyRefusalFails
<1>1. TypeOK /\ RefusalCoherent /\ [Next]_vars => RefusalCoherent'
  BY HandlerStepRefusal, SiteStepRefusal, OtherStepRefusal DEF Next
<1>2. RefusalCoherent => OnlyRefusalFails
  BY DEF RefusalCoherent
<1> QED
  BY <1>1, <1>2, InitRefusal, TypeCorrect, PTL DEF Spec
=============================================================================
