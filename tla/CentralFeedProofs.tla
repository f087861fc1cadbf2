-------------------------- MODULE CentralFeedProofs --------------------------
(***************************************************************************)
(* Proofs about CentralFeed, for every number of workers, events and       *)
(* faults, every batch size and every set of refused events.               *)
(***************************************************************************)
EXTENDS CentralFeed, FiniteSetTheorems, TLAPS

-----------------------------------------------------------------------------
(* Type correctness *)

\* A worker between two passes.
LEMMA IdleType == Idle \in Pull
<1>1. 0 \in 0..MaxEvents
  BY ConstantsAssumption
<1> QED
  BY <1>1 DEF Idle, Pull

\* The receipts a pass inserts are events.
LEMMA InsertedType ==
    ASSUME NEW p \in Pull
    PROVE  Inserted(p) \in SUBSET Events
<1>1. p.base \in 0..MaxEvents /\ p.last \in 0..MaxEvents
  BY DEF Pull
<1> QED
  BY <1>1, ConstantsAssumption DEF Inserted, Events

\* Only enqueued events are offered.
LEMMA OfferedType ==
    ASSUME TypeOK
    PROVE  Offered \subseteq 1..(next - 1) /\ Offered \in SUBSET Events
<1>1. Offered \subseteq 1..(next - 1)
  BY DEF Offered, Pending
<1>2. ASSUME NEW e \in 1..(next - 1) PROVE e \in Events
  BY ConstantsAssumption DEF TypeOK, Events
<1> QED
  BY <1>1, <1>2

\* A fault is counted within its bound.
LEMMA FaultType ==
    ASSUME faults \in 0..MaxFaults, Fault
    PROVE  faults' \in 0..MaxFaults
BY ConstantsAssumption DEF Fault

\* Steps of a sync worker keep the types.
LEMMA WorkerStepType ==
    ASSUME TypeOK, NEW w \in Workers, WorkerStep(w)
    PROVE  TypeOK'
<1>0. pull[w] \in Pull /\ cursor \in 0..MaxEvents
  BY DEF TypeOK
<1>1. CASE Poll(w)
  <2>1. [Idle EXCEPT !.phase = "polled", !.batch = Offered, !.todo = Offered] \in Pull
    BY IdleType, OfferedType DEF Pull
  <2>2. pull' \in [Workers -> Pull]
    BY <1>1, <2>1 DEF Poll, TypeOK
  <2> QED
    BY <1>1, <2>2 DEF Poll, TypeOK
<1>2. CASE ReadCursor(w)
  <2>1. [pull[w] EXCEPT !.phase = "applying", !.base = cursor, !.last = cursor] \in Pull
    BY <1>0 DEF Pull
  <2>2. pull' = [pull EXCEPT ![w] =
                   [pull[w] EXCEPT !.phase = "applying", !.base = cursor, !.last = cursor]]
    BY <1>0, <1>2 DEF ReadCursor, TypeOK
  <2>3. pull' \in [Workers -> Pull]
    BY <2>1, <2>2 DEF TypeOK
  <2> QED
    BY <1>2, <2>3 DEF ReadCursor, TypeOK
<1>3. CASE apply_central_event(w)
  <2>1. PICK e \in Current(pull[w]) :
            pull' = [pull EXCEPT ![w] =
              IF UniqueViolation(pull[w]) THEN Idle
              ELSE IF e \in receipts \cup Inserted(pull[w])
                   THEN [pull[w] EXCEPT !.todo = @ \ {e}]
              ELSE IF e = pull[w].last + 1 /\ e \notin Refused
                   THEN [pull[w] EXCEPT !.todo = @ \ {e}, !.last = e]
              ELSE Idle]
    BY <1>3 DEF apply_central_event
  <2>2. e \in Events /\ e \in 0..MaxEvents
    BY <1>0, ConstantsAssumption DEF Current, Pull, Events
  <2>3. /\ [pull[w] EXCEPT !.todo = @ \ {e}] \in Pull
        /\ [pull[w] EXCEPT !.todo = @ \ {e}, !.last = e] \in Pull
    BY <1>0, <2>2 DEF Pull
  <2>4. pull' \in [Workers -> Pull]
    BY <2>1, <2>3, IdleType DEF TypeOK
  <2> QED
    BY <1>3, <2>4 DEF apply_central_event, TypeOK
<1>4. CASE CommitBatch(w)
  <2>1. [pull[w] EXCEPT !.phase = "applied"] \in Pull
    BY <1>0 DEF Pull
  <2>2. pull' \in [Workers -> Pull]
    BY <1>4, <2>1, IdleType DEF CommitBatch, TypeOK
  <2>3. receipts' \in SUBSET Events
    BY <1>0, <1>4, InsertedType DEF CommitBatch, TypeOK
  <2>4. cursor' \in 0..MaxEvents
    BY <1>0, <1>4 DEF CommitBatch, Pull
  <2> QED
    BY <1>4, <2>2, <2>3, <2>4 DEF CommitBatch, TypeOK
<1>5. CASE PostAck(w)
  <2>1. [pull[w] EXCEPT !.phase = "acking"] \in Pull
    BY <1>0 DEF Pull
  <2>2. pull' \in [Workers -> Pull]
    BY <1>5, <2>1 DEF PostAck, TypeOK
  <2>3. -1 \in -1..MaxEvents
    BY ConstantsAssumption
  <2>4. [client |-> w, batch |-> pull[w].batch,
         checkpoint |-> pull[w].last, read |-> -1] \in Ack
    BY <1>0, <2>3 DEF Ack, Pull
  <2>5. acks' \in SUBSET Ack
    BY <1>5, <2>4 DEF PostAck, TypeOK
  <2> QED
    BY <1>5, <2>2, <2>5 DEF PostAck, TypeOK
<1> QED
  BY <1>1, <1>2, <1>3, <1>4, <1>5 DEF WorkerStep

\* The end of an acknowledgement keeps the types.
LEMMA AnswerType ==
    ASSUME TypeOK, NEW m \in acks, Answer(m)
    PROVE  pull' \in [Workers -> Pull] /\ acks' \in SUBSET Ack
BY IdleType DEF Answer, TypeOK

\* The remaining steps keep the types.
LEMMA OtherStepType ==
    ASSUME TypeOK,
           \/ enqueue_outbox
           \/ \E w \in Workers : PassFails(w)
           \/ HandlerStep
           \/ \E m \in acks : LoseAck(m)
    PROVE  TypeOK'
<1>1. CASE enqueue_outbox
  <2>1. next' \in 1..(MaxEvents + 1)
    BY <1>1, ConstantsAssumption DEF enqueue_outbox, TypeOK
  <2> QED
    BY <1>1, <2>1 DEF enqueue_outbox, TypeOK
<1>2. ASSUME NEW w \in Workers, PassFails(w) PROVE TypeOK'
  <2>1. \A m \in acks : [m EXCEPT !.client = NoWorker] \in Ack
    BY DEF TypeOK, Ack
  <2>2. acks' \in SUBSET Ack
    BY <1>2, <2>1 DEF PassFails, Abandon, TypeOK
  <2>3. pull' \in [Workers -> Pull]
    BY <1>2, IdleType DEF PassFails, TypeOK
  <2>4. faults' \in 0..MaxFaults
    BY <1>2, FaultType DEF PassFails, TypeOK
  <2> QED
    BY <1>2, <2>2, <2>3, <2>4 DEF PassFails, TypeOK
<1>3. ASSUME NEW m \in acks, ReadCentralCursor(m) PROVE TypeOK'
  <2>1. centralCursor \in -1..MaxEvents
    BY ConstantsAssumption DEF TypeOK
  <2>2. [m EXCEPT !.read = centralCursor] \in Ack
    BY <2>1 DEF TypeOK, Ack
  <2>3. acks' \in SUBSET Ack
    BY <1>3, <2>2 DEF ReadCentralCursor, TypeOK
  <2> QED
    BY <1>3, <2>3 DEF ReadCentralCursor, TypeOK
<1>4. ASSUME NEW m \in acks, acknowledge_central_events(m) PROVE TypeOK'
  <2>0. /\ m.batch \in SUBSET Events /\ m.checkpoint \in 0..MaxEvents
        /\ m.read \in -1..MaxEvents
    BY DEF TypeOK, Ack
  <2>1. m.read \in 0..MaxEvents
    BY <1>4, <2>0, ConstantsAssumption DEF acknowledge_central_events
  <2>2. retired' \in SUBSET Events /\ centralCursor' \in 0..MaxEvents
    BY <1>4, <2>0, <2>1 DEF acknowledge_central_events, TypeOK
  <2> QED
    BY <1>4, <2>2, AnswerType DEF acknowledge_central_events, TypeOK
<1>5. ASSUME NEW m \in acks, LoseAck(m) PROVE TypeOK'
  <2>1. faults' \in 0..MaxFaults
    BY <1>5, FaultType DEF LoseAck, TypeOK
  <2> QED
    BY <1>5, <2>1, AnswerType DEF LoseAck, TypeOK
<1> QED
  BY <1>1, <1>2, <1>3, <1>4, <1>5 DEF HandlerStep

\* Type correctness of the feed.
THEOREM TypeCorrect == Spec => []TypeOK
<1>1. Init => TypeOK
  <2>1. 1 \in 1..(MaxEvents + 1) /\ 0 \in 0..MaxEvents /\ 0 \in 0..MaxFaults
    BY ConstantsAssumption
  <2> QED
    BY <2>1, IdleType DEF Init, TypeOK
<1>2. TypeOK /\ [Next]_vars => TypeOK'
  <2>1. SUFFICES ASSUME TypeOK, [Next]_vars PROVE TypeOK'
    OBVIOUS
  <2>2. CASE UNCHANGED vars
    BY <2>1, <2>2 DEF TypeOK, vars
  <2>3. CASE Next
    BY <2>1, <2>3, WorkerStepType, OtherStepType DEF Next
  <2> QED
    BY <2>1, <2>2, <2>3
<1> QED
  BY <1>1, <1>2, PTL DEF Spec

-----------------------------------------------------------------------------
(* The inductive invariant TypeOK /\ Coherent *)

\* The tables of both sides only grow.
Grows ==
    /\ next <= next'
    /\ cursor <= cursor'
    /\ receipts \subseteq receipts'
    /\ retired \subseteq retired'

\* outbound_events offers the oldest pending events, so a batch leaves no hole.
LEMMA OfferedNoHole ==
    ASSUME TypeOK
    PROVE  NoHole(Offered)
<1>1. SUFFICES ASSUME NEW e \in Offered, NEW f \in Events, f < e, f \notin retired
               PROVE  f \in Offered
  BY DEF NoHole
<1>2. next \in Nat /\ e \in Nat /\ e \in 1..(next - 1) /\ f \in Nat \ {0}
  BY OfferedType, ConstantsAssumption DEF TypeOK, Events
<1>3. f \in Pending
  BY <1>1, <1>2 DEF Pending
<1>4. Pending \subseteq 1..(next - 1) /\ IsFiniteSet(1..(next - 1))
  BY <1>2, FS_Interval DEF Pending
<1>5. IsFiniteSet({g \in Pending : g < e})
  <2>1. {g \in Pending : g < e} \subseteq 1..(next - 1)
    BY <1>4
  <2> QED
    BY <1>4, <2>1, FS_Subset
<1>6. {g \in Pending : g < f} \subseteq {g \in Pending : g < e}
  <2>1. ASSUME NEW g \in Pending, g < f PROVE g < e
    <3>1. g \in 1..(next - 1)
      BY DEF Pending
    <3>2. g \in Int
      BY <1>2, <3>1
    <3> QED
      BY <1>1, <1>2, <2>1, <3>2
  <2> QED
    BY <2>1
<1>7. Cardinality({g \in Pending : g < f}) <= Cardinality({g \in Pending : g < e})
  BY <1>5, <1>6, FS_Subset
<1>8. Cardinality({g \in Pending : g < e}) < BatchCount
  BY DEF Offered
<1>9. /\ Cardinality({g \in Pending : g < f}) \in Nat
      /\ Cardinality({g \in Pending : g < e}) \in Nat
      /\ BatchCount \in Nat
  BY <1>5, <1>6, FS_Subset, FS_CardinalityType, ConstantsAssumption
<1>10. Cardinality({g \in Pending : g < f}) < BatchCount
  BY <1>7, <1>8, <1>9
<1> QED
  BY <1>3, <1>10 DEF Offered

\* A longer prefix holds what a shorter one holds.
LEMMA RangeGrows ==
    ASSUME NEW a \in Nat, NEW b \in Nat, a <= b, NEW x \in 1..(a - 1)
    PROVE  x \in 1..(b - 1)
OBVIOUS

\* A pass the step leaves alone stays coherent while the tables grow.
LEMMA PassKept ==
    ASSUME TypeOK, TypeOK', NEW v \in Workers, PassCoherent(pull[v]), Grows,
           pull'[v] = pull[v]
    PROVE  PassCoherent(pull[v])'
<1>1. /\ next \in Nat /\ next' \in Nat /\ cursor \in Nat /\ cursor' \in Nat
      /\ pull[v].base \in Nat /\ pull[v].last \in Nat
  BY ConstantsAssumption DEF TypeOK, Pull
<1>2. ASSUME NEW x \in 1..(next - 1) PROVE x \in 1..(next' - 1)
  <2>1. next <= next'
    BY DEF Grows
  <2> QED
    BY <1>1, <2>1, RangeGrows
<1>3. /\ pull[v].base <= cursor'
      /\ pull[v].last < next'
      /\ pull[v].phase \in {"applied", "acking"} => pull[v].last <= cursor'
  BY <1>1 DEF PassCoherent, Grows
<1>4. Inserted(pull[v])' = Inserted(pull[v])
  BY DEF Inserted
<1>5. NoHole(pull[v].batch)'
  BY DEF PassCoherent, NoHole, Grows
<1> QED
  BY <1>2, <1>3, <1>4, <1>5 DEF PassCoherent, Grows

\* A worker whose pass has ended is coherent.
LEMMA IdleKept ==
    ASSUME TypeOK', NEW v \in Workers, pull'[v] = Idle
    PROVE  PassCoherent(pull[v])'
<1>1. next' \in Nat \ {0} /\ cursor' \in Nat
  BY ConstantsAssumption DEF TypeOK
<1> QED
  BY <1>1 DEF Idle, PassCoherent, NoHole, Inserted

\* An acknowledgement stays coherent while the tables grow.
LEMMA AckKept ==
    ASSUME TypeOK, TypeOK', NEW m \in Ack, AckCoherent(m), Grows
    PROVE  AckCoherent(m)'
<1>1. cursor \in Int /\ cursor' \in Int /\ m.checkpoint \in Int /\ m.read \in Int
  BY ConstantsAssumption DEF TypeOK, Ack
<1>2. m.checkpoint <= cursor' /\ m.read <= cursor'
  BY <1>1 DEF AckCoherent, Grows
<1> QED
  BY <1>2 DEF AckCoherent, NoHole, Grows

\* The facts about the tables in a form the arithmetic provers like.
LEMMA Numbers ==
    ASSUME TypeOK
    PROVE  /\ next \in Nat \ {0} /\ cursor \in Nat /\ centralCursor \in Nat
           /\ \A v \in Workers : /\ pull[v] \in Pull
                                 /\ pull[v].base \in Nat /\ pull[v].last \in Nat
BY ConstantsAssumption DEF TypeOK, Pull

\* The statements of a pass before its commit keep it coherent.
LEMMA PassWork ==
    ASSUME TypeOK, TypeOK', Coherent, NEW w \in Workers,
           Poll(w) \/ ReadCursor(w) \/ apply_central_event(w)
    PROVE  /\ UNCHANGED <<next, retired, centralCursor, receipts, cursor, acks>>
           /\ \A v \in Workers \ {w} : pull'[v] = pull[v]
           /\ PassCoherent(pull[w])'
<1>0. /\ PassCoherent(pull[w]) /\ cursor < next
      /\ next \in Nat \ {0} /\ cursor \in Nat
      /\ pull[w] \in Pull /\ pull[w].base \in Nat /\ pull[w].last \in Nat
  BY Numbers DEF Coherent
<1>1. UNCHANGED <<next, retired, centralCursor, receipts, cursor, acks>>
  BY DEF Poll, ReadCursor, apply_central_event
<1>2. \A v \in Workers \ {w} : pull'[v] = pull[v]
  BY DEF Poll, ReadCursor, apply_central_event, TypeOK
<1>3. CASE Poll(w)
  <2>1. pull'[w] = [Idle EXCEPT !.phase = "polled", !.batch = Offered, !.todo = Offered]
    BY <1>3 DEF Poll, TypeOK
  <2>2. /\ pull'[w].base = 0 /\ pull'[w].last = 0 /\ pull'[w].phase = "polled"
        /\ pull'[w].batch = Offered /\ pull'[w].todo = Offered
    BY <2>1 DEF Idle
  <2>3. NoHole(pull[w].batch)'
    BY <1>1, <2>2, OfferedNoHole DEF NoHole
  <2> QED
    BY <1>0, <1>1, <1>2, <2>2, <2>3, OfferedType DEF PassCoherent, Inserted
<1>4. CASE ReadCursor(w)
  <2>1. /\ pull'[w].base = cursor /\ pull'[w].last = cursor /\ pull'[w].phase = "applying"
        /\ pull'[w].batch = pull[w].batch /\ pull'[w].todo = pull[w].todo
    BY <1>0, <1>4 DEF ReadCursor, TypeOK, Pull
  <2>2. NoHole(pull[w].batch)'
    BY <1>0, <1>1, <2>1 DEF NoHole, PassCoherent
  <2>3. pull[w].todo = pull[w].batch
    BY <1>0, <1>4 DEF ReadCursor, PassCoherent
  <2> QED
    BY <1>0, <1>1, <1>2, <2>1, <2>2, <2>3 DEF PassCoherent
<1>5. CASE apply_central_event(w)
  <2>1. PICK e \in Current(pull[w]) :
            pull' = [pull EXCEPT ![w] =
              IF UniqueViolation(pull[w]) THEN Idle
              ELSE IF e \in receipts \cup Inserted(pull[w])
                   THEN [pull[w] EXCEPT !.todo = @ \ {e}]
              ELSE IF e = pull[w].last + 1 /\ e \notin Refused
                   THEN [pull[w] EXCEPT !.todo = @ \ {e}, !.last = e]
              ELSE Idle]
    BY <1>5 DEF apply_central_event
  <2>2. pull[w].phase = "applying"
    BY <1>5 DEF apply_central_event
  <2>3. e \in pull[w].todo /\ e \in 1..(next - 1)
    BY <1>0 DEF Current, PassCoherent
  <2>4. CASE pull'[w] = Idle
    BY <1>1, <1>2, <2>4, IdleKept
  <2>5. CASE /\ e \in receipts \cup Inserted(pull[w])
             /\ pull'[w] = [pull[w] EXCEPT !.todo = @ \ {e}]
    <3>1. /\ pull'[w].base = pull[w].base /\ pull'[w].last = pull[w].last
          /\ pull'[w].phase = "applying" /\ pull'[w].batch = pull[w].batch
          /\ pull'[w].todo = pull[w].todo \ {e}
      BY <1>0, <2>2, <2>5 DEF Pull
    <3>2. NoHole(pull[w].batch)'
      BY <1>0, <1>1, <3>1 DEF NoHole, PassCoherent
    <3>3. Inserted(pull[w])' = Inserted(pull[w])
      BY <3>1 DEF Inserted
    <3> QED
      BY <1>0, <1>1, <1>2, <2>5, <3>1, <3>2, <3>3 DEF PassCoherent
  <2>6. CASE /\ e = pull[w].last + 1
             /\ pull'[w] = [pull[w] EXCEPT !.todo = @ \ {e}, !.last = e]
    <3>1. /\ pull'[w].base = pull[w].base /\ pull'[w].last = e
          /\ pull'[w].phase = "applying" /\ pull'[w].batch = pull[w].batch
          /\ pull'[w].todo = pull[w].todo \ {e}
      BY <1>0, <2>2, <2>6 DEF Pull
    <3>2. NoHole(pull[w].batch)'
      BY <1>0, <1>1, <3>1 DEF NoHole, PassCoherent
    <3>3. pull'[w].base <= pull'[w].last /\ pull'[w].last < next
      BY <1>0, <2>3, <2>6, <3>1 DEF PassCoherent
    <3>4. Inserted(pull[w])' = Inserted(pull[w]) \cup {e}
      BY <1>0, <2>6, <3>1 DEF Inserted, PassCoherent
    <3> QED
      BY <1>0, <1>1, <1>2, <3>1, <3>2, <3>3, <3>4 DEF PassCoherent
  <2>7. pull'[w] \in {Idle,
                     IF e \in receipts \cup Inserted(pull[w])
                     THEN [pull[w] EXCEPT !.todo = @ \ {e}]
                     ELSE IF e = pull[w].last + 1
                          THEN [pull[w] EXCEPT !.todo = @ \ {e}, !.last = e] ELSE Idle}
    BY <2>1 DEF TypeOK
  <2> QED
    BY <2>4, <2>5, <2>6, <2>7
<1> QED
  BY <1>3, <1>4, <1>5

\* The commit of a pass: the unique constraint lets a run of receipts in only if the
\* cursor the transaction read is still the current one.
LEMMA CommitEffect ==
    ASSUME TypeOK, Coherent, NEW w \in Workers, CommitBatch(w)
    PROVE  /\ UNCHANGED <<next, retired, centralCursor, acks>>
           /\ receipts' = 1..cursor'
           /\ cursor <= cursor' /\ cursor' < next /\ cursor' \in Nat
           /\ receipts \subseteq receipts'
           /\ ~UniqueViolation(pull[w]) => /\ receipts' = receipts \cup Inserted(pull[w])
                                          /\ pull[w].last <= cursor'
<1>0. /\ pull[w].base <= pull[w].last /\ pull[w].base <= cursor /\ pull[w].last < next
      /\ receipts = 1..cursor /\ cursor < next
      /\ pull[w].base \in Nat /\ pull[w].last \in Nat /\ cursor \in Nat /\ next \in Nat
  BY Numbers DEF Coherent, ReceiptsMatchCursor, PassCoherent
<1>1. UNCHANGED <<next, retired, centralCursor, acks>>
  BY DEF CommitBatch
<1>2. CASE UniqueViolation(pull[w])
  <2>1. UNCHANGED <<receipts, cursor>>
    BY <1>2 DEF CommitBatch
  <2> QED
    BY <1>0, <1>1, <1>2, <2>1
<1>3. CASE ~UniqueViolation(pull[w])
  <2>1. /\ receipts' = receipts \cup Inserted(pull[w])
        /\ cursor' = IF Inserted(pull[w]) # {} THEN pull[w].last ELSE cursor
    BY <1>3 DEF CommitBatch
  <2>2. CASE Inserted(pull[w]) = {}
    <3>1. ~(pull[w].base < pull[w].last)
      BY <1>0, <2>2 DEF Inserted
    <3> QED
      BY <1>0, <1>1, <2>1, <2>2, <3>1
  <2>3. CASE Inserted(pull[w]) # {}
    <3>1. pull[w].base < pull[w].last
      BY <1>0, <2>3 DEF Inserted
    <3>2. pull[w].base + 1 \in Inserted(pull[w])
      BY <1>0, <3>1 DEF Inserted
    <3>3. pull[w].base + 1 \notin 1..cursor
      BY <1>0, <1>3, <3>2 DEF UniqueViolation
    <3>4. pull[w].base = cursor
      BY <1>0, <3>3
    <3>5. cursor' = pull[w].last /\ receipts' = 1..cursor'
      BY <1>0, <2>1, <2>3, <3>1, <3>4 DEF Inserted
    <3> QED
      BY <1>0, <1>1, <2>1, <3>1, <3>4, <3>5
  <2> QED
    BY <2>2, <2>3
<1> QED
  BY <1>2, <1>3

\* Steps of a sync worker keep the invariant.
LEMMA WorkerStepCoherent ==
    ASSUME TypeOK, TypeOK', Coherent, NEW w \in Workers, WorkerStep(w)
    PROVE  Coherent'
<1>0. /\ next \in Nat \ {0} /\ cursor \in Nat /\ pull[w] \in Pull
      /\ PassCoherent(pull[w]) /\ centralCursor \in Nat
  BY Numbers DEF Coherent
<1>1. CASE Poll(w) \/ ReadCursor(w) \/ apply_central_event(w)
  <2>1. /\ UNCHANGED <<next, retired, centralCursor, receipts, cursor, acks>>
        /\ \A v \in Workers \ {w} : pull'[v] = pull[v]
        /\ PassCoherent(pull[w])'
    BY <1>1, PassWork
  <2>2. Grows
    BY <1>0, <2>1 DEF Grows
  <2>3. ASSUME NEW v \in Workers PROVE PassCoherent(pull[v])'
    <3>1. CASE v = w
      BY <2>1, <3>1
    <3>2. CASE v # w
      BY <2>1, <2>2, <3>2, PassKept DEF Coherent
    <3> QED
      BY <3>1, <3>2
  <2>4. ASSUME NEW m \in acks' PROVE AckCoherent(m)'
    <3>1. m \in Ack /\ AckCoherent(m)
      BY <2>1, <2>4 DEF Coherent, TypeOK
    <3> QED
      BY <2>2, <3>1, AckKept
  <2>5. ReceiptsMatchCursor' /\ RetiredIsApplied' /\ RetiredIsPrefix' /\ cursor' < next'
    BY <2>1 DEF Coherent, ReceiptsMatchCursor, RetiredIsApplied, RetiredIsPrefix
  <2> QED
    BY <2>3, <2>4, <2>5 DEF Coherent
<1>2. CASE CommitBatch(w)
  <2>1. /\ UNCHANGED <<next, retired, centralCursor, acks>>
        /\ receipts' = 1..cursor'
        /\ cursor <= cursor' /\ cursor' < next /\ cursor' \in Nat
        /\ receipts \subseteq receipts'
        /\ ~UniqueViolation(pull[w]) => /\ receipts' = receipts \cup Inserted(pull[w])
                                       /\ pull[w].last <= cursor'
    BY <1>2, CommitEffect
  <2>2. Grows
    BY <1>0, <2>1 DEF Grows
  <2>3. PassCoherent(pull[w])'
    <3>1. CASE UniqueViolation(pull[w])
      <4>1. pull'[w] = Idle
        BY <1>2, <3>1 DEF CommitBatch, TypeOK
      <4> QED
        BY <4>1, IdleKept
    <3>2. CASE ~UniqueViolation(pull[w])
      <4>1. /\ pull'[w].base = pull[w].base /\ pull'[w].last = pull[w].last
            /\ pull'[w].phase = "applied" /\ pull'[w].batch = pull[w].batch
            /\ pull'[w].todo = {} /\ pull[w].todo = {}
        BY <1>0, <1>2, <3>2 DEF CommitBatch, TypeOK, Pull
      <4>2. NoHole(pull[w].batch)'
        BY <1>0, <2>1, <4>1 DEF NoHole, PassCoherent
      <4>3. pull[w].batch \subseteq receipts'
        BY <1>0, <2>1, <3>2, <4>1 DEF PassCoherent
      <4>4. pull'[w].base <= cursor'
        <5>1. pull[w].base \in Nat /\ pull[w].base <= cursor
          BY <1>0, Numbers DEF PassCoherent
        <5> QED
          BY <1>0, <2>1, <4>1, <5>1
      <4> QED
        BY <1>0, <2>1, <3>2, <4>1, <4>2, <4>3, <4>4 DEF PassCoherent
    <3> QED
      BY <3>1, <3>2
  <2>4. ASSUME NEW v \in Workers PROVE PassCoherent(pull[v])'
    <3>1. CASE v = w
      BY <2>3, <3>1
    <3>2. CASE v # w
      <4>1. pull'[v] = pull[v]
        BY <1>2, <3>2 DEF CommitBatch, TypeOK
      <4> QED
        BY <2>2, <4>1, PassKept DEF Coherent
    <3> QED
      BY <3>1, <3>2
  <2>5. ASSUME NEW m \in acks' PROVE AckCoherent(m)'
    <3>1. m \in Ack /\ AckCoherent(m)
      BY <2>1, <2>5 DEF Coherent, TypeOK
    <3> QED
      BY <2>2, <3>1, AckKept
  <2>6. centralCursor' <= cursor'
    <3>1. centralCursor <= cursor
      BY DEF Coherent, RetiredIsApplied
    <3> QED
      BY <1>0, <2>1, <3>1
  <2>7. ReceiptsMatchCursor' /\ RetiredIsApplied' /\ RetiredIsPrefix' /\ cursor' < next'
    BY <2>1, <2>6 DEF Coherent, ReceiptsMatchCursor, RetiredIsApplied, RetiredIsPrefix
  <2> QED
    BY <2>4, <2>5, <2>7 DEF Coherent
<1>3. CASE PostAck(w)
  <2>1. UNCHANGED <<next, retired, centralCursor, receipts, cursor>>
    BY <1>3 DEF PostAck
  <2>2. Grows
    BY <1>0, <2>1 DEF Grows
  <2> DEFINE ack == [client |-> w, batch |-> pull[w].batch,
                     checkpoint |-> pull[w].last, read |-> -1]
  <2>3. acks' = acks \cup {ack} /\ ack \in Ack
    BY <1>3 DEF PostAck, TypeOK
  <2>4. AckCoherent(ack)
    <3>1. /\ pull[w].batch \subseteq receipts /\ pull[w].last <= cursor
          /\ NoHole(pull[w].batch)
      BY <1>0, <1>3 DEF PostAck, PassCoherent
    <3>2. -1 <= cursor
      BY <1>0
    <3> QED
      BY <3>1, <3>2 DEF AckCoherent
  <2> HIDE DEF ack
  <2>5. ASSUME NEW m \in acks' PROVE AckCoherent(m)'
    <3>1. m \in Ack /\ AckCoherent(m)
      BY <2>3, <2>4, <2>5 DEF Coherent, TypeOK
    <3> QED
      BY <2>2, <3>1, AckKept
  <2>6. ASSUME NEW v \in Workers PROVE PassCoherent(pull[v])'
    <3>1. CASE v = w
      <4>1. /\ pull'[w].base = pull[w].base /\ pull'[w].last = pull[w].last
            /\ pull'[w].phase = "acking" /\ pull'[w].batch = pull[w].batch
            /\ pull'[w].todo = pull[w].todo /\ pull[w].phase = "applied"
        BY <1>0, <1>3 DEF PostAck, TypeOK, Pull
      <4>2. NoHole(pull[w].batch)'
        BY <1>0, <2>1, <4>1 DEF NoHole, PassCoherent
      <4>3. Inserted(pull[w])' = Inserted(pull[w])
        BY <4>1 DEF Inserted
      <4> QED
        BY <1>0, <2>1, <3>1, <4>1, <4>2, <4>3 DEF PassCoherent
    <3>2. CASE v # w
      <4>1. pull'[v] = pull[v]
        BY <1>3, <3>2 DEF PostAck, TypeOK
      <4> QED
        BY <2>2, <4>1, PassKept DEF Coherent
    <3> QED
      BY <3>1, <3>2
  <2>7. ReceiptsMatchCursor' /\ RetiredIsApplied' /\ RetiredIsPrefix' /\ cursor' < next'
    BY <2>1 DEF Coherent, ReceiptsMatchCursor, RetiredIsApplied, RetiredIsPrefix
  <2> QED
    BY <2>5, <2>6, <2>7 DEF Coherent
<1> QED
  BY <1>1, <1>2, <1>3 DEF WorkerStep

\* Acknowledging retires applied events and leaves no hole behind.
LEMMA AcknowledgeEffect ==
    ASSUME TypeOK, Coherent, NEW m \in acks, acknowledge_central_events(m)
    PROVE  /\ UNCHANGED <<next, receipts, cursor>>
           /\ retired \subseteq retired' /\ retired' \subseteq receipts
           /\ RetiredIsPrefix'
           /\ centralCursor' <= cursor
<1>0. AckCoherent(m) /\ RetiredIsApplied /\ RetiredIsPrefix
  BY DEF Coherent
<1>1. UNCHANGED <<next, receipts, cursor>>
  BY DEF acknowledge_central_events
<1>2. CASE CheckpointTooHigh(m)
  <2>1. UNCHANGED <<retired, centralCursor>>
    BY <1>2 DEF acknowledge_central_events
  <2> QED
    BY <1>0, <1>1, <2>1 DEF RetiredIsApplied, RetiredIsPrefix
<1>3. CASE ~CheckpointTooHigh(m)
  <2>1. /\ retired' = retired \cup m.batch
        /\ centralCursor' = IF m.read < m.checkpoint THEN m.checkpoint ELSE m.read
    BY <1>3 DEF acknowledge_central_events
  <2>2. retired' \subseteq receipts /\ centralCursor' <= cursor
    BY <1>0, <2>1 DEF AckCoherent, RetiredIsApplied
  <2>3. RetiredIsPrefix'
    BY <1>0, <2>1 DEF AckCoherent, NoHole, RetiredIsPrefix
  <2> QED
    BY <1>1, <2>1, <2>2, <2>3
<1> QED
  BY <1>2, <1>3

\* A step that only retires events, drops or re-reads acknowledgements, or ends passes.
LEMMA TableStepCoherent ==
    ASSUME TypeOK, TypeOK', Coherent, Grows,
           UNCHANGED <<receipts, cursor>>,
           retired' \subseteq receipts, RetiredIsPrefix', centralCursor' <= cursor,
           \A v \in Workers : pull'[v] = pull[v] \/ pull'[v] = Idle,
           \A m \in acks' : AckCoherent(m)
    PROVE  Coherent'
<1>1. ASSUME NEW v \in Workers PROVE PassCoherent(pull[v])'
  <2>1. CASE pull'[v] = Idle
    BY <2>1, IdleKept
  <2>2. CASE pull'[v] = pull[v]
    BY <2>2, PassKept DEF Coherent
  <2> QED
    BY <2>1, <2>2
<1>2. ASSUME NEW m \in acks' PROVE AckCoherent(m)'
  <2>1. m \in Ack /\ AckCoherent(m)
    BY <1>2 DEF TypeOK
  <2> QED
    BY <2>1, AckKept
<1>3. cursor' < next'
  <2>1. cursor < next /\ next <= next' /\ cursor \in Nat /\ next \in Nat /\ next' \in Nat
    BY ConstantsAssumption DEF Coherent, Grows, TypeOK
  <2> QED
    BY <2>1
<1>4. ReceiptsMatchCursor' /\ RetiredIsApplied'
  BY DEF Coherent, ReceiptsMatchCursor, RetiredIsApplied
<1> QED
  BY <1>1, <1>2, <1>3, <1>4 DEF Coherent

\* The remaining steps keep the invariant.
LEMMA OtherStepCoherent ==
    ASSUME TypeOK, TypeOK', Coherent,
           \/ enqueue_outbox
           \/ \E w \in Workers : PassFails(w)
           \/ HandlerStep
           \/ \E m \in acks : LoseAck(m)
    PROVE  Coherent'
<1>0. /\ next \in Nat /\ cursor \in Nat /\ retired \subseteq receipts
      /\ centralCursor <= cursor /\ RetiredIsPrefix
      /\ \A m \in acks : AckCoherent(m)
  BY Numbers DEF Coherent, RetiredIsApplied
<1>1. CASE enqueue_outbox
  <2>1. next' = next + 1 /\ UNCHANGED <<retired, centralCursor, receipts, cursor, pull, acks>>
    BY <1>1 DEF enqueue_outbox
  <2>2. Grows /\ RetiredIsPrefix'
    BY <1>0, <2>1 DEF Grows, RetiredIsPrefix
  <2> QED
    BY <1>0, <2>1, <2>2, TableStepCoherent
<1>2. ASSUME NEW w \in Workers, PassFails(w) PROVE Coherent'
  <2>1. UNCHANGED <<next, retired, centralCursor, receipts, cursor>> /\ acks' = Abandon(w)
    BY <1>2 DEF PassFails
  <2>2. \A v \in Workers : pull'[v] = pull[v] \/ pull'[v] = Idle
    BY <1>2 DEF PassFails, TypeOK
  <2>3. \A m \in acks' : AckCoherent(m)
    BY <1>0, <2>1 DEF Abandon, AckCoherent, TypeOK, Ack
  <2>4. Grows /\ RetiredIsPrefix'
    BY <1>0, <2>1 DEF Grows, RetiredIsPrefix
  <2> QED
    BY <1>0, <2>1, <2>2, <2>3, <2>4, TableStepCoherent
<1>3. ASSUME NEW m \in acks, ReadCentralCursor(m) PROVE Coherent'
  <2>1. /\ UNCHANGED <<next, retired, centralCursor, receipts, cursor, pull>>
        /\ acks' = (acks \ {m}) \cup {[m EXCEPT !.read = centralCursor]}
    BY <1>3 DEF ReadCentralCursor
  <2>2. AckCoherent([m EXCEPT !.read = centralCursor])
    BY <1>0 DEF AckCoherent, TypeOK, Ack
  <2>3. \A n \in acks' : AckCoherent(n)
    BY <1>0, <2>1, <2>2
  <2>4. Grows /\ RetiredIsPrefix'
    BY <1>0, <2>1 DEF Grows, RetiredIsPrefix
  <2> QED
    BY <1>0, <2>1, <2>3, <2>4, TableStepCoherent
<1>4. ASSUME NEW m \in acks, acknowledge_central_events(m) PROVE Coherent'
  <2>1. /\ UNCHANGED <<next, receipts, cursor>>
        /\ retired \subseteq retired' /\ retired' \subseteq receipts
        /\ RetiredIsPrefix'
        /\ centralCursor' <= cursor
    BY <1>4, AcknowledgeEffect
  <2>2. /\ \A n \in acks' : AckCoherent(n)
        /\ \A v \in Workers : pull'[v] = pull[v] \/ pull'[v] = Idle
    BY <1>0, <1>4 DEF acknowledge_central_events, Answer
  <2>3. Grows
    BY <1>0, <2>1 DEF Grows
  <2> QED
    BY <2>1, <2>2, <2>3, TableStepCoherent
<1>5. ASSUME NEW m \in acks, LoseAck(m) PROVE Coherent'
  <2>1. UNCHANGED <<next, retired, centralCursor, receipts, cursor>>
    BY <1>5 DEF LoseAck
  <2>2. /\ \A n \in acks' : AckCoherent(n)
        /\ \A v \in Workers : pull'[v] = pull[v] \/ pull'[v] = Idle
    BY <1>0, <1>5 DEF LoseAck, Answer
  <2>3. Grows /\ RetiredIsPrefix'
    BY <1>0, <2>1 DEF Grows, RetiredIsPrefix
  <2> QED
    BY <1>0, <2>1, <2>2, <2>3, TableStepCoherent
<1> QED
  BY <1>1, <1>2, <1>3, <1>4, <1>5 DEF HandlerStep

-----------------------------------------------------------------------------
(* The theorems *)

\* In every behaviour passes and acknowledgement handlers stay coherent with what is
\* committed on both sides.
THEOREM CoherenceInvariant == Spec => [](TypeOK /\ Coherent)
<1>1. Init => Coherent
  <2>1. SUFFICES ASSUME Init PROVE Coherent
    OBVIOUS
  <2>2. ASSUME NEW w \in Workers PROVE PassCoherent(pull[w])
    <3>1. pull[w] = Idle /\ next = 1 /\ cursor = 0
      BY <2>1 DEF Init
    <3> QED
      BY <3>1 DEF Idle, PassCoherent, NoHole, Inserted
  <2>3. /\ ReceiptsMatchCursor /\ RetiredIsApplied /\ RetiredIsPrefix
        /\ cursor < next /\ \A m \in acks : AckCoherent(m)
    BY <2>1 DEF Init, ReceiptsMatchCursor, RetiredIsApplied, RetiredIsPrefix
  <2> QED
    BY <2>2, <2>3 DEF Coherent
<1>2. TypeOK /\ TypeOK' /\ Coherent /\ [Next]_vars => Coherent'
  <2>1. SUFFICES ASSUME TypeOK, TypeOK', Coherent, [Next]_vars PROVE Coherent'
    OBVIOUS
  <2>2. CASE UNCHANGED vars
    <3>1. Grows /\ RetiredIsPrefix'
      BY <2>1, <2>2, Numbers DEF Coherent, Grows, RetiredIsPrefix, vars
    <3> QED
      BY <2>1, <2>2, <3>1, TableStepCoherent DEF Coherent, RetiredIsApplied, vars
  <2>3. CASE Next
    BY <2>1, <2>3, WorkerStepCoherent, OtherStepCoherent DEF Next
  <2> QED
    BY <2>1, <2>2, <2>3
<1> QED
  BY <1>1, <1>2, TypeCorrect, PTL DEF Spec

\* However the passes of several sync workers interleave, the Site's receipts are
\* exactly the sequences up to its cursor (apply_central_event).
THEOREM ReceiptsAgree == Spec => []ReceiptsMatchCursor
<1>1. Coherent => ReceiptsMatchCursor
  BY DEF Coherent
<1> QED
  BY <1>1, CoherenceInvariant, PTL

\* Central never retires an event, nor raises its checkpoint, before the Site has
\* durably applied the event (acknowledge_central_events).
THEOREM RetiredWasApplied == Spec => []RetiredIsApplied
<1>1. Coherent => RetiredIsApplied
  BY DEF Coherent
<1> QED
  BY <1>1, CoherenceInvariant, PTL

\* Late, lost and repeated acknowledgements retire a prefix of the feed, so no event
\* is ever left behind a retired one (outbound_events, acknowledge_central_events).
THEOREM RetiredNoHole == Spec => []RetiredIsPrefix
<1>1. Coherent => RetiredIsPrefix
  BY DEF Coherent
<1> QED
  BY <1>1, CoherenceInvariant, PTL

\* The feed, with its concurrent passes, lost acknowledgements and crashes,
\* implements OrderedDelivery.
THEOREM Refinement == Spec => ImplementsOrderedDelivery
<1>1. Init => Ordered!Init
  <2>1. 1..0 = {}
    OBVIOUS
  <2> QED
    BY <2>1 DEF Init, Ordered!Init
<1>2. ASSUME TypeOK, Coherent, [Next]_vars PROVE [Ordered!Next]_(Ordered!vars)
  <2>0. next \in Nat /\ cursor \in Nat
    BY <1>2, Numbers
  <2>1. CASE enqueue_outbox
    <3>1. next' - 1 = (next - 1) + 1 /\ UNCHANGED <<cursor, retired>>
      BY <2>0, <2>1 DEF enqueue_outbox
    <3> QED
      BY <3>1 DEF Ordered!Next, Ordered!Enqueue
  <2>2. ASSUME NEW w \in Workers, CommitBatch(w) PROVE [Ordered!Next]_(Ordered!vars)
    <3>1. /\ UNCHANGED <<next, retired>> /\ cursor <= cursor' /\ cursor' < next
          /\ cursor' \in Nat
      BY <1>2, <2>2, CommitEffect
    <3>2. CASE cursor' = cursor
      BY <3>1, <3>2 DEF Ordered!vars
    <3>3. CASE cursor' # cursor
      <4>1. cursor' \in (cursor + 1)..(next - 1)
        BY <2>0, <3>1, <3>3
      <4>2. 1..cursor' = (1..cursor) \cup ((cursor + 1)..cursor')
        BY <2>0, <3>1
      <4> QED
        BY <3>1, <4>1, <4>2 DEF Ordered!Next, Ordered!Apply
    <3> QED
      BY <3>2, <3>3
  <2>3. ASSUME NEW m \in acks, acknowledge_central_events(m) PROVE Ordered!Retire
    <3>1. /\ UNCHANGED <<next, receipts, cursor>>
          /\ retired \subseteq retired' /\ retired' \subseteq receipts
      BY <1>2, <2>3, AcknowledgeEffect
    <3>2. retired' \in SUBSET (1..cursor)
      BY <1>2, <3>1 DEF Coherent, ReceiptsMatchCursor
    <3>3. retired' = retired \cup retired'
      BY <3>1
    <3> QED
      BY <3>1, <3>2, <3>3 DEF Ordered!Retire
  <2>4. CASE \/ \E w \in Workers : \/ Poll(w) \/ ReadCursor(w) \/ apply_central_event(w)
                                 \/ PostAck(w) \/ PassFails(w)
             \/ \E m \in acks : ReadCentralCursor(m) \/ LoseAck(m)
             \/ UNCHANGED vars
    <3>1. UNCHANGED <<next, retired, cursor>>
      BY <2>4 DEF Poll, ReadCursor, apply_central_event, PostAck, PassFails,
                  ReadCentralCursor, LoseAck, vars
    <3> QED
      BY <3>1 DEF Ordered!vars
  <2> QED
    BY <1>2, <2>1, <2>2, <2>3, <2>4 DEF Next, WorkerStep, HandlerStep, Ordered!Next
<1> QED
  BY <1>1, <1>2, CoherenceInvariant, PTL DEF Spec, ImplementsOrderedDelivery, Ordered!Spec

-----------------------------------------------------------------------------
(* The Site is never more than a batch ahead of Central *)

\* The sequence is at most a batch beyond what Central has retired.
WithinBatch(e) == e <= BatchCount \/ e - BatchCount \in retired

\* What no step of either side can leave: the Site's cursor, and all that a pass has
\* been offered or has applied, is within a batch of what is retired.
NearRetired ==
    /\ WithinBatch(cursor)
    /\ \A w \in Workers : /\ WithinBatch(pull[w].last)
                          /\ \A e \in pull[w].batch : WithinBatch(e)

\* outbound_events offers no event that has a batch of unretired ones before it.
LEMMA OfferedWithinBatch ==
    ASSUME TypeOK, Coherent, NEW e \in Offered
    PROVE  WithinBatch(e)
<1>1. /\ next \in Nat /\ e \in Nat \ {0} /\ e <= next - 1 /\ e <= MaxEvents /\ MaxEvents \in Nat
      /\ BatchCount \in Nat \ {0}
  BY OfferedType, ConstantsAssumption DEF TypeOK, Events
<1> SUFFICES ASSUME e > BatchCount, e - BatchCount \notin retired PROVE FALSE
  BY <1>1 DEF WithinBatch
<1> DEFINE W == (e - BatchCount)..(e - 1)
           P == {f \in Pending : f < e}
<1>2. W \subseteq P
  <2> SUFFICES ASSUME NEW f \in W PROVE f \in P
    OBVIOUS
  <2>1. f \in Nat \ {0} /\ f < e /\ e - BatchCount <= f /\ f \in 1..(next - 1)
    BY <1>1
  <2>2. f \notin retired
    <3>1. e - BatchCount \in Events
      BY <1>1 DEF Events
    <3> QED
      BY <1>1, <2>1, <3>1 DEF Coherent, RetiredIsPrefix
  <2> QED
    BY <2>1, <2>2 DEF Pending
<1>3. IsFiniteSet(P)
  <2>1. P \subseteq 1..(next - 1)
    BY DEF Pending
  <2>2. 1 \in Int /\ next - 1 \in Int
    BY <1>1
  <2>3. IsFiniteSet(1..(next - 1))
    BY <2>2, FS_Interval
  <2> QED
    BY <2>1, <2>3, FS_Subset
<1>4. Cardinality(W) = BatchCount
  <2>1. /\ e - BatchCount \in Int /\ e - 1 \in Int /\ ~(e - BatchCount > e - 1)
        /\ (e - 1) - (e - BatchCount) + 1 = BatchCount
    BY <1>1
  <2> QED
    BY <2>1, FS_Interval
<1>5. Cardinality(W) <= Cardinality(P) /\ Cardinality(P) \in Nat
  BY <1>2, <1>3, FS_Subset, FS_CardinalityType
<1>6. Cardinality(P) < BatchCount
  BY DEF Offered
<1> QED
  BY <1>1, <1>4, <1>5, <1>6

\* Whatever is retired in addition, the sequence stays within a batch of it.
LEMMA WithinKept ==
    ASSUME NEW e, WithinBatch(e), retired \subseteq retired' PROVE (WithinBatch(e))'
BY DEF WithinBatch

LEMMA InitNear == Init => NearRetired
<1> SUFFICES ASSUME Init PROVE NearRetired
  OBVIOUS
<1>1. BatchCount \in Nat /\ WithinBatch(0)
  BY ConstantsAssumption DEF WithinBatch
<1> QED
  BY <1>1 DEF Init, NearRetired, Idle

LEMMA StepNear ==
    ASSUME TypeOK, Coherent, NearRetired, [Next]_vars PROVE NearRetired'
<1>1. retired \subseteq retired'
  BY DEF Next, WorkerStep, HandlerStep, enqueue_outbox, Poll, ReadCursor, apply_central_event,
         CommitBatch, PostAck, PassFails, ReadCentralCursor, acknowledge_central_events, LoseAck, vars
<1>2. \A e : WithinBatch(e) => (WithinBatch(e))'
  BY <1>1, WithinKept
<1>3. WithinBatch(0)
  BY ConstantsAssumption DEF WithinBatch
<1> DEFINE Near(p) == WithinBatch(p.last) /\ \A e \in p.batch : WithinBatch(e)
<1>4. Near(Idle)
  BY <1>3 DEF Idle
<1>5. \A w \in Workers : Near(pull[w])
  BY DEF NearRetired
<1>6. SUFFICES WithinBatch(cursor') /\ \A w \in Workers : Near(pull'[w])
  BY <1>2 DEF NearRetired, WithinBatch
<1>7. WithinBatch(cursor)
  BY DEF NearRetired
<1>8. pull \in [Workers -> Pull]
  BY DEF TypeOK
<1>9. ASSUME NEW w \in Workers, Poll(w)
      PROVE  WithinBatch(cursor') /\ \A v \in Workers : Near(pull'[v])
  <2>1. /\ cursor' = cursor
        /\ pull' = [pull EXCEPT ![w] =
                      [Idle EXCEPT !.phase = "polled", !.batch = Offered, !.todo = Offered]]
    BY <1>9 DEF Poll
  <2>2. pull'[w].last = 0 /\ pull'[w].batch = Offered
    BY <1>8, <2>1 DEF Idle
  <2>3. Near(pull'[w])
    BY <1>3, <2>2, OfferedWithinBatch
  <2> QED
    BY <1>5, <1>7, <1>8, <2>1, <2>3
<1>10. ASSUME NEW w \in Workers, ReadCursor(w)
       PROVE  WithinBatch(cursor') /\ \A v \in Workers : Near(pull'[v])
  <2>1. /\ cursor' = cursor
        /\ pull' = [pull EXCEPT ![w].phase = "applying", ![w].base = cursor, ![w].last = cursor]
    BY <1>10 DEF ReadCursor
  <2>2. pull'[w].last = cursor /\ pull'[w].batch = pull[w].batch
    BY <1>8, <2>1 DEF Pull
  <2> QED
    BY <1>5, <1>7, <1>8, <2>1, <2>2
<1>11. ASSUME NEW w \in Workers, apply_central_event(w)
       PROVE  WithinBatch(cursor') /\ \A v \in Workers : Near(pull'[v])
  <2>1. PICK e \in Current(pull[w]) :
           pull' = [pull EXCEPT ![w] =
              IF UniqueViolation(pull[w]) THEN Idle
              ELSE IF e \in receipts \cup Inserted(pull[w])
                   THEN [pull[w] EXCEPT !.todo = @ \ {e}]
              ELSE IF e = pull[w].last + 1 /\ e \notin Refused
                   THEN [pull[w] EXCEPT !.todo = @ \ {e}, !.last = e]
              ELSE Idle]
    BY <1>11 DEF apply_central_event
  <2>2. e \in pull[w].batch
    BY DEF Current, Coherent, PassCoherent
  <2>3. \/ pull'[w] = Idle
        \/ pull'[w].batch = pull[w].batch /\ pull'[w].last \in {pull[w].last, e}
    BY <1>8, <2>1 DEF Pull
  <2>4. Near(pull'[w])
    BY <1>4, <1>5, <2>2, <2>3
  <2>5. \A v \in Workers \ {w} : pull'[v] = pull[v]
    BY <1>8, <2>1
  <2>6. cursor' = cursor
    BY <1>11 DEF apply_central_event
  <2> QED
    BY <1>5, <1>7, <2>4, <2>5, <2>6
<1>12. ASSUME NEW w \in Workers, CommitBatch(w)
       PROVE  WithinBatch(cursor') /\ \A v \in Workers : Near(pull'[v])
  <2>1. /\ cursor' \in {cursor, pull[w].last}
        /\ \/ pull' = [pull EXCEPT ![w] = Idle]
           \/ pull' = [pull EXCEPT ![w].phase = "applied"]
    BY <1>12 DEF CommitBatch
  <2>2. \/ pull'[w] = Idle
        \/ pull'[w].batch = pull[w].batch /\ pull'[w].last = pull[w].last
    BY <1>8, <2>1 DEF Pull
  <2>3. Near(pull'[w])
    BY <1>4, <1>5, <2>2
  <2>4. \A v \in Workers \ {w} : pull'[v] = pull[v]
    BY <1>8, <2>1
  <2> QED
    BY <1>5, <1>7, <2>1, <2>3, <2>4
<1>13. ASSUME \A v \in Workers : \/ pull'[v] = Idle
                                 \/ pull'[v].batch = pull[v].batch /\ pull'[v].last = pull[v].last,
              cursor' = cursor
       PROVE  WithinBatch(cursor') /\ \A v \in Workers : Near(pull'[v])
  BY <1>4, <1>5, <1>7, <1>13
<1>14. ASSUME NEW w \in Workers, PostAck(w) \/ PassFails(w)
       PROVE  WithinBatch(cursor') /\ \A v \in Workers : Near(pull'[v])
  <2>1. /\ cursor' = cursor
        /\ pull' = [pull EXCEPT ![w].phase = "acking"] \/ pull' = [pull EXCEPT ![w] = Idle]
    BY <1>14 DEF PostAck, PassFails
  <2> QED
    BY <1>8, <1>13, <2>1 DEF Pull
<1>15. ASSUME NEW m \in acks, ReadCentralCursor(m) \/ acknowledge_central_events(m) \/ LoseAck(m)
       PROVE  WithinBatch(cursor') /\ \A v \in Workers : Near(pull'[v])
  <2>1. /\ cursor' = cursor
        /\ pull' = pull \/ pull' = [v \in Workers |-> IF m.client = v THEN Idle ELSE pull[v]]
    BY <1>15 DEF ReadCentralCursor, acknowledge_central_events, LoseAck, Answer
  <2> QED
    BY <1>13, <2>1
<1>16. CASE enqueue_outbox \/ UNCHANGED vars
  BY <1>5, <1>7, <1>16 DEF enqueue_outbox, vars
<1> QED
  BY <1>9, <1>10, <1>11, <1>12, <1>14, <1>15, <1>16 DEF Next, WorkerStep, HandlerStep

\* An event offered is either beyond the cursor or the cursor itself is offered: what is
\* pending before it lies within the batch.
LEMMA NearReaches ==
    ASSUME TypeOK, Coherent, NearRetired PROVE PollReachesCursor
<1> SUFFICES ASSUME NEW e \in Offered, ~(cursor <= e) PROVE cursor \in Offered
  <2>1. cursor <= cursor
    BY Numbers
  <2> QED
    BY <2>1 DEF PollReachesCursor
<1>1. /\ next \in Nat /\ cursor \in Nat /\ cursor < next /\ BatchCount \in Nat \ {0}
      /\ e \in Nat \ {0} /\ e < cursor /\ e \in Events /\ e \notin retired
  <2>1. e \in Pending
    BY DEF Offered
  <2> QED
    BY <2>1, OfferedType, ConstantsAssumption DEF TypeOK, Events, Pending, Coherent
<1>2. cursor \in Pending
  <2>1. cursor \notin retired
    BY <1>1 DEF Coherent, RetiredIsPrefix
  <2> QED
    BY <1>1, <2>1 DEF Pending
<1> DEFINE P == {f \in Pending : f < cursor}
           low == IF cursor <= BatchCount THEN 1 ELSE cursor - BatchCount + 1
<1>3. P \subseteq low..(cursor - 1)
  <2> SUFFICES ASSUME NEW f \in P PROVE f \in low..(cursor - 1)
    OBVIOUS
  <2>1. f \in Nat \ {0} /\ f < cursor /\ f \notin retired /\ f \in Events
    BY <1>1, ConstantsAssumption DEF Pending, TypeOK, Events
  <2>2. cursor > BatchCount => f > cursor - BatchCount
    <3> SUFFICES ASSUME cursor > BatchCount, f <= cursor - BatchCount PROVE FALSE
      BY <1>1, <2>1
    <3>1. cursor - BatchCount \in retired
      BY <1>1 DEF NearRetired, WithinBatch
    <3>2. f = cursor - BatchCount \/ f < cursor - BatchCount
      BY <1>1, <2>1
    <3> QED
      BY <2>1, <3>1, <3>2 DEF Coherent, RetiredIsPrefix
  <2> QED
    BY <1>1, <2>1, <2>2
<1>4. /\ low \in Int /\ cursor - 1 \in Int /\ low <= cursor
      /\ (cursor - 1) - low + 1 < BatchCount
  BY <1>1
<1>5. /\ IsFiniteSet(low..(cursor - 1)) /\ Cardinality(low..(cursor - 1)) \in Nat
      /\ Cardinality(low..(cursor - 1)) < BatchCount
  <2> HIDE DEF low
  <2>1. /\ IsFiniteSet(low..(cursor - 1))
        /\ Cardinality(low..(cursor - 1)) = IF low > cursor - 1 THEN 0 ELSE (cursor - 1) - low + 1
    BY <1>4, FS_Interval
  <2> QED
    BY <1>1, <1>4, <2>1, FS_CardinalityType
<1>6. Cardinality(P) <= Cardinality(low..(cursor - 1)) /\ Cardinality(P) \in Nat
  BY <1>3, <1>5, FS_Subset, FS_CardinalityType
<1>7. Cardinality(P) < BatchCount
  BY <1>1, <1>5, <1>6
<1> QED
  BY <1>2, <1>7 DEF Offered

\* The Site never runs more than a batch ahead of what Central has retired, however
\* passes crash and acknowledgements are lost or late: whenever outbound_events offers
\* anything, the offer reaches the Site's cursor, so that the acknowledgement of a
\* fresh pass passes the checkpoint test of acknowledge_central_events.
THEOREM OfferReachesCursor == Spec => []PollReachesCursor
<1>1. TypeOK /\ Coherent /\ NearRetired => PollReachesCursor
  BY NearReaches
<1>2. TypeOK /\ Coherent /\ NearRetired /\ [Next]_vars => NearRetired'
  BY StepNear
<1> QED
  BY <1>1, <1>2, InitNear, CoherenceInvariant, PTL DEF Spec
=============================================================================
