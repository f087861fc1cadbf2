--------------------------- MODULE MediaPullProofs ---------------------------
(***************************************************************************)
(* Proofs about MediaPull, for every size of the file and of the blocks    *)
(* and every bound on attempts and faults.                                 *)
(***************************************************************************)
EXTENDS MediaPull, SequenceTheorems, TLAPS

Units == 1..Size

-----------------------------------------------------------------------------
(* The file and its blocks *)

\* s begins with the first n units of the file.
Staged(n, s) == n <= Len(s) /\ \A i \in 1..n : s[i] = i

LEMMA FileFacts ==
    /\ File \in Seq(Units) /\ Len(File) = Size /\ File # <<>>
    /\ \A i \in Units : File[i] = i
<1>1. Size \in Nat \ {0}
  BY SizesAssumption
<1>2. File \in [Units -> Units] /\ \A i \in Units : File[i] = i
  BY DEF File, Units
<1>3. File \in Seq(Units) /\ Len(File) = Size
  BY <1>1, <1>2 DEF Units
<1> QED
  BY <1>1, <1>2, <1>3

\* The units a sequence begins with.
LEMMA FirstOf ==
    ASSUME NEW s \in Seq(Units), NEW n \in Nat, n <= Len(s)
    PROVE  /\ SubSeq(s, 1, n) \in Seq(Units) /\ Len(SubSeq(s, 1, n)) = n
           /\ \A i \in 1..n : SubSeq(s, 1, n)[i] = s[i]
<1>1. Len(s) \in Nat /\ \A i \in 1..Len(s) : s[i] \in Units
  BY LenProperties, ElementOfSeq
<1>2. \A i \in 1..n : s[i] \in Units
  BY <1>1
<1>3. /\ SubSeq(s, 1, n) \in Seq(Units)
      /\ Len(SubSeq(s, 1, n)) = IF 1 <= n THEN n - 1 + 1 ELSE 0
      /\ \A i \in 1..(n - 1 + 1) : SubSeq(s, 1, n)[i] = s[1 + i - 1]
  BY <1>1, <1>2, SubSeqProperties
<1> QED
  BY <1>1, <1>3

\* Beginning with the same units as the file, unit by unit.
LEMMA BeginsIsStaged ==
    ASSUME NEW n \in 0..Size, NEW s \in Seq(Units)
    PROVE  (n <= Len(s) /\ SubSeq(s, 1, n) = SubSeq(File, 1, n)) <=> Staged(n, s)
<1>1. n \in Nat /\ n <= Size /\ Size \in Nat
  BY SizesAssumption
<1>2. /\ SubSeq(File, 1, n) \in Seq(Units) /\ Len(SubSeq(File, 1, n)) = n
      /\ \A i \in 1..n : SubSeq(File, 1, n)[i] = File[i]
  BY <1>1, FileFacts, FirstOf
<1>3. \A i \in 1..n : File[i] = i
  BY <1>1, FileFacts DEF Units
<1>4. ASSUME n <= Len(s)
      PROVE  /\ SubSeq(s, 1, n) \in Seq(Units) /\ Len(SubSeq(s, 1, n)) = n
             /\ \A i \in 1..n : SubSeq(s, 1, n)[i] = s[i]
  BY <1>1, <1>4, FirstOf
<1>5. ASSUME n <= Len(s), \A i \in 1..n : s[i] = i PROVE SubSeq(s, 1, n) = SubSeq(File, 1, n)
  BY <1>2, <1>3, <1>4, <1>5, SeqEqual
<1>6. ASSUME n <= Len(s), SubSeq(s, 1, n) = SubSeq(File, 1, n) PROVE \A i \in 1..n : s[i] = i
  BY <1>2, <1>3, <1>4, <1>6
<1> QED
  BY <1>5, <1>6 DEF Staged

\* The published object begins with the file.
LEMMA PrefixIsStaged ==
    ASSUME NEW s \in Seq(Units)
    PROVE  IsPrefix(File, s) <=> Staged(Size, s)
<1>1. Size \in 0..Size /\ Len(File) = Size /\ SubSeq(File, 1, Len(File)) = File
  BY SizesAssumption, FileFacts, SubSeqFull
<1> QED
  BY <1>1, BeginsIsStaged DEF IsPrefix

\* The block Central streams at an offset.
LEMMA BlockFacts ==
    ASSUME NEW o \in 0..Size
    PROVE  /\ Streamed(o) \in Seq(Units)
           /\ Len(Streamed(o)) \in Nat /\ o + Len(Streamed(o)) <= Size
           /\ \A i \in 1..Len(Streamed(o)) : Streamed(o)[i] = o + i
<1> DEFINE last == IF o + Block < Size THEN o + Block ELSE Size
<1>1. /\ Size \in Nat /\ Block \in Nat /\ last \in Nat /\ o <= last /\ last <= Size
      /\ o \in Nat
  BY SizesAssumption
<1>2. Streamed(o) = SubSeq(File, o + 1, last)
  BY DEF Streamed
<1> HIDE DEF last
<1>3. \A i \in (o + 1)..last : File[i] \in Units /\ File[i] = i
  BY <1>1, FileFacts DEF Units
<1>4. /\ SubSeq(File, o + 1, last) \in Seq(Units)
      /\ Len(SubSeq(File, o + 1, last)) = IF o + 1 <= last THEN last - (o + 1) + 1 ELSE 0
      /\ \A i \in 1..(last - (o + 1) + 1) : SubSeq(File, o + 1, last)[i] = File[(o + 1) + i - 1]
  BY <1>1, <1>3, SubSeqProperties
<1>5. Len(Streamed(o)) = last - o
  BY <1>1, <1>2, <1>4
<1>6. ASSUME NEW i \in 1..Len(Streamed(o)) PROVE Streamed(o)[i] = o + i
  <2>1. i \in 1..(last - (o + 1) + 1) /\ (o + 1) + i - 1 = o + i /\ o + i \in (o + 1)..last
    BY <1>1, <1>5
  <2> QED
    BY <1>2, <1>3, <1>4, <2>1
<1>7. Len(Streamed(o)) \in Nat /\ o + Len(Streamed(o)) <= Size
  BY <1>1, <1>5
<1> QED
  BY <1>2, <1>4, <1>6, <1>7

\* What is staged stays so whatever is appended.
LEMMA StagedGrows ==
    ASSUME NEW s \in Seq(Units), NEW t \in Seq(Units)
    PROVE  /\ s \o t \in Seq(Units) /\ Len(s \o t) = Len(s) + Len(t)
           /\ \A n \in 0..Size : Staged(n, s) => Staged(n, s \o t)
<1>1. /\ s \o t \in Seq(Units) /\ Len(s \o t) = Len(s) + Len(t)
      /\ \A i \in 1..(Len(s) + Len(t)) : (s \o t)[i] = IF i <= Len(s) THEN s[i] ELSE t[i - Len(s)]
  BY ConcatProperties
<1>2. Len(s) \in Nat /\ Len(t) \in Nat /\ Size \in Nat
  BY SizesAssumption, LenProperties
<1>3. ASSUME NEW n \in 0..Size, Staged(n, s) PROVE Staged(n, s \o t)
  BY <1>1, <1>2, <1>3 DEF Staged
<1> QED
  BY <1>1, <1>3

\* The block at the end of the staged file extends it by the file's next units.
LEMMA BlockStages ==
    ASSUME NEW s \in Seq(Units), NEW o \in 0..Size, Len(s) = o, Staged(o, s)
    PROVE  Staged(Len(s \o Streamed(o)), s \o Streamed(o))
<1> DEFINE b == Streamed(o)
<1>1. b \in Seq(Units) /\ Len(b) \in Nat /\ \A i \in 1..Len(b) : b[i] = o + i
  BY BlockFacts
<1> HIDE DEF b
<1>2. /\ s \o b \in Seq(Units) /\ Len(s \o b) = o + Len(b)
      /\ \A i \in 1..(o + Len(b)) : (s \o b)[i] = IF i <= o THEN s[i] ELSE b[i - o]
  BY <1>1, ConcatProperties
<1>3. o \in Nat
  BY SizesAssumption
<1>4. ASSUME NEW i \in 1..(o + Len(b)) PROVE (s \o b)[i] = i
  <2>1. CASE i <= o
    BY <1>1, <1>2, <1>3, <2>1 DEF Staged
  <2>2. CASE ~(i <= o)
    <3>1. i - o \in 1..Len(b) /\ o + (i - o) = i
      BY <1>1, <1>3, <2>2
    <3> QED
      BY <1>1, <1>2, <2>2, <3>1
  <2> QED
    BY <2>1, <2>2
<1>5. Staged(Len(s \o b), s \o b)
  BY <1>1, <1>2, <1>3, <1>4 DEF Staged
<1> QED
  BY <1>5 DEF b

LEMMA PartsOfBlock ==
    ASSUME NEW b \in Seq(Units), NEW n \in 0..Len(b)
    PROVE  SubSeq(b, 1, n) \in Seq(Units) /\ SubSeq(b, n + 1, Len(b)) \in Seq(Units)
<1>1. Len(b) \in Nat /\ \A i \in 1..Len(b) : b[i] \in Units
  BY LenProperties, ElementOfSeq
<1>2. n \in Int /\ n + 1 \in Int /\ Len(b) \in Int /\ 1 \in Int
  BY <1>1
<1>3. (\A i \in 1..n : b[i] \in Units) /\ (\A i \in (n + 1)..Len(b) : b[i] \in Units)
  BY <1>1
<1> QED
  BY <1>2, <1>3, SubSeqProperties

-----------------------------------------------------------------------------
(* The parts of the invariant *)

Rows == [offset: 0..Size, state: States, ready: BOOLEAN]

LEMMA Typed ==
    ASSUME TypeOK
    PROVE  /\ sess.offset \in 0..Size /\ tx.work.offset \in 0..Size /\ tx.work \in Sessions
           /\ tx = [phase |-> tx.phase, work |-> tx.work]
           /\ staged \in Seq(Units) /\ rest \in Seq(Units) /\ published \in Seq(Units)
           /\ late \in Seq(Seq(Units))
           /\ outbox \in Seq(Rows)
BY DEF TypeOK, Sessions, Units, Rows

\* Being durable, unit by unit.
LEMMA DurableIsStaged ==
    ASSUME TypeOK, NEW n \in 0..Size
    PROVE  Durable(n) <=> Delivered \/ Staged(n, staged) \/ Overrun(n)
BY Typed, BeginsIsStaged DEF Durable, OnDisk

\* What a step that moves no bytes leaves durable.
LEMMA BytesStay ==
    ASSUME UNCHANGED <<staged, mixed, published>>, media = "AVAILABLE" => media' = "AVAILABLE"
    PROVE  (Delivered => Delivered') /\ \A n \in 0..Size : Durable(n) => Durable(n)'
BY DEF Delivered, Durable, OnDisk, Overrun, File

\* An event says nothing that is not so.
Honest(p) == p.offset <= sess.offset /\ (p.ready => Delivered)

LEMMA HonestEach ==
    ReportsHonest <=> Honest(central) /\ \A i \in 1..Len(outbox) : Honest(outbox[i])
BY DEF ReportsHonest, Honest

\* An honest event stays honest when the session moves on and the file stays delivered.
LEMMA StaysHonest ==
    ASSUME NEW p, p.offset \in 0..Size, TypeOK, TypeOK', sess.offset <= sess'.offset,
           Delivered => Delivered', Honest(p)
    PROVE  p.offset <= sess'.offset /\ (p.ready => Delivered')
<1>1. sess.offset \in 0..Size /\ sess'.offset \in 0..Size
  BY DEF TypeOK, Sessions
<1>2. p.offset \in Nat /\ sess.offset \in Nat /\ sess'.offset \in Nat
  BY <1>1, SizesAssumption
<1> QED
  BY <1>2 DEF Honest

\* What a step shows by leaving the session row, the reports and Central alone.
LEMMA RowKept ==
    ASSUME PullSafe, TypeOK', UNCHANGED <<sess, outbox, central>>,
           Delivered => Delivered', \A n \in 0..Size : Durable(n) => Durable(n)'
    PROVE  ReportsHonest' /\ ConfirmedIsDurable' /\ (~sess'.allocated => sess'.offset = 0)
<1>1. sess.offset \in 0..Size
  BY Typed DEF PullSafe
<1>2. ConfirmedIsDurable'
  BY <1>1 DEF PullSafe, ConfirmedIsDurable, Durable, OnDisk, Overrun
<1>3. ReportsHonest'
  BY DEF PullSafe, ReportsHonest
<1>4. ~sess'.allocated => sess'.offset = 0
  BY DEF PullSafe, AttemptDurable
<1> QED
  BY <1>2, <1>3, <1>4

\* A step that only moves the attempt's control, or fails, or ends it.
LEMMA ControlKept ==
    ASSUME PullSafe, TypeOK', UNCHANGED <<sess, outbox, staged, mixed, published, linked, media, central>>,
           \/ tx'.phase = "idle"
           \/ /\ tx.phase # "idle" /\ tx'.work.offset = tx.work.offset
              /\ tx'.work.allocated \/ tx'.work.allocated = tx.work.allocated
              /\ tx'.phase \in {"fetch", "append", "write"} => tx'.work.allocated
    PROVE  ReportsHonest' /\ ConfirmedIsDurable' /\ AttemptDurable' /\ PublishedIntact'
<1>1. (Delivered => Delivered') /\ \A n \in 0..Size : Durable(n) => Durable(n)'
  BY BytesStay
<1>2. ReportsHonest' /\ ConfirmedIsDurable' /\ (~sess'.allocated => sess'.offset = 0)
  BY <1>1, RowKept DEF PullSafe
<1>3. PublishedIntact'
  BY DEF PullSafe, PublishedIntact, File
<1>4. CASE tx'.phase = "idle"
  BY <1>2, <1>3, <1>4 DEF AttemptDurable
<1>5. CASE /\ tx.phase # "idle" /\ tx'.work.offset = tx.work.offset
           /\ tx'.work.allocated \/ tx'.work.allocated = tx.work.allocated
           /\ tx'.phase \in {"fetch", "append", "write"} => tx'.work.allocated
  <2>1. /\ tx.work.offset \in 0..Size /\ sess.offset <= tx.work.offset /\ Durable(tx.work.offset)
        /\ ~tx.work.allocated => tx.work.offset = 0
    BY <1>5, Typed DEF PullSafe, AttemptDurable
  <2>2. Durable(tx.work.offset)'
    BY <1>5, <2>1 DEF Durable, OnDisk, Overrun, Delivered, File
  <2>3. sess'.offset <= tx'.work.offset /\ (~tx'.work.allocated => tx'.work.offset = 0)
    BY <1>5, <2>1
  <2>4. AttemptDurable'
    BY <1>2, <1>5, <2>2, <2>3 DEF AttemptDurable
  <2> QED
    BY <1>2, <1>3, <2>4
<1> QED
  BY <1>4, <1>5

-----------------------------------------------------------------------------
(* The transaction *)

LEMMA FaultTyped == ASSUME TypeOK, Fault PROVE faults' \in 0..MaxFaults
BY BoundsAssumption DEF TypeOK, Fault

LEMMA AbandonTyped ==
    ASSUME TypeOK, UNCHANGED <<rest, late>> \/ Abandon
    PROVE  rest' \in Seq(Units) /\ late' \in Seq(Seq(Units))
<1>1. rest \in Seq(Units) /\ late \in Seq(Seq(Units))
  BY Typed
<1>2. Append(late, rest) \in Seq(Seq(Units))
  BY <1>1, AppendProperties
<1>3. <<>> \in Seq(Units)
  BY EmptySeq
<1> QED
  BY <1>1, <1>2, <1>3 DEF Abandon

\* The attempt goes on, fails or ends without moving bytes or rows.
LEMMA ControlTyped ==
    ASSUME PullSafe, NEW q \in Phases, tx' = [tx EXCEPT !.phase = q],
           faults' = faults \/ Fault, UNCHANGED <<rest, late>> \/ Abandon,
           UNCHANGED <<job, sess, keys, outbox, staged, mixed, published, linked, media, central>>
    PROVE  TypeOK' /\ tx'.phase = q /\ tx'.work = tx.work
<1>1. tx \in [phase: Phases, work: Sessions]
  BY DEF PullSafe, TypeOK
<1>2. tx'.phase = q /\ tx'.work = tx.work /\ tx' \in [phase: Phases, work: Sessions]
  BY <1>1
<1>3. faults' \in 0..MaxFaults
  BY FaultTyped DEF PullSafe, TypeOK
<1>4. rest' \in Seq(Units) /\ late' \in Seq(Seq(Units))
  BY AbandonTyped DEF PullSafe
<1> QED
  BY <1>2, <1>3, <1>4 DEF PullSafe, TypeOK, Units

\* The phases in which nothing is claimed of the media row or the object.
Plain == {"idle", "prepare", "fetch", "append", "progress", "commit", "complete", "fail"}

LEMMA PlainControl ==
    ASSUME PullSafe, NEW q \in Plain, tx' = [tx EXCEPT !.phase = q], tx.phase # "idle",
           q # "fetch", q = "append" => tx.phase = "fetch", faults' = faults \/ Fault,
           UNCHANGED <<rest, late>> \/ Abandon,
           UNCHANGED <<job, sess, keys, outbox, staged, mixed, published, linked, media, central>>
    PROVE  PullSafe'
<1>1. TypeOK' /\ tx'.phase = q /\ tx'.work = tx.work
  BY ControlTyped DEF Plain, Phases
<1>2. tx'.phase \in {"fetch", "append", "write"} => tx'.work.allocated
  BY <1>1 DEF PullSafe, AttemptDurable, Plain
<1>3. ReportsHonest' /\ ConfirmedIsDurable' /\ AttemptDurable' /\ PublishedIntact'
  BY <1>1, <1>2, ControlKept
<1>4. AdoptionInOrder' /\ WriteInOrder'
  BY <1>1 DEF PullSafe, AdoptionInOrder, WriteInOrder, Plain
<1> QED
  BY <1>1, <1>3, <1>4 DEF PullSafe

\* A killed worker, a failed commit, a report that exists already.
LEMMA RollbackKeeps == ASSUME PullSafe, KeyCollision \/ Crash PROVE PullSafe'
<1>1. /\ tx' = [tx EXCEPT !.phase = "idle"] /\ tx.phase # "idle"
      /\ UNCHANGED <<job, sess, keys, outbox, staged, mixed, published, linked, media, central>>
      /\ UNCHANGED <<rest, late>> \/ Abandon
      /\ faults' = faults \/ Fault
  BY DEF KeyCollision, Crash, Rollback, site
<1>2. "idle" \in Plain
  BY DEF Plain
<1> QED
  BY <1>1, <1>2, PlainControl

LEMMA ClaimKeeps == ASSUME PullSafe, _claim PROVE PullSafe'
<1>1. /\ tx' = [phase |-> IF sess.state = "COMPLETED" THEN "complete" ELSE "prepare", work |-> sess]
      /\ UNCHANGED <<job, sess, keys, outbox, staged, rest, late, mixed, published, linked, media, central, faults>>
  BY DEF _claim, site, storage
<1>2. tx' \in [phase: Phases, work: Sessions] /\ tx'.phase \in {"complete", "prepare"} /\ tx'.work = sess
  BY <1>1 DEF PullSafe, TypeOK, Phases
<1>3. TypeOK'
  BY <1>1, <1>2 DEF PullSafe, TypeOK
<1>4. sess.offset \in Nat
  BY Typed, SizesAssumption DEF PullSafe
<1>5. ReportsHonest' /\ ConfirmedIsDurable' /\ (~sess'.allocated => sess'.offset = 0)
  BY <1>1, <1>3, BytesStay, RowKept
<1>6. sess.offset <= sess.offset
  BY <1>4
<1>7. AttemptDurable'
  <2>1. Durable(tx.work.offset)'
    BY <1>1, <1>2, <1>5 DEF ConfirmedIsDurable, Durable, OnDisk, Overrun
  <2> QED
    BY <1>1, <1>2, <1>5, <1>6, <2>1 DEF AttemptDurable
<1>8. AdoptionInOrder' /\ PublishedIntact' /\ WriteInOrder'
  BY <1>1, <1>2 DEF PullSafe, AdoptionInOrder, PublishedIntact, WriteInOrder, File
<1> QED
  BY <1>3, <1>5, <1>7, <1>8 DEF PullSafe

\* The working copy becomes the session row, with the report the attempt owes.
LEMMA SettleKeeps ==
    ASSUME PullSafe, CommitProgress \/ CommitCompleted \/ CommitAlreadyCompleted \/ CommitFailure
    PROVE  PullSafe'
<1>1. /\ tx.phase # "idle" /\ sess' = tx.work /\ tx' = [tx EXCEPT !.phase = "idle"]
      /\ \E status \in {"PENDING", "RETRY_WAIT", "EXHAUSTED", "SUCCEEDED"} :
             job' = [status |-> status, attempts |-> job.attempts + 1]
      /\ UNCHANGED <<staged, rest, late, mixed, published, linked, media, central, faults>>
  BY DEF CommitProgress, CommitCompleted, CommitAlreadyCompleted, CommitFailure, Settle, FailedStatus,
         storage
<1>2. \/ UNCHANGED <<keys, outbox>>
      \/ \E ready \in BOOLEAN :
            /\ ready => tx.phase = "report"
            /\ keys' = keys \cup {Key}
            /\ outbox' = Append(outbox, [offset |-> tx.work.offset, state |-> tx.work.state,
                                         ready |-> ready])
  BY DEF CommitProgress, CommitCompleted, CommitAlreadyCompleted, CommitFailure,
         enqueue_transfer_progress
<1>3. /\ tx.work \in Sessions /\ tx.work.offset \in 0..Size /\ tx.work.state \in States
      /\ outbox \in Seq(Rows) /\ sess.offset \in 0..Size
  BY Typed DEF PullSafe, Sessions
<1>4. tx' \in [phase: Phases, work: Sessions] /\ tx'.phase = "idle"
  BY <1>1 DEF PullSafe, TypeOK, Phases
<1>5. job' \in [status: {"PENDING", "RETRY_WAIT", "EXHAUSTED", "SUCCEEDED"}, attempts: Nat]
  BY <1>1 DEF PullSafe, TypeOK
<1>6. keys' \subseteq (0..Size) \X States
  <2>1. Key \in (0..Size) \X States /\ keys \subseteq (0..Size) \X States
    BY <1>3 DEF Key, PullSafe, TypeOK
  <2>2. keys' = keys \/ keys' = keys \cup {Key}
    BY <1>2
  <2> QED
    BY <2>1, <2>2
<1>7. outbox' \in Seq(Rows)
  <2>1. \A ready \in BOOLEAN :
            [offset |-> tx.work.offset, state |-> tx.work.state, ready |-> ready] \in Rows
    BY <1>3 DEF Rows
  <2>2. \A r \in Rows : Append(outbox, r) \in Seq(Rows)
    BY <1>3, AppendProperties
  <2> QED
    BY <1>2, <1>3, <2>1, <2>2
<1>8. TypeOK'
  BY <1>1, <1>3, <1>4, <1>5, <1>6, <1>7 DEF PullSafe, TypeOK, Rows
<1>9. (Delivered => Delivered') /\ \A n \in 0..Size : Durable(n) => Durable(n)'
  BY <1>1, BytesStay
<1>10. /\ sess.offset <= tx.work.offset /\ Durable(tx.work.offset)
       /\ ~tx.work.allocated => tx.work.offset = 0
  BY <1>1 DEF PullSafe, AttemptDurable
<1>11. ConfirmedIsDurable' /\ AttemptDurable'
  BY <1>1, <1>3, <1>4, <1>9, <1>10 DEF ConfirmedIsDurable, AttemptDurable, Durable, OnDisk, Overrun
<1>12. AdoptionInOrder' /\ PublishedIntact' /\ WriteInOrder'
  BY <1>1, <1>4 DEF PullSafe, AdoptionInOrder, PublishedIntact, WriteInOrder, File
<1>13. ReportsHonest'
  <2>1. \A p \in Rows : Honest(p) => p.offset <= sess'.offset /\ (p.ready => Delivered')
    BY <1>1, <1>8, <1>9, <1>10, StaysHonest DEF PullSafe, Rows
  <2>2. central.offset \in 0..Size /\ Honest(central)
    BY HonestEach DEF PullSafe, TypeOK
  <2>3. Honest(central)'
    BY <1>1, <1>8, <1>9, <1>10, <2>2, StaysHonest DEF PullSafe, Honest
  <2>4. \A i \in 1..Len(outbox) : outbox[i] \in Rows /\ Honest(outbox[i])
    BY <1>3, HonestEach, ElementOfSeq DEF PullSafe
  <2>5. CASE UNCHANGED <<keys, outbox>>
    BY <2>1, <2>3, <2>4, <2>5 DEF ReportsHonest, Honest
  <2>6. ASSUME NEW ready \in BOOLEAN, ready => tx.phase = "report",
               outbox' = Append(outbox, [offset |-> tx.work.offset, state |-> tx.work.state,
                                         ready |-> ready])
        PROVE  ReportsHonest'
    <3> DEFINE r == [offset |-> tx.work.offset, state |-> tx.work.state, ready |-> ready]
    <3>1. r \in Rows
      BY <1>3 DEF Rows
    <3>2. r.offset <= sess'.offset /\ (r.ready => Delivered')
      <4>1. tx.work.offset <= sess'.offset
        BY <1>1, <1>3, SizesAssumption
      <4>2. ready => Delivered
        BY <2>6 DEF PullSafe, AdoptionInOrder, PublishedIntact, Delivered
      <4> QED
        BY <1>9, <4>1, <4>2
    <3>3. \A i \in 1..Len(outbox') : outbox'[i] = r \/ \E j \in 1..Len(outbox) : outbox'[i] = outbox[j]
      <4>1. /\ Len(outbox') = Len(outbox) + 1 /\ Len(outbox) \in Nat
            /\ \A i \in 1..Len(outbox) : outbox'[i] = outbox[i]
            /\ outbox'[Len(outbox) + 1] = r
        BY <1>3, <2>6, <3>1, AppendProperties, LenProperties
      <4> QED
        BY <4>1
    <3> HIDE DEF r
    <3>4. \A i \in 1..Len(outbox') : outbox'[i].offset <= sess'.offset /\ (outbox'[i].ready => Delivered')
      BY <2>1, <2>4, <3>2, <3>3
    <3> QED
      BY <2>3, <3>4 DEF ReportsHonest, Honest
  <2> QED
    BY <1>2, <2>5, <2>6
<1> QED
  BY <1>8, <1>11, <1>12, <1>13 DEF PullSafe

-----------------------------------------------------------------------------
(* The pull *)

\* A staging key: the staged file stays, or nothing had been confirmed of it.
LEMMA AllocateKeeps == ASSUME PullSafe, allocate_staging PROVE PullSafe'
<1>0. /\ tx.phase = "prepare"
      /\ UNCHANGED <<job, sess, keys, outbox, rest, published, linked, media, central>>
  BY DEF allocate_staging, site
<1>1. CASE /\ tx' = [phase |-> "fetch",
                     work |-> [tx.work EXCEPT !.allocated = TRUE, !.state = "TRANSFERRING"]]
           /\ IF tx.work.allocated
              THEN UNCHANGED <<staged, late, mixed>>
              ELSE staged' = <<>> /\ late' = <<>> /\ mixed' = FALSE
           /\ UNCHANGED faults
  <2>1. /\ tx.work \in Sessions /\ tx.work.offset \in 0..Size
        /\ tx.work.allocated \in BOOLEAN /\ "TRANSFERRING" \in States
        /\ sess.offset \in 0..Size /\ staged \in Seq(Units) /\ late \in Seq(Seq(Units))
    BY Typed DEF PullSafe, Sessions, States
  <2>2. /\ tx'.work \in Sessions /\ tx'.work.offset = tx.work.offset /\ tx'.work.allocated
        /\ tx'.phase = "fetch" /\ tx' \in [phase: Phases, work: Sessions]
    BY <1>1, <2>1 DEF Sessions, Phases
  <2>3. /\ staged' \in Seq(Units) /\ late' \in Seq(Seq(Units)) /\ mixed' \in BOOLEAN
        /\ <<>> \in Seq(Units) /\ Len(<<>>) = 0
    <3>1. <<>> \in Seq(Units) /\ <<>> \in Seq(Seq(Units)) /\ Len(<<>>) = 0
      BY EmptySeq
    <3>2. mixed \in BOOLEAN
      BY DEF PullSafe, TypeOK
    <3> QED
      BY <1>1, <2>1, <3>1, <3>2
  <2>4. TypeOK'
    BY <1>0, <1>1, <2>2, <2>3 DEF PullSafe, TypeOK, Units
  <2>5. /\ sess.offset <= tx.work.offset /\ Durable(tx.work.offset)
        /\ ~tx.work.allocated => tx.work.offset = 0
        /\ ~sess.allocated => sess.offset = 0
    BY <1>0 DEF PullSafe, AttemptDurable
  <2>6. Delivered <=> Delivered'
    BY <1>0 DEF Delivered, File
  <2>7. Durable(tx.work.offset)' /\ Durable(sess.offset)'
    <3>1. CASE tx.work.allocated
      <4>1. staged' = staged /\ mixed' = mixed /\ Durable(sess.offset)
        BY <1>1, <3>1 DEF PullSafe, ConfirmedIsDurable
      <4> QED
        BY <1>0, <2>2, <2>5, <2>6, <4>1 DEF Durable, OnDisk, Overrun, File
    <3>2. CASE ~tx.work.allocated
      <4>1. tx.work.offset = 0 /\ sess.offset = 0 /\ staged' = <<>>
        BY <1>1, <2>1, <2>5, <3>2, SizesAssumption
      <4>2. 0 \in 0..Size /\ Staged(0, <<>>)
        BY <2>3, SizesAssumption DEF Staged
      <4>3. 0 <= Len(<<>>) /\ SubSeq(<<>>, 1, 0) = SubSeq(File, 1, 0)
        BY <2>3, <4>2, BeginsIsStaged
      <4> QED
        BY <1>0, <2>2, <4>1, <4>3 DEF Durable, OnDisk, File
    <3> QED
      BY <3>1, <3>2
  <2>8. AttemptDurable' /\ ConfirmedIsDurable'
    <3>1. sess'.offset <= tx'.work.offset
      BY <1>0, <2>2, <2>5
    <3>2. Durable(tx.work.offset)' /\ ConfirmedIsDurable'
      BY <2>7 DEF ConfirmedIsDurable
    <3> QED
      BY <1>0, <2>2, <2>5, <3>1, <3>2 DEF AttemptDurable
  <2>9. ReportsHonest' /\ AdoptionInOrder' /\ PublishedIntact' /\ WriteInOrder'
    BY <1>0, <2>2, <2>6 DEF PullSafe, ReportsHonest, AdoptionInOrder, PublishedIntact, WriteInOrder, File
  <2> QED
    BY <2>4, <2>8, <2>9 DEF PullSafe
<1>2. CASE Fault /\ Raise /\ UNCHANGED <<staged, late, mixed>>
  <2>1. "fail" \in Plain /\ tx' = [tx EXCEPT !.phase = "fail"] /\ tx.phase # "idle"
    BY <1>0, <1>2 DEF Plain, Raise
  <2> QED
    BY <1>0, <1>2, <2>1, PlainControl
<1> QED
  BY <1>1, <1>2 DEF allocate_staging

LEMMA FetchKeeps == ASSUME PullSafe, transfer_content PROVE PullSafe'
<1>1. /\ tx.phase # "idle" /\ (faults' = faults \/ Fault)
      /\ UNCHANGED <<job, sess, keys, outbox, staged, rest, late, mixed, published, linked, media, central>>
      /\ tx.phase = "fetch"
      /\ \E q \in {"append", "fail"} : tx' = [tx EXCEPT !.phase = q]
  BY DEF transfer_content, Raise, site, storage
<1>2. PICK q \in {"append", "fail"} : tx' = [tx EXCEPT !.phase = q]
  BY <1>1
<1>3. q \in Plain /\ q # "fetch"
  BY DEF Plain
<1> QED
  BY <1>1, <1>2, <1>3, PlainControl

\* Appended units, whatever they are, leave what is durable and what is published.
LEMMA AppendKeeps ==
    ASSUME PullSafe, NEW t \in Seq(Units), staged' = staged \o t,
           UNCHANGED <<media, published>>, mixed => mixed'
    PROVE  /\ staged' \in Seq(Units) /\ Len(staged') = Len(staged) + Len(t)
           /\ Delivered <=> Delivered'
           /\ \A n \in 0..Size : Durable(n) => Durable(n)'
<1>1. staged \in Seq(Units) /\ Len(staged) \in Nat /\ Len(t) \in Nat
  BY Typed, LenProperties DEF PullSafe
<1>2. /\ staged' \in Seq(Units) /\ Len(staged') = Len(staged) + Len(t)
      /\ \A n \in 0..Size : Staged(n, staged) => Staged(n, staged')
  BY <1>1, StagedGrows
<1>3. Delivered <=> Delivered'
  BY DEF Delivered, File
<1>4. ASSUME NEW n \in 0..Size, Durable(n) PROVE Durable(n)'
  <2>1. CASE Delivered
    BY <1>3, <2>1 DEF Durable, OnDisk
  <2>2. CASE Overrun(n)
    <3>1. n < Len(staged) /\ n \in Nat
      BY <2>2, SizesAssumption DEF Overrun
    <3>2. n < Len(staged')
      BY <1>1, <1>2, <3>1
    <3> QED
      BY <2>2, <3>2 DEF Durable, Overrun
  <2>3. CASE ~Delivered /\ ~Overrun(n)
    <3>1. Staged(n, staged')
      BY <1>1, <1>2, <1>4, <2>3, BeginsIsStaged DEF Durable, OnDisk
    <3> QED
      BY <1>2, <3>1, BeginsIsStaged DEF Durable, OnDisk, File
  <2> QED
    BY <2>1, <2>2, <2>3
<1> QED
  BY <1>2, <1>3, <1>4

\* The check: what is staged and the block make the file as far as the block goes.
LEMMA AppendStagingKeeps == ASSUME PullSafe, append_staging PROVE PullSafe'
<1>0. /\ tx.phase = "append"
      /\ UNCHANGED <<job, sess, keys, outbox, staged, late, mixed, published, linked, media, central, faults>>
  BY DEF append_staging, site
<1>1. CASE ~Accepts
  <2>1. "fail" \in Plain /\ tx' = [tx EXCEPT !.phase = "fail"] /\ tx.phase # "idle" /\ rest' = rest
    BY <1>0, <1>1 DEF append_staging, Plain, Raise
  <2> QED
    BY <1>0, <2>1, PlainControl
<1>2. CASE Accepts
  <2>1. /\ rest' = Streamed(tx.work.offset) /\ tx' = [tx EXCEPT !.phase = "write"]
        /\ Len(staged) = tx.work.offset
    BY <1>2 DEF append_staging, Accepts
  <2>2. /\ tx.work.offset \in 0..Size /\ staged \in Seq(Units)
        /\ tx \in [phase: Phases, work: Sessions] /\ "write" \in Phases
    BY Typed DEF PullSafe, TypeOK, Phases
  <2>3. /\ rest' \in Seq(Units) /\ Len(rest') \in Nat
        /\ tx.work.offset + Len(Streamed(tx.work.offset)) <= Size
    BY <2>1, <2>2, BlockFacts
  <2>4. tx' \in [phase: Phases, work: Sessions] /\ tx'.phase = "write" /\ tx'.work = tx.work
    BY <2>1, <2>2
  <2>5. TypeOK'
    BY <1>0, <2>3, <2>4 DEF PullSafe, TypeOK, Units
  <2>6. tx.phase # "idle" /\ tx'.work.allocated
    BY <1>0, <2>4 DEF PullSafe, AttemptDurable
  <2>7. ReportsHonest' /\ ConfirmedIsDurable' /\ AttemptDurable' /\ PublishedIntact'
    BY <1>0, <2>4, <2>5, <2>6, ControlKept
  <2>8. AdoptionInOrder'
    BY <1>0, <2>4 DEF PullSafe, AdoptionInOrder
  <2>9. WriteInOrder'
    <3>1. (Delivered => Delivered') /\ Target' = Target
      BY <1>0, <2>4 DEF Delivered, Target, Streamed, File
    <3>2. Delivered \/ Staged(tx.work.offset, staged) \/ Overrun(tx.work.offset)
      BY <2>2, <2>6, DurableIsStaged DEF PullSafe, AttemptDurable
    <3>3. Overrun(tx.work.offset) => FALSE
      BY <2>1, <2>2, SizesAssumption DEF Overrun
    <3>4. ASSUME Staged(tx.work.offset, staged)
          PROVE  staged' \o rest' = SubSeq(File, 1, Target)
      <4>1. Staged(Len(staged \o Streamed(tx.work.offset)), staged \o Streamed(tx.work.offset))
        BY <2>1, <2>2, <3>4, BlockStages
      <4> DEFINE w == staged \o Streamed(tx.work.offset)
      <4>2. w \in Seq(Units) /\ Len(w) = Target /\ Target \in 0..Size
        <5>1. w \in Seq(Units) /\ Len(w) = Len(staged) + Len(Streamed(tx.work.offset))
          BY <2>1, <2>2, <2>3, StagedGrows
        <5> QED
          BY <2>1, <2>2, <2>3, <5>1, SizesAssumption DEF Target
      <4>3. SubSeq(w, 1, Len(w)) = w
        BY <4>2, SubSeqFull
      <4>4. SubSeq(w, 1, Target) = SubSeq(File, 1, Target)
        <5>1. Staged(Target, w)
          BY <4>1, <4>2
        <5> HIDE DEF w
        <5> QED
          BY <4>2, <5>1, BeginsIsStaged
      <4>5. w = staged' \o rest'
        BY <1>0, <2>1
      <4> QED
        BY <4>2, <4>3, <4>4, <4>5
    <3> QED
      BY <3>1, <3>2, <3>3, <3>4 DEF WriteInOrder
  <2> QED
    BY <2>5, <2>7, <2>8, <2>9 DEF PullSafe
<1> QED
  BY <1>1, <1>2

LEMMA AppendsAssociate ==
    ASSUME NEW x \in Seq(Units), NEW y \in Seq(Units), NEW z \in Seq(Units)
    PROVE  (x \o y) \o z = x \o (y \o z)
<1>1. Len(x) \in Nat /\ Len(y) \in Nat /\ Len(z) \in Nat
  BY LenProperties
<1>2. /\ x \o y \in Seq(Units) /\ Len(x \o y) = Len(x) + Len(y)
      /\ \A i \in 1..(Len(x) + Len(y)) : (x \o y)[i] = IF i <= Len(x) THEN x[i] ELSE y[i - Len(x)]
  BY ConcatProperties
<1>3. /\ y \o z \in Seq(Units) /\ Len(y \o z) = Len(y) + Len(z)
      /\ \A i \in 1..(Len(y) + Len(z)) : (y \o z)[i] = IF i <= Len(y) THEN y[i] ELSE z[i - Len(y)]
  BY ConcatProperties
<1> DEFINE xy == x \o y
           yz == y \o z
<1> HIDE DEF xy, yz
<1>4. /\ xy \o z \in Seq(Units) /\ Len(xy \o z) = Len(xy) + Len(z)
      /\ \A i \in 1..(Len(xy) + Len(z)) : (xy \o z)[i] = IF i <= Len(xy) THEN xy[i] ELSE z[i - Len(xy)]
  BY <1>2, ConcatProperties DEF xy
<1>5. /\ x \o yz \in Seq(Units) /\ Len(x \o yz) = Len(x) + Len(yz)
      /\ \A i \in 1..(Len(x) + Len(yz)) : (x \o yz)[i] = IF i <= Len(x) THEN x[i] ELSE yz[i - Len(x)]
  BY <1>3, ConcatProperties DEF yz
<1>6. /\ Len(xy) = Len(x) + Len(y)
      /\ \A i \in 1..(Len(x) + Len(y)) : xy[i] = IF i <= Len(x) THEN x[i] ELSE y[i - Len(x)]
      /\ Len(yz) = Len(y) + Len(z)
      /\ \A i \in 1..(Len(y) + Len(z)) : yz[i] = IF i <= Len(y) THEN y[i] ELSE z[i - Len(y)]
  BY <1>2, <1>3 DEF xy, yz
<1>7. Len(xy \o z) = Len(x \o yz)
  BY <1>1, <1>4, <1>5, <1>6
<1> DEFINE l == xy \o z
           r == x \o yz
<1>8. ASSUME NEW i \in 1..Len(l) PROVE l[i] = r[i]
  <2>1. i \in 1..(Len(xy) + Len(z)) /\ i \in 1..(Len(x) + Len(yz))
    BY <1>1, <1>4, <1>5, <1>6, <1>8
  <2>2. /\ l[i] = IF i <= Len(xy) THEN xy[i] ELSE z[i - Len(xy)]
        /\ r[i] = IF i <= Len(x) THEN x[i] ELSE yz[i - Len(x)]
    BY <1>4, <1>5, <2>1
  <2> HIDE DEF l, r
  <2>3. CASE i <= Len(x)
    BY <1>1, <1>6, <2>1, <2>2, <2>3
  <2>4. CASE Len(x) < i /\ i <= Len(x) + Len(y)
    <3>1. i - Len(x) \in 1..(Len(y) + Len(z)) /\ i - Len(x) <= Len(y) /\ i \in 1..(Len(x) + Len(y))
          /\ ~(i <= Len(x)) /\ i <= Len(xy)
      BY <1>1, <1>6, <2>1, <2>4
    <3> QED
      BY <1>6, <2>2, <3>1
  <2>5. CASE Len(x) + Len(y) < i
    <3>1. i - Len(x) \in 1..(Len(y) + Len(z)) /\ ~(i - Len(x) <= Len(y)) /\ ~(i <= Len(x))
          /\ ~(i <= Len(xy)) /\ (i - Len(x)) - Len(y) = i - Len(xy)
      BY <1>1, <1>6, <2>1, <2>5
    <3> QED
      BY <1>6, <2>2, <3>1
  <2> QED
    BY <1>1, <2>1, <2>3, <2>4, <2>5
<1>9. l = r
  <2>1. l \in Seq(Units) /\ r \in Seq(Units) /\ Len(l) = Len(r)
    BY <1>4, <1>5, <1>7
  <2> HIDE DEF l, r
  <2> QED
    BY <1>8, <2>1, SeqEqual
<1> QED
  BY <1>9 DEF xy, yz

\* Splitting what is still to be written moves it behind what is staged.
LEMMA SplitRest ==
    ASSUME NEW s \in Seq(Units), NEW t \in Seq(Units), NEW n \in 1..Len(t)
    PROVE  /\ SubSeq(t, 1, n) \in Seq(Units) /\ SubSeq(t, n + 1, Len(t)) \in Seq(Units)
           /\ (s \o SubSeq(t, 1, n)) \o SubSeq(t, n + 1, Len(t)) = s \o t
           /\ Len(SubSeq(t, 1, n)) + Len(SubSeq(t, n + 1, Len(t))) = Len(t)
           /\ n = Len(t) => SubSeq(t, 1, n) = t
           /\ Len(SubSeq(t, 1, n)) \in Nat \ {0}
<1>1. Len(t) \in Nat /\ n \in 0..Len(t) /\ n \in Nat \ {0}
  BY LenProperties
<1>2. SubSeq(t, 1, n) \in Seq(Units) /\ SubSeq(t, n + 1, Len(t)) \in Seq(Units)
  BY <1>1, PartsOfBlock
<1>3. SubSeq(t, 1, n) \o SubSeq(t, n + 1, Len(t)) = SubSeq(t, 1, Len(t)) /\ SubSeq(t, 1, Len(t)) = t
  <2>1. 1 \in 1..(Len(t) + 1) /\ n \in (1 - 1)..Len(t) /\ Len(t) \in n..Len(t)
    BY <1>1
  <2> QED
    BY <2>1, ConcatAdjacentSubSeq, SubSeqFull
<1>4. (s \o SubSeq(t, 1, n)) \o SubSeq(t, n + 1, Len(t)) = s \o t
  <2> DEFINE a == SubSeq(t, 1, n)
             b == SubSeq(t, n + 1, Len(t))
  <2>1. a \in Seq(Units) /\ b \in Seq(Units) /\ a \o b = t
    BY <1>2, <1>3
  <2> HIDE DEF a, b
  <2>2. (s \o a) \o b = s \o (a \o b)
    BY <2>1, AppendsAssociate
  <2>3. (s \o a) \o b = s \o t
    BY <2>1, <2>2
  <2> QED
    BY <2>3 DEF a, b
<1>5. Len(SubSeq(t, 1, n)) = n
  BY <1>1, FirstOf
<1>6. Len(SubSeq(t, 1, n)) + Len(SubSeq(t, n + 1, Len(t))) = Len(t)
  <2> DEFINE a == SubSeq(t, 1, n)
             b == SubSeq(t, n + 1, Len(t))
  <2>1. a \in Seq(Units) /\ b \in Seq(Units) /\ a \o b = t
    BY <1>2, <1>3
  <2> HIDE DEF a, b
  <2>2. Len(a \o b) = Len(a) + Len(b)
    BY <2>1, ConcatProperties
  <2>3. Len(a) + Len(b) = Len(t)
    BY <2>1, <2>2
  <2> QED
    BY <2>3 DEF a, b
<1> QED
  BY <1>1, <1>2, <1>3, <1>4, <1>5, <1>6

\* A write of the running append, and the answer after the last one.
LEMMA WriteChunkKeeps == ASSUME PullSafe, WriteChunk PROVE PullSafe'
<1>0. /\ tx.phase = "write"
      /\ UNCHANGED <<job, sess, keys, outbox, late, mixed, published, linked, media, central, faults>>
  BY DEF WriteChunk, site
<1>1. PICK n \in 1..Len(rest) : WriteFirst(n)
  BY DEF WriteChunk
<1> DEFINE t == SubSeq(rest, 1, n)
           u == SubSeq(rest, n + 1, Len(rest))
<1>2. /\ staged' = staged \o t /\ rest' = u
      /\ tx' = IF n = Len(rest) THEN Received(Target) ELSE tx
  BY <1>1 DEF WriteFirst, Target
<1>3. /\ tx.work.offset \in 0..Size /\ staged \in Seq(Units) /\ rest \in Seq(Units)
      /\ sess.offset \in 0..Size
      /\ tx \in [phase: Phases, work: Sessions] /\ tx.work \in Sessions
  BY Typed DEF PullSafe, TypeOK
<1>4. /\ t \in Seq(Units) /\ u \in Seq(Units) /\ (staged \o t) \o u = staged \o rest
      /\ Len(t) + Len(u) = Len(rest) /\ (n = Len(rest) => t = rest) /\ Len(t) \in Nat
      /\ Len(u) \in Nat /\ Len(staged) \in Nat /\ Len(rest) \in Nat
  BY <1>1, <1>3, SplitRest, LenProperties
<1>5. Target \in 0..Size /\ tx.work.offset <= Target
  <2>1. Len(Streamed(tx.work.offset)) \in Nat /\ Target <= Size
    BY <1>3, BlockFacts DEF Target
  <2> QED
    BY <1>3, <2>1, SizesAssumption DEF Target
<1> HIDE DEF t, u
<1>6. /\ staged' \in Seq(Units) /\ Len(staged') = Len(staged) + Len(t) /\ (Delivered <=> Delivered')
      /\ \A m \in 0..Size : Durable(m) => Durable(m)'
  BY <1>0, <1>2, <1>4, AppendKeeps
<1>7. /\ sess.offset <= tx.work.offset /\ tx.work.allocated
      /\ Durable(tx.work.offset)
  BY <1>0 DEF PullSafe, AttemptDurable
<1>8. /\ Delivered \/ staged \o rest = SubSeq(File, 1, Target)
         \/ (mixed /\ Target < Len(staged) + Len(rest))
  BY <1>0 DEF PullSafe, WriteInOrder
<1>9. CASE n # Len(rest)
  <2>1. tx' = tx
    BY <1>2, <1>9
  <2>2. TypeOK'
    BY <1>0, <1>2, <1>4, <1>6, <2>1 DEF PullSafe, TypeOK, Units
  <2>3. ReportsHonest' /\ ConfirmedIsDurable' /\ (~sess'.allocated => sess'.offset = 0)
    BY <1>0, <1>6, <2>2, RowKept
  <2>4. AttemptDurable'
    <3>1. Durable(tx.work.offset)'
      BY <1>3, <1>6, <1>7, <2>1 DEF Durable, OnDisk, Overrun
    <3> QED
      BY <1>0, <1>7, <2>1, <2>3, <3>1 DEF PullSafe, AttemptDurable
  <2>5. AdoptionInOrder' /\ PublishedIntact'
    BY <1>0, <2>1 DEF PullSafe, AdoptionInOrder, PublishedIntact, File
  <2>6. WriteInOrder'
    <3>1. Target' = Target
      BY <2>1 DEF Target, Streamed, File
    <3>2. staged \o rest = SubSeq(File, 1, Target) => staged' \o rest' = SubSeq(File, 1, Target)
      BY <1>2, <1>4
    <3>3. Target < Len(staged) + Len(rest) => Target < Len(staged') + Len(rest')
      BY <1>2, <1>4, <1>6
    <3>4. SubSeq(File, 1, Target)' = SubSeq(File, 1, Target)
      BY <3>1 DEF File
    <3> QED
      BY <1>0, <1>6, <1>8, <3>1, <3>2, <3>3, <3>4 DEF WriteInOrder
  <2> QED
    BY <2>2, <2>3, <2>4, <2>5, <2>6 DEF PullSafe
<1>10. CASE n = Len(rest)
  <2>1. tx' = Received(Target)
    BY <1>2, <1>10
  <2>2. /\ tx'.work.offset = Target /\ tx'.work.allocated = tx.work.allocated
        /\ tx'.phase \in {"commit", "progress"} /\ tx' \in [phase: Phases, work: Sessions]
    <3> DEFINE m == Target
    <3>0. m \in 0..Size
      BY <1>5
    <3> HIDE DEF m
    <3>1. /\ tx'.phase = IF m = Size THEN "commit" ELSE "progress"
          /\ tx'.work = [[tx.work EXCEPT !.offset = m] EXCEPT
                            !.state = IF m = Size THEN "VERIFYING" ELSE @]
          /\ tx' = [phase |-> tx'.phase, work |-> tx'.work]
      BY <1>3, <2>1 DEF Received, m
    <3>2. /\ tx'.work \in Sessions /\ tx'.work.offset = m /\ tx'.work.allocated = tx.work.allocated
      BY <1>3, <3>0, <3>1 DEF Sessions, States
    <3>3. m = Target
      BY DEF m
    <3> QED
      BY <3>1, <3>2, <3>3 DEF Phases
  <2>3. TypeOK'
    BY <1>0, <1>2, <1>4, <1>6, <2>2 DEF PullSafe, TypeOK, Units
  <2>4. ReportsHonest' /\ ConfirmedIsDurable' /\ (~sess'.allocated => sess'.offset = 0)
    BY <1>0, <1>6, <2>3, RowKept
  <2>5. /\ Len(staged') = Len(staged) + Len(rest)
        /\ staged \o rest = SubSeq(File, 1, Target) => staged' = SubSeq(File, 1, Target)
    BY <1>2, <1>4, <1>6, <1>10
  <2>7. \/ Delivered'
        \/ Target <= Len(staged') /\ SubSeq(staged', 1, Target) = SubSeq(File, 1, Target)
        \/ mixed' /\ Target < Len(staged')
    <3>1. CASE Delivered
      BY <1>6, <3>1
    <3>2. CASE staged \o rest = SubSeq(File, 1, Target)
      <4>1. staged' = SubSeq(File, 1, Target)
        BY <2>5, <3>2
      <4>2. Target \in Nat /\ Target <= Len(File) /\ File \in Seq(Units)
        BY <1>5, FileFacts, SizesAssumption
      <4>3. Len(staged') = Target
        BY <4>1, <4>2, FirstOf
      <4>4. SubSeq(staged', 1, Target) = staged'
        BY <1>6, <4>3, SubSeqFull
      <4> QED
        BY <4>1, <4>2, <4>3, <4>4
    <3>3. CASE mixed /\ Target < Len(staged) + Len(rest)
      BY <1>0, <2>5, <3>3
    <3> QED
      BY <1>8, <3>1, <3>2, <3>3
  <2>8. Durable(tx.work.offset)'
    BY <2>2, <2>7 DEF Durable, OnDisk, Overrun, File
  <2>9. AttemptDurable'
    <3>1. sess'.offset <= tx'.work.offset
      BY <1>0, <1>3, <1>5, <1>7, <2>2, SizesAssumption
    <3> QED
      BY <1>7, <2>2, <2>4, <2>8, <3>1 DEF AttemptDurable
  <2>10. AdoptionInOrder' /\ PublishedIntact' /\ WriteInOrder'
    BY <1>0, <2>2 DEF PullSafe, AdoptionInOrder, PublishedIntact, WriteInOrder, File
  <2> QED
    BY <2>3, <2>4, <2>9, <2>10 DEF PullSafe
<1> QED
  BY <1>9, <1>10

\* The worker gives up: the service keeps what it has not written.
LEMMA AppendTimesOutKeeps == ASSUME PullSafe, AppendTimesOut PROVE PullSafe'
<1>1. /\ tx.phase # "idle" /\ Fault /\ tx' = [tx EXCEPT !.phase = "fail"] /\ Abandon
      /\ UNCHANGED <<job, sess, keys, outbox, staged, mixed, published, linked, media, central>>
  BY DEF AppendTimesOut, Raise, site
<1>2. "fail" \in Plain
  BY DEF Plain
<1> QED
  BY <1>1, <1>2, PlainControl

\* What an abandoned append has left after it wrote, and the list without it.
LEMMA LateTyped ==
    ASSUME NEW l \in Seq(Seq(Units)), NEW i \in DOMAIN l
    PROVE  /\ l[i] \in Seq(Units) /\ RemoveAt(l, i) \in Seq(Seq(Units))
           /\ \A n \in 1..Len(l[i]) :
                 [l EXCEPT ![i] = SubSeq(l[i], n + 1, Len(l[i]))] \in Seq(Seq(Units))
<1>1. Len(l) \in Nat /\ i \in 1..Len(l) /\ \A j \in 1..Len(l) : l[j] \in Seq(Units)
  BY LenProperties, ElementOfSeq
<1>2. SubSeq(l, 1, i - 1) \in Seq(Seq(Units)) /\ SubSeq(l, i + 1, Len(l)) \in Seq(Seq(Units))
  <2>1. /\ 1 \in Int /\ i - 1 \in Int /\ i + 1 \in Int /\ Len(l) \in Int
        /\ \A j \in 1..(i - 1) : l[j] \in Seq(Units)
        /\ \A j \in (i + 1)..Len(l) : l[j] \in Seq(Units)
    BY <1>1
  <2> QED
    BY <2>1, SubSeqProperties
<1>3. RemoveAt(l, i) \in Seq(Seq(Units))
  BY <1>2, ConcatProperties DEF RemoveAt
<1>4. ASSUME NEW n \in 1..Len(l[i])
      PROVE  [l EXCEPT ![i] = SubSeq(l[i], n + 1, Len(l[i]))] \in Seq(Seq(Units))
  <2>1. SubSeq(l[i], n + 1, Len(l[i])) \in Seq(Units)
    BY <1>1, <1>4, SplitRest
  <2> QED
    BY <1>1, <2>1, ExceptSeq
<1> QED
  BY <1>1, <1>3, <1>4

\* What the bytes of an abandoned append may change.
Added ==
    /\ staged' \in Seq(Units) /\ published' \in Seq(Units) /\ mixed' \in BOOLEAN
    /\ mixed => mixed'
    /\ Len(staged) <= Len(staged')
    /\ staged' # staged => Len(staged) < Len(staged') /\ (tx.phase = "write" => mixed')
    /\ \A n \in 0..Size : Staged(n, staged) => Staged(n, staged')
    /\ \A n \in 0..Size : Staged(n, published) => Staged(n, published')
    /\ ~linked => published' = published

LEMMA GrowsAdds ==
    ASSUME PullSafe, NEW u \in Seq(Units), Len(u) \in Nat \ {0}, Grows(u)
    PROVE  Added
<1>1. staged \in Seq(Units) /\ published \in Seq(Units) /\ mixed \in BOOLEAN /\ Len(staged) \in Nat
  BY Typed, LenProperties DEF PullSafe, TypeOK
<1>2. /\ staged \o u \in Seq(Units) /\ Len(staged \o u) = Len(staged) + Len(u)
      /\ \A n \in 0..Size : Staged(n, staged) => Staged(n, staged \o u)
  BY <1>1, StagedGrows
<1>3. /\ published \o u \in Seq(Units)
      /\ \A n \in 0..Size : Staged(n, published) => Staged(n, published \o u)
  BY <1>1, StagedGrows
<1>4. /\ staged' \in {staged, staged \o u} /\ published' \in {published, published \o u}
      /\ ~linked => published' = published
      /\ mixed' = (mixed \/ (tx.phase = "write" /\ staged' # staged))
  BY DEF Grows
<1>5. Len(staged) <= Len(staged) /\ Len(staged) < Len(staged \o u) /\ Len(staged) <= Len(staged \o u)
  BY <1>1, <1>2
<1>6. mixed' \in BOOLEAN /\ (mixed => mixed') /\ (staged' # staged /\ tx.phase = "write" => mixed')
  BY <1>4
<1>7. /\ staged' \in Seq(Units) /\ published' \in Seq(Units)
      /\ Len(staged) <= Len(staged')
      /\ staged' # staged => Len(staged) < Len(staged')
  BY <1>1, <1>2, <1>3, <1>4, <1>5
<1>8. /\ \A n \in 0..Size : Staged(n, staged) => Staged(n, staged')
      /\ \A n \in 0..Size : Staged(n, published) => Staged(n, published')
  BY <1>2, <1>3, <1>4
<1> QED
  BY <1>4, <1>6, <1>7, <1>8 DEF Added

\* Units of an abandoned append are written, behind the staged file and behind an object
\* that shares its inode.
LEMMA LateWriteKeeps == ASSUME PullSafe, LateWrite PROVE PullSafe'
<1>0. UNCHANGED <<job, sess, keys, outbox, tx, rest, linked, media, central, faults>>
  BY DEF LateWrite, site
<1>1. /\ staged \in Seq(Units) /\ late \in Seq(Seq(Units)) /\ published \in Seq(Units)
      /\ rest \in Seq(Units) /\ sess.offset \in 0..Size /\ tx.work.offset \in 0..Size
      /\ mixed \in BOOLEAN
  BY Typed DEF PullSafe, TypeOK
<1>2. PICK i \in DOMAIN late :
          \/ \E n \in 1..Len(late[i]) :
                /\ Grows(SubSeq(late[i], 1, n))
                /\ late' = IF n = Len(late[i])
                           THEN RemoveAt(late, i)
                           ELSE [late EXCEPT ![i] = SubSeq(@, n + 1, Len(@))]
          \/ /\ late' = RemoveAt(late, i)
             /\ UNCHANGED <<staged, published, mixed>>
  BY DEF LateWrite
<1>3. late' \in Seq(Seq(Units))
  <2>1. /\ RemoveAt(late, i) \in Seq(Seq(Units))
        /\ \A n \in 1..Len(late[i]) :
              [late EXCEPT ![i] = SubSeq(late[i], n + 1, Len(late[i]))] \in Seq(Seq(Units))
    BY <1>1, <1>2, LateTyped
  <2>2. \/ late' = RemoveAt(late, i)
        \/ \E n \in 1..Len(late[i]) : late' = [late EXCEPT ![i] = SubSeq(late[i], n + 1, Len(late[i]))]
    BY <1>2
  <2> QED
    BY <2>1, <2>2
<1>4. (\E u \in Seq(Units) : Len(u) \in Nat \ {0} /\ Grows(u)) \/ UNCHANGED <<staged, published, mixed>>
  <2>1. ASSUME NEW n \in 1..Len(late[i])
        PROVE  SubSeq(late[i], 1, n) \in Seq(Units) /\ Len(SubSeq(late[i], 1, n)) \in Nat \ {0}
    BY <1>1, <2>1, LateTyped, SplitRest
  <2> QED
    BY <1>2, <2>1
<1>5. Added
  <2>1. CASE UNCHANGED <<staged, published, mixed>>
    <3>1. Len(staged) \in Nat
      BY <1>1, LenProperties
    <3>2. Len(staged) <= Len(staged)
      BY <3>1
    <3> QED
      BY <1>1, <2>1, <3>2 DEF Added
  <2> QED
    BY <1>4, <2>1, GrowsAdds
<1>6. TypeOK'
  BY <1>0, <1>1, <1>3, <1>5 DEF PullSafe, TypeOK, Units, Added
<1>7. Size \in 0..Size /\ (IsPrefix(File, published) => IsPrefix(File, published'))
  BY <1>1, <1>5, PrefixIsStaged, SizesAssumption DEF Added
<1>8. Delivered => Delivered'
  BY <1>0, <1>7 DEF Delivered, File
<1>9. ASSUME NEW n \in 0..Size, Durable(n) PROVE Durable(n)'
  <2>1. CASE Delivered
    BY <1>8, <2>1 DEF Durable, OnDisk
  <2>2. CASE Overrun(n)
    <3>1. n < Len(staged) /\ n \in Nat /\ Len(staged) \in Nat /\ Len(staged') \in Nat
      BY <1>1, <1>5, <2>2, LenProperties, SizesAssumption DEF Overrun, Added
    <3>2. n < Len(staged')
      BY <1>5, <3>1 DEF Added
    <3> QED
      BY <1>5, <2>2, <3>2 DEF Durable, Overrun, Added
  <2>3. CASE ~Delivered /\ ~Overrun(n)
    <3>1. Staged(n, staged')
      BY <1>1, <1>5, <1>9, <2>3, BeginsIsStaged DEF Durable, OnDisk, Added
    <3>2. staged' \in Seq(Units)
      BY <1>5 DEF Added
    <3> QED
      BY <3>1, <3>2, BeginsIsStaged DEF Durable, OnDisk, File
  <2> QED
    BY <2>1, <2>2, <2>3
<1>10. ReportsHonest' /\ ConfirmedIsDurable' /\ (~sess'.allocated => sess'.offset = 0)
  BY <1>0, <1>6, <1>8, <1>9, RowKept
<1>11. AttemptDurable'
  <2>1. tx.phase # "idle" => Durable(tx.work.offset)'
    BY <1>0, <1>1, <1>9 DEF PullSafe, AttemptDurable, Durable, OnDisk, Overrun
  <2> QED
    BY <1>0, <1>10, <2>1 DEF PullSafe, AttemptDurable
<1>12. published # <<>> => published' # <<>>
  <2>0. published' \in Seq(Units)
    BY <1>5 DEF Added
  <2>1. published # <<>> => IsPrefix(File, published')
    BY <1>7 DEF PullSafe, PublishedIntact
  <2>2. IsPrefix(File, published') => Staged(Size, published')
    BY <2>0, PrefixIsStaged
  <2>3. Staged(Size, published') => published' # <<>>
    BY <2>0, SizesAssumption, EmptySeq DEF Staged
  <2> QED
    BY <2>1, <2>2, <2>3
<1>13. AdoptionInOrder'
  BY <1>0, <1>12 DEF PullSafe, AdoptionInOrder
<1>14. PublishedIntact'
  <2>1. CASE linked
    BY <1>0, <1>7, <2>1 DEF PullSafe, PublishedIntact, AdoptionInOrder, File
  <2>2. CASE ~linked
    BY <1>0, <1>5, <2>2 DEF PullSafe, PublishedIntact, File, Added
  <2> QED
    BY <2>1, <2>2
<1>15. WriteInOrder'
  <2> SUFFICES ASSUME tx.phase = "write", ~Delivered
               PROVE  \/ staged' \o rest' = SubSeq(File, 1, Target)
                      \/ mixed' /\ Target < Len(staged') + Len(rest')
    <3>1. Target' = Target /\ tx' = tx
      BY <1>0 DEF Target, Streamed, File
    <3>2. SubSeq(File, 1, Target)' = SubSeq(File, 1, Target)
      BY <3>1 DEF File
    <3> QED
      BY <1>8, <3>1, <3>2 DEF WriteInOrder
  <2>1. staged \o rest = SubSeq(File, 1, Target) \/ (mixed /\ Target < Len(staged) + Len(rest))
    BY DEF PullSafe, WriteInOrder
  <2>2. /\ Len(staged) \in Nat /\ Len(staged') \in Nat /\ Len(rest) \in Nat /\ Target \in Nat
        /\ rest' = rest
    <3>1. Len(Streamed(tx.work.offset)) \in Nat /\ tx.work.offset \in Nat
      <4>1. Len(Streamed(tx.work.offset)) \in Nat
        BY <1>1, BlockFacts
      <4> QED
        BY <1>1, <4>1, SizesAssumption
    <3>2. staged' \in Seq(Units)
      BY <1>5 DEF Added
    <3> QED
      BY <1>0, <1>1, <3>1, <3>2, LenProperties DEF Target
  <2>3. CASE staged' = staged
    BY <1>5, <2>1, <2>2, <2>3 DEF Added
  <2>4. CASE staged' # staged
    <3>1. mixed' /\ Len(staged) < Len(staged')
      BY <1>5, <2>4 DEF Added
    <3>2. Target <= Len(staged) + Len(rest)
      <4>1. CASE staged \o rest = SubSeq(File, 1, Target)
        <5>1. Target <= Len(File) /\ File \in Seq(Units)
          BY <1>1, BlockFacts, FileFacts DEF Target
        <5>2. Len(SubSeq(File, 1, Target)) = Target
          BY <2>2, <5>1, FirstOf
        <5>3. Len(staged \o rest) = Len(staged) + Len(rest)
          BY <1>1, ConcatProperties
        <5> QED
          BY <2>2, <4>1, <5>2, <5>3
      <4>2. CASE Target < Len(staged) + Len(rest)
        BY <2>2, <4>2
      <4> QED
        BY <2>1, <4>1, <4>2
    <3>3. Target < Len(staged') + Len(rest')
      BY <2>2, <3>1, <3>2
    <3> QED
      BY <3>1, <3>3
  <2> QED
    BY <2>3, <2>4
<1> QED
  BY <1>6, <1>10, <1>11, <1>13, <1>14, <1>15 DEF PullSafe

\* Publishing the verified file, or leaving the object that is there.
LEMMA PublishKeeps ==
    ASSUME PullSafe, Publish \/ UNCHANGED <<published, linked>>,
           UNCHANGED <<staged, media>>
    PROVE  /\ published' \in Seq(Units) /\ linked' \in BOOLEAN
           /\ PublishedIntact' /\ (Delivered => Delivered') /\ (published # <<>> => published' # <<>>)
           /\ Publish => published' # <<>>
           /\ linked' => published' # <<>>
<1>1. published \in Seq(Units) /\ staged \in Seq(Units) /\ linked \in BOOLEAN
  BY Typed DEF PullSafe, TypeOK
<1>2. File \in Seq(Units) /\ File # <<>> /\ Len(File) = Size
  BY FileFacts
<1>3. IsPrefix(File, File)
  <2>1. Staged(Size, File)
    BY FileFacts, SizesAssumption DEF Staged, Units
  <2> QED
    BY <1>2, <2>1, PrefixIsStaged
<1>4. CASE Publish /\ published = <<>>
  <2>1. published' = File /\ linked' \in BOOLEAN
    BY <1>4 DEF Publish, Verified
  <2> QED
    BY <1>1, <1>2, <1>3, <1>4, <2>1 DEF PullSafe, PublishedIntact, AdoptionInOrder, Delivered, File
<1>5. CASE UNCHANGED <<published, linked>>
  <2>1. PublishedIntact' /\ (Delivered => Delivered') /\ (linked' => published' # <<>>)
    BY <1>5 DEF PullSafe, PublishedIntact, Delivered, File, AdoptionInOrder
  <2>2. Publish => published' # <<>>
    BY <1>2, <1>5 DEF Publish, Verified
  <2> QED
    BY <1>1, <1>5, <2>1, <2>2
<1>6. CASE Publish /\ published # <<>>
  <2>1. UNCHANGED <<published, linked>>
    BY <1>6 DEF Publish
  <2> QED
    BY <1>5, <2>1
<1> QED
  BY <1>4, <1>5, <1>6

LEMMA CommitKeeps == ASSUME PullSafe, commit \/ CommitTimesOut PROVE PullSafe'
<1>0. /\ tx.phase = "commit" /\ (Publish \/ UNCHANGED <<published, linked>>)
      /\ faults' = faults \/ Fault
      /\ \E q \in {"adopt", "fail"} : /\ tx' = [tx EXCEPT !.phase = q]
                                      /\ q = "adopt" => Publish
      /\ UNCHANGED <<job, sess, keys, outbox, staged, rest, late, mixed, media, central>>
  BY DEF commit, CommitTimesOut, Raise, site
<1>1. PICK q \in {"adopt", "fail"} : tx' = [tx EXCEPT !.phase = q] /\ (q = "adopt" => Publish)
  BY <1>0
<1>2. /\ published' \in Seq(Units) /\ linked' \in BOOLEAN
      /\ PublishedIntact' /\ (Delivered => Delivered') /\ (published # <<>> => published' # <<>>)
      /\ Publish => published' # <<>>
      /\ linked' => published' # <<>>
  BY <1>0, PublishKeeps
<1>3. tx' \in [phase: Phases, work: Sessions] /\ tx'.phase = q /\ tx'.work = tx.work
  BY <1>1 DEF PullSafe, TypeOK, Phases
<1>4. faults' \in 0..MaxFaults
  BY <1>0, FaultTyped DEF PullSafe, TypeOK
<1>5. TypeOK'
  BY <1>0, <1>2, <1>3, <1>4 DEF PullSafe, TypeOK, Units
<1>6. \A n \in 0..Size : Durable(n) => Durable(n)'
  BY <1>0, <1>2 DEF Durable, OnDisk, Overrun, File
<1>7. ReportsHonest' /\ ConfirmedIsDurable' /\ (~sess'.allocated => sess'.offset = 0)
  BY <1>0, <1>2, <1>5, <1>6, RowKept
<1>8. AttemptDurable'
  <2>1. /\ sess.offset <= tx.work.offset /\ Durable(tx.work.offset) /\ tx.work.offset \in 0..Size
        /\ ~tx.work.allocated => tx.work.offset = 0
    <3>1. tx.phase # "idle" /\ TypeOK /\ AttemptDurable
      BY <1>0 DEF PullSafe
    <3> QED
      BY <3>1, Typed DEF AttemptDurable
  <2>2. Durable(tx.work.offset)'
    BY <1>3, <1>6, <2>1 DEF Durable, OnDisk, Overrun
  <2>3. tx'.phase \notin {"fetch", "append", "write"}
    BY <1>3
  <2> QED
    BY <1>0, <1>3, <1>7, <2>1, <2>2, <2>3 DEF AttemptDurable
<1>9. AdoptionInOrder' /\ WriteInOrder'
  BY <1>0, <1>1, <1>2, <1>3 DEF PullSafe, AdoptionInOrder, WriteInOrder
<1> QED
  BY <1>2, <1>5, <1>7, <1>8, <1>9 DEF PullSafe

-----------------------------------------------------------------------------
(* The adoption *)

\* The media row moves forward and the attempt with it.
LEMMA AdoptKeeps ==
    ASSUME PullSafe,
           _find_retry \/ _create_staging_record \/ _record_finalizing \/ _mark_available_and_enqueue
    PROVE  PullSafe'
<1>0. /\ tx.phase \in {"adopt", "record", "finalize", "available"}
      /\ UNCHANGED <<job, sess, keys, outbox, staged, rest, late, mixed, published, linked, central, faults>>
  BY DEF _find_retry, _create_staging_record, _record_finalizing, _mark_available_and_enqueue, site,
         storage
<1>1. /\ tx \in [phase: Phases, work: Sessions] /\ tx.work \in Sessions
      /\ media \in {"NONE", "STAGING", "FINALIZING", "AVAILABLE"} /\ published # <<>>
      /\ tx.work.offset \in 0..Size
  BY <1>0, Typed DEF PullSafe, TypeOK, AdoptionInOrder
<1>2. /\ tx' \in [phase: Phases, work: Sessions]
      /\ tx'.work.offset = tx.work.offset /\ tx'.work.allocated = tx.work.allocated
      /\ media' \in {"NONE", "STAGING", "FINALIZING", "AVAILABLE"}
      /\ media = "AVAILABLE" => media' = "AVAILABLE"
      /\ tx'.phase \in {"record", "finalize", "available", "release", "fail"}
      /\ tx'.phase = "record" => media' = "NONE"
      /\ tx'.phase = "finalize" => media' = "STAGING"
      /\ tx'.phase = "release" => media' = "AVAILABLE"
  <2>1. CASE _find_retry
    <3>1. /\ media' = media
          /\ tx'.phase = CASE media = "NONE" -> "record"
                           [] media = "AVAILABLE" -> "release"
                           [] OTHER -> "fail"
          /\ tx'.work = [[tx.work EXCEPT !.media = (media = "AVAILABLE")] EXCEPT
                            !.state = IF media = "AVAILABLE" THEN "COMPLETED" ELSE @]
          /\ tx' = [phase |-> tx'.phase, work |-> tx'.work]
      BY <1>1, <2>1 DEF _find_retry
    <3>2. /\ tx'.work \in Sessions /\ tx'.work.offset = tx.work.offset
          /\ tx'.work.allocated = tx.work.allocated
      <4>1. (media = "AVAILABLE") \in BOOLEAN
        OBVIOUS
      <4> QED
        BY <1>1, <3>1, <4>1 DEF Sessions, States
    <3> QED
      BY <1>1, <3>1, <3>2 DEF Phases
  <2>2. CASE _create_staging_record
    <3>1. media = "NONE" /\ media' = "STAGING" /\ tx' = [tx EXCEPT !.phase = "finalize"]
      BY <2>2 DEF _create_staging_record, PullSafe, AdoptionInOrder
    <3> QED
      BY <1>1, <3>1 DEF Phases
  <2>3. CASE _record_finalizing
    <3>1. media = "STAGING" /\ media' = "FINALIZING" /\ tx' = [tx EXCEPT !.phase = "available"]
      BY <2>3 DEF _record_finalizing, PullSafe, AdoptionInOrder
    <3> QED
      BY <1>1, <3>1 DEF Phases
  <2>4. CASE _mark_available_and_enqueue
    <3>1. /\ media' = "AVAILABLE"
          /\ tx' = [phase |-> "release",
                    work |-> [tx.work EXCEPT !.media = TRUE, !.state = "COMPLETED"]]
      BY <2>4 DEF _mark_available_and_enqueue
    <3>2. /\ tx'.work \in Sessions /\ tx'.work.offset = tx.work.offset
          /\ tx'.work.allocated = tx.work.allocated
      BY <1>1, <3>1 DEF Sessions, States
    <3> QED
      BY <1>1, <3>1, <3>2 DEF Phases
  <2> QED
    BY <2>1, <2>2, <2>3, <2>4
<1>3. TypeOK'
  BY <1>0, <1>2 DEF PullSafe, TypeOK
<1>4. (Delivered => Delivered') /\ \A n \in 0..Size : Durable(n) => Durable(n)'
  BY <1>0, <1>2, BytesStay
<1>5. ReportsHonest' /\ ConfirmedIsDurable' /\ (~sess'.allocated => sess'.offset = 0)
  BY <1>0, <1>3, <1>4, RowKept
<1>6. AttemptDurable'
  <2>1. /\ sess.offset <= tx.work.offset /\ Durable(tx.work.offset)
        /\ ~tx.work.allocated => tx.work.offset = 0
    BY <1>0 DEF PullSafe, AttemptDurable
  <2>2. Durable(tx.work.offset)'
    BY <1>1, <1>2, <1>4, <2>1 DEF Durable, OnDisk, Overrun
  <2>3. tx'.phase \notin {"fetch", "append", "write"}
    BY <1>2
  <2> QED
    BY <1>0, <1>2, <1>5, <2>1, <2>2, <2>3 DEF AttemptDurable
<1>7. AdoptionInOrder' /\ PublishedIntact' /\ WriteInOrder'
  BY <1>0, <1>1, <1>2 DEF PullSafe, AdoptionInOrder, PublishedIntact, WriteInOrder, File
<1> QED
  BY <1>3, <1>5, <1>6, <1>7 DEF PullSafe

LEMMA AdoptFailsKeeps == ASSUME PullSafe, AdoptFails PROVE PullSafe'
<1>1. /\ tx.phase # "idle" /\ Fault /\ tx' = [tx EXCEPT !.phase = "fail"]
      /\ UNCHANGED <<job, sess, keys, outbox, staged, rest, late, mixed, published, linked, media, central>>
  BY DEF AdoptFails, Raise, site, storage
<1>2. "fail" \in Plain
  BY DEF Plain
<1> QED
  BY <1>1, <1>2, PlainControl

\* The staged file goes only when the object is published and its row available.
LEMMA ReleaseKeeps == ASSUME PullSafe, release_staging PROVE PullSafe'
<1>0. /\ tx.phase = "release" /\ staged' \in {staged, <<>>} /\ late' \in {late, <<>>}
      /\ faults' = faults \/ Fault
      /\ \E q \in {"report", "fail"} : tx' = [tx EXCEPT !.phase = q]
      /\ UNCHANGED <<job, sess, keys, outbox, rest, mixed, published, linked, media, central>>
  BY DEF release_staging, Raise, site
<1>1. PICK q \in {"report", "fail"} : tx' = [tx EXCEPT !.phase = q]
  BY <1>0
<1>2. tx' \in [phase: Phases, work: Sessions] /\ tx'.phase = q /\ tx'.work = tx.work
  BY <1>1 DEF PullSafe, TypeOK, Phases
<1>3. staged' \in Seq(Units) /\ late' \in Seq(Seq(Units)) /\ faults' \in 0..MaxFaults
  <2>1. /\ staged \in Seq(Units) /\ late \in Seq(Seq(Units)) /\ <<>> \in Seq(Units)
        /\ <<>> \in Seq(Seq(Units))
    BY Typed, EmptySeq DEF PullSafe
  <2>2. faults' \in 0..MaxFaults
    BY <1>0, FaultTyped DEF PullSafe, TypeOK
  <2> QED
    BY <1>0, <2>1, <2>2
<1>4. TypeOK'
  BY <1>0, <1>2, <1>3 DEF PullSafe, TypeOK, Units
<1>5. Delivered /\ Delivered'
  <2>1. Delivered
    BY <1>0 DEF PullSafe, AdoptionInOrder, PublishedIntact, Delivered
  <2> QED
    BY <1>0, <2>1 DEF Delivered, File
<1>6. \A n \in 0..Size : Durable(n)'
  BY <1>5 DEF Durable, OnDisk
<1>7. ReportsHonest' /\ ConfirmedIsDurable' /\ (~sess'.allocated => sess'.offset = 0)
  BY <1>0, <1>4, <1>5, <1>6, RowKept
<1>8. AttemptDurable'
  <2>1. sess.offset <= tx.work.offset /\ (~tx.work.allocated => tx.work.offset = 0)
    BY <1>0 DEF PullSafe, AttemptDurable
  <2>2. Durable(tx.work.offset)'
    BY <1>5 DEF Durable, OnDisk
  <2>3. tx'.phase \notin {"fetch", "append", "write"}
    BY <1>2
  <2> QED
    BY <1>0, <1>2, <1>7, <2>1, <2>2, <2>3 DEF AttemptDurable
<1>9. AdoptionInOrder' /\ PublishedIntact' /\ WriteInOrder'
  BY <1>0, <1>2 DEF PullSafe, AdoptionInOrder, PublishedIntact, WriteInOrder, File
<1> QED
  BY <1>4, <1>7, <1>8, <1>9 DEF PullSafe

-----------------------------------------------------------------------------
(* Central *)

LEMMA ApplyProgressKeeps == ASSUME PullSafe, ApplyProgress PROVE PullSafe'
<1>0. /\ outbox # <<>> /\ outbox' = Tail(outbox)
      /\ UNCHANGED <<job, sess, keys, tx, staged, rest, late, mixed, published, linked, media, faults>>
      /\ \/ central' = central
         \/ LET p == Head(outbox) IN
            central' = [offset |-> p.offset, state |-> p.state, ready |-> p.ready,
                        status |-> IF Ready(p) THEN "SUCCEEDED" ELSE central.status,
                        import |-> IF Ready(p) THEN "SITE_READY" ELSE "TRANSFERRING"]
  BY DEF ApplyProgress, site, storage
<1>1. /\ outbox \in Seq(Rows) /\ Head(outbox) \in Rows /\ Tail(outbox) \in Seq(Rows)
      /\ Len(Tail(outbox)) = Len(outbox) - 1 /\ Len(outbox) \in Nat
      /\ \A i \in 1..Len(Tail(outbox)) : Tail(outbox)[i] = outbox[i + 1]
      /\ Head(outbox) = outbox[1] /\ Len(outbox) # 0
  <2>1. outbox \in Seq(Rows)
    BY Typed DEF PullSafe
  <2> QED
    BY <1>0, <2>1, HeadTailProperties, EmptySeq, LenProperties
<1>2. \A i \in 1..Len(outbox) : Honest(outbox[i])
  BY HonestEach DEF PullSafe
<1>3. Honest(Head(outbox))
  BY <1>1, <1>2
<1>4. central' \in [offset: 0..Size, state: States, ready: BOOLEAN,
                    status: {"PENDING", "SUCCEEDED"},
                    import: {"TRANSFER_QUEUED", "TRANSFERRING", "SITE_READY"}]
  BY <1>0, <1>1 DEF PullSafe, TypeOK, Rows
<1>5. TypeOK'
  BY <1>0, <1>1, <1>4 DEF PullSafe, TypeOK, Rows
<1>6. (Delivered <=> Delivered') /\ \A n \in 0..Size : Durable(n) <=> Durable(n)'
  BY <1>0 DEF Delivered, Durable, OnDisk, Overrun, File
<1>7. ReportsHonest'
  <2>1. Honest(central)
    BY HonestEach DEF PullSafe
  <2>2. Honest(central)'
    BY <1>0, <1>3, <1>6, <2>1 DEF Honest
  <2>3. \A i \in 1..Len(outbox') : outbox'[i].offset <= sess'.offset /\ (outbox'[i].ready => Delivered')
    <3>1. \A i \in 1..Len(outbox') : i + 1 \in 1..Len(outbox) /\ outbox'[i] = outbox[i + 1]
      BY <1>0, <1>1
    <3> QED
      BY <1>0, <1>2, <1>6, <3>1 DEF Honest
  <2> QED
    BY <2>2, <2>3 DEF ReportsHonest, Honest
<1>8. AttemptDurable' /\ ConfirmedIsDurable' /\ AdoptionInOrder' /\ PublishedIntact' /\ WriteInOrder'
  BY <1>0 DEF PullSafe, AttemptDurable, ConfirmedIsDurable, AdoptionInOrder, PublishedIntact, Durable,
              WriteInOrder, Target, Streamed, OnDisk, Overrun, Delivered, File
<1> QED
  BY <1>5, <1>7, <1>8 DEF PullSafe

-----------------------------------------------------------------------------
(* The theorem *)

LEMMA PullInitHolds == Init => PullSafe
<1> SUFFICES ASSUME Init PROVE PullSafe
  OBVIOUS
<1>1. 0 \in 0..Size /\ 0 \in 0..MaxFaults /\ <<>> \in Seq(Units) /\ Len(<<>>) = 0
  BY SizesAssumption, BoundsAssumption, EmptySeq
<1>2. sess \in Sessions /\ sess.offset = 0 /\ tx.phase = "idle"
  BY <1>1 DEF Init, Sessions, States
<1>3. TypeOK
  <2>1. tx \in [phase: Phases, work: Sessions]
    BY <1>2 DEF Init, Phases
  <2>2. outbox \in Seq(Rows)
    BY EmptySeq DEF Init
  <2>3. central \in [offset: 0..Size, state: States, ready: BOOLEAN,
                      status: {"PENDING", "SUCCEEDED"},
                      import: {"TRANSFER_QUEUED", "TRANSFERRING", "SITE_READY"}]
    BY <1>1 DEF Init, States
  <2> QED
    BY <1>1, <1>2, <2>1, <2>2, <2>3, EmptySeq DEF Init, TypeOK, Units, Rows
<1>4. ReportsHonest
  <2>1. \A i \in 1..Len(outbox) : FALSE
    BY <1>1 DEF Init
  <2> QED
    BY <1>2, <2>1 DEF Init, ReportsHonest
<1>5. ConfirmedIsDurable
  <2>1. Staged(0, <<>>)
    BY <1>1 DEF Staged
  <2>2. 0 <= Len(<<>>) /\ SubSeq(<<>>, 1, 0) = SubSeq(File, 1, 0)
    BY <1>1, <2>1, BeginsIsStaged
  <2> QED
    BY <1>2, <2>2 DEF Init, ConfirmedIsDurable, Durable, OnDisk
<1>6. AttemptDurable /\ AdoptionInOrder /\ PublishedIntact /\ WriteInOrder
  BY <1>2 DEF Init, AttemptDurable, AdoptionInOrder, PublishedIntact, WriteInOrder
<1> QED
  BY <1>3, <1>4, <1>5, <1>6 DEF PullSafe

LEMMA PullStepKeeps == PullSafe /\ [Next]_vars => PullSafe'
<1> SUFFICES ASSUME PullSafe, [Next]_vars PROVE PullSafe'
  OBVIOUS
<1>1. CASE UNCHANGED vars
  <2>1. UNCHANGED <<job, sess, keys, outbox, tx, staged, rest, late, mixed, published, linked, media, central, faults>>
    BY <1>1 DEF vars
  <2>2. TypeOK'
    BY <2>1 DEF PullSafe, TypeOK
  <2> QED
    BY <2>1, <2>2 DEF PullSafe, AttemptDurable, ConfirmedIsDurable, AdoptionInOrder, PublishedIntact,
                     ReportsHonest, WriteInOrder, Target, Streamed, Durable, OnDisk, Overrun,
                     Delivered, File
<1>2. CASE Worker
  BY <1>2, ClaimKeeps, AllocateKeeps, FetchKeeps, AppendStagingKeeps, WriteChunkKeeps, CommitKeeps, AdoptKeeps,
     ReleaseKeeps, SettleKeeps, RollbackKeeps DEF Worker, Pull, Adopt, Settled
<1>3. CASE Environment
  BY <1>3, RollbackKeeps, AppendTimesOutKeeps, LateWriteKeeps, CommitKeeps, AdoptFailsKeeps
  DEF Environment
<1> QED
  BY <1>1, <1>2, <1>3, ApplyProgressKeeps DEF Next, Quiet

\* However attempts, timeouts, late and partial writes, crashes, rolled back transactions
\* and repeated reports interleave: Central is told no offset beyond the session's and no
\* readiness of a file that is not delivered, no damaged file is published, and what a
\* session has confirmed is on disk (execute_central_pull, append_staging,
\* adopt_committed, apply_site_event).
THEOREM PullIsSafe == Spec => []PullSafe
BY PullInitHolds, PullStepKeeps, PTL DEF Spec

=============================================================================
