--------------------------- MODULE CentralMediaProofs ---------------------------
(***************************************************************************)
(* Proofs about Central's media: MediaPush, for every size of the file and *)
(* of the blocks and every bound on attempts, faults and retries, and      *)
(* MediaImport, for every set of files, requests, workers and              *)
(* presentations.                                                          *)
(***************************************************************************)
EXTENDS MediaPush, MediaImport, SequenceTheorems, TLAPS

Units == 1..PushSize

-----------------------------------------------------------------------------
(* The file and its blocks *)

\* The first n units of the file are what s begins with.
Staged(n, s) == n <= Len(s) /\ \A i \in 1..n : s[i] = i

LEMMA WholeFacts ==
    /\ Whole \in Seq(Units) /\ Len(Whole) = PushSize /\ Whole # <<>>
    /\ \A i \in Units : Whole[i] = i
<1>1. PushSize \in Nat \ {0}
  BY PushAssumption
<1>2. Whole \in [Units -> Units] /\ \A i \in Units : Whole[i] = i
  BY DEF Whole, Units
<1>3. Whole \in Seq(Units) /\ Len(Whole) = PushSize
  BY <1>1, <1>2 DEF Units
<1> QED
  BY <1>1, <1>2, <1>3

\* The first n units of the file.
LEMMA FirstUnits ==
    ASSUME NEW n \in 0..PushSize
    PROVE  /\ SubSeq(Whole, 1, n) \in Seq(Units) /\ Len(SubSeq(Whole, 1, n)) = n
           /\ \A i \in 1..n : SubSeq(Whole, 1, n)[i] = i
<1>1. PushSize \in Nat
  BY PushAssumption
<1>2. \A i \in 1..n : Whole[i] \in Units /\ Whole[i] = i
  BY <1>1, WholeFacts DEF Units
<1>3. /\ SubSeq(Whole, 1, n) \in Seq(Units)
      /\ Len(SubSeq(Whole, 1, n)) = IF 1 <= n THEN n - 1 + 1 ELSE 0
      /\ \A i \in 1..(n - 1 + 1) : SubSeq(Whole, 1, n)[i] = Whole[1 + i - 1]
  BY <1>1, <1>2, SubSeqProperties
<1> QED
  BY <1>1, <1>2, <1>3

\* The block storage is handed at an offset.
LEMMA BlockFacts ==
    ASSUME NEW o \in 0..PushSize
    PROVE  /\ BlockAt(o) \in Seq(Units)
           /\ Len(BlockAt(o)) \in Nat /\ o + Len(BlockAt(o)) <= PushSize
           /\ \A i \in 1..Len(BlockAt(o)) : BlockAt(o)[i] = o + i
<1> DEFINE last == IF o + PushBlock < PushSize THEN o + PushBlock ELSE PushSize
<1>1. /\ PushSize \in Nat /\ PushBlock \in Nat /\ last \in Nat /\ o <= last /\ last <= PushSize
      /\ o \in Nat
  BY PushAssumption
<1>2. BlockAt(o) = SubSeq(Whole, o + 1, last)
  BY DEF BlockAt
<1> HIDE DEF last
<1>3. \A i \in (o + 1)..last : Whole[i] \in Units /\ Whole[i] = i
  BY <1>1, WholeFacts DEF Units
<1>4. /\ SubSeq(Whole, o + 1, last) \in Seq(Units)
      /\ Len(SubSeq(Whole, o + 1, last)) = IF o + 1 <= last THEN last - (o + 1) + 1 ELSE 0
      /\ \A i \in 1..(last - (o + 1) + 1) : SubSeq(Whole, o + 1, last)[i] = Whole[(o + 1) + i - 1]
  BY <1>1, <1>3, SubSeqProperties
<1>5. Len(BlockAt(o)) = last - o
  BY <1>1, <1>2, <1>4
<1>6. ASSUME NEW i \in 1..Len(BlockAt(o)) PROVE BlockAt(o)[i] = o + i
  <2>1. i \in 1..(last - (o + 1) + 1) /\ (o + 1) + i - 1 = o + i /\ o + i \in (o + 1)..last
    BY <1>1, <1>5
  <2> QED
    BY <1>2, <1>3, <1>4, <2>1
<1>7. Len(BlockAt(o)) \in Nat /\ o + Len(BlockAt(o)) <= PushSize
  BY <1>1, <1>5
<1> QED
  BY <1>2, <1>4, <1>6, <1>7

\* Being a prefix, unit by unit.
LEMMA PrefixIsStaged ==
    ASSUME NEW n \in 0..PushSize, NEW s \in Seq(Units)
    PROVE  IsPrefix(SubSeq(Whole, 1, n), s) <=> Staged(n, s)
<1> DEFINE p == SubSeq(Whole, 1, n)
<1>1. p \in Seq(Units) /\ Len(p) = n /\ \A i \in 1..n : p[i] = i
  BY FirstUnits
<1>2. n \in Nat /\ Len(s) \in Nat /\ \A i \in 1..Len(s) : s[i] \in Units
  BY PushAssumption, LenProperties, ElementOfSeq
<1>3. SubSeq(p, 1, Len(p)) = p
  BY <1>1, SubSeqFull
<1> HIDE DEF p
<1>4. ASSUME n <= Len(s)
      PROVE  /\ SubSeq(s, 1, n) \in Seq(Units) /\ Len(SubSeq(s, 1, n)) = n
             /\ \A i \in 1..n : SubSeq(s, 1, n)[i] = s[i]
  <2>1. \A i \in 1..n : s[i] \in Units
    BY <1>2, <1>4
  <2>2. /\ SubSeq(s, 1, n) \in Seq(Units)
        /\ Len(SubSeq(s, 1, n)) = IF 1 <= n THEN n - 1 + 1 ELSE 0
        /\ \A i \in 1..(n - 1 + 1) : SubSeq(s, 1, n)[i] = s[1 + i - 1]
    BY <1>2, <2>1, SubSeqProperties
  <2> QED
    BY <1>2, <2>2
<1>5. ASSUME n <= Len(s), \A i \in 1..n : s[i] = i PROVE p = SubSeq(s, 1, n)
  BY <1>1, <1>4, <1>5, SeqEqual
<1>6. IsPrefix(p, s) <=> n <= Len(s) /\ p = SubSeq(s, 1, n)
  BY <1>1, <1>3 DEF IsPrefix
<1>7. IsPrefix(p, s) <=> Staged(n, s)
  BY <1>1, <1>4, <1>5, <1>6 DEF Staged
<1> QED
  BY <1>7 DEF p

\* What is staged stays so whatever is appended, and the next block extends it.
LEMMA StagedGrows ==
    ASSUME NEW s \in Seq(Units), NEW t \in Seq(Units), NEW n \in 0..PushSize, Staged(n, s)
    PROVE  s \o t \in Seq(Units) /\ Staged(n, s \o t) /\ Len(s \o t) = Len(s) + Len(t)
<1>1. /\ s \o t \in Seq(Units) /\ Len(s \o t) = Len(s) + Len(t)
      /\ \A i \in 1..(Len(s) + Len(t)) : (s \o t)[i] = IF i <= Len(s) THEN s[i] ELSE t[i - Len(s)]
  BY ConcatProperties
<1>2. Len(s) \in Nat /\ Len(t) \in Nat /\ n \in Nat
  BY PushAssumption, LenProperties
<1> QED
  BY <1>1, <1>2 DEF Staged

LEMMA BlockStages ==
    ASSUME NEW s \in Seq(Units), NEW o \in 0..PushSize, Len(s) = o, Staged(o, s)
    PROVE  /\ s \o BlockAt(o) \in Seq(Units)
           /\ Staged(ConfirmedBy(o), s \o BlockAt(o))
           /\ ConfirmedBy(o) \in 0..PushSize /\ o <= ConfirmedBy(o)
<1> DEFINE b == BlockAt(o)
<1>1. b \in Seq(Units) /\ Len(b) \in Nat /\ o + Len(b) <= PushSize /\ \A i \in 1..Len(b) : b[i] = o + i
  BY BlockFacts
<1>2. ConfirmedBy(o) = o + Len(b)
  BY DEF ConfirmedBy
<1> HIDE DEF b
<1>3. /\ s \o b \in Seq(Units) /\ Len(s \o b) = o + Len(b)
      /\ \A i \in 1..(o + Len(b)) : (s \o b)[i] = IF i <= o THEN s[i] ELSE b[i - o]
  BY <1>1, ConcatProperties
<1>4. o \in Nat /\ PushSize \in Nat
  BY PushAssumption
<1>5. ASSUME NEW i \in 1..(o + Len(b)) PROVE (s \o b)[i] = i
  <2>1. CASE i <= o
    BY <1>1, <1>3, <1>4, <2>1 DEF Staged
  <2>2. CASE ~(i <= o)
    <3>1. i - o \in 1..Len(b) /\ o + (i - o) = i
      BY <1>1, <1>4, <2>2
    <3> QED
      BY <1>1, <1>3, <2>2, <3>1
  <2> QED
    BY <2>1, <2>2
<1>6. Staged(o + Len(b), s \o b)
  BY <1>1, <1>3, <1>4, <1>5 DEF Staged
<1> QED
  BY <1>1, <1>2, <1>3, <1>4, <1>6 DEF b

-----------------------------------------------------------------------------
(* Appends in parts *)

\* The parts of a block.
LEMMA PartsOfBlock ==
    ASSUME NEW b \in Seq(Units), NEW n \in 0..Len(b)
    PROVE  /\ SubSeq(b, 1, n) \in Seq(Units) /\ SubSeq(b, n + 1, Len(b)) \in Seq(Units)
           /\ Len(SubSeq(b, 1, n)) = n
<1>1. Len(b) \in Nat /\ \A i \in 1..Len(b) : b[i] \in Units
  BY LenProperties, ElementOfSeq
<1>2. n \in Int /\ n + 1 \in Int /\ Len(b) \in Int /\ 1 \in Int
  BY <1>1
<1>3. (\A i \in 1..n : b[i] \in Units) /\ (\A i \in (n + 1)..Len(b) : b[i] \in Units)
  BY <1>1
<1>4. SubSeq(b, 1, n) \in Seq(Units) /\ SubSeq(b, n + 1, Len(b)) \in Seq(Units)
  BY <1>2, <1>3, SubSeqProperties
<1>5. Len(SubSeq(b, 1, n)) = IF 1 <= n THEN n - 1 + 1 ELSE 0
  BY <1>2, <1>3, SubSeqProperties
<1> QED
  BY <1>1, <1>4, <1>5

LEMMA AppendsAssociate ==
    ASSUME NEW x \in Seq(Units), NEW y \in Seq(Units), NEW z \in Seq(Units)
    PROVE  (x \o y) \o z = x \o (y \o z)
<1>1. Len(x) \in Nat /\ Len(y) \in Nat /\ Len(z) \in Nat
  BY LenProperties
<1>2. /\ x \o y \in Seq(Units) /\ Len(x \o y) = Len(x) + Len(y)
      /\ \A i \in 1..(Len(x) + Len(y)) : (x \o y)[i] = IF i <= Len(x) THEN x[i] ELSE y[i - Len(x)]
  BY ConcatProperties
<1>3. /\ y \o z \in Seq(Units) /\ Len(y \o z) = Len(y) + Len(z)
      /\ \A i \in 1..(Len(y) + Len(z)) : (y \o z)[i] = IF i <= Len(y) THEN y[i] ELSE z[i - Len(y)]
  BY ConcatProperties
<1> DEFINE xy == x \o y
           yz == y \o z
<1> HIDE DEF xy, yz
<1>4. /\ xy \o z \in Seq(Units) /\ Len(xy \o z) = Len(xy) + Len(z)
      /\ \A i \in 1..(Len(xy) + Len(z)) : (xy \o z)[i] = IF i <= Len(xy) THEN xy[i] ELSE z[i - Len(xy)]
  BY <1>2, ConcatProperties DEF xy
<1>5. /\ x \o yz \in Seq(Units) /\ Len(x \o yz) = Len(x) + Len(yz)
      /\ \A i \in 1..(Len(x) + Len(yz)) : (x \o yz)[i] = IF i <= Len(x) THEN x[i] ELSE yz[i - Len(x)]
  BY <1>3, ConcatProperties DEF yz
<1>6. /\ Len(xy) = Len(x) + Len(y)
      /\ \A i \in 1..(Len(x) + Len(y)) : xy[i] = IF i <= Len(x) THEN x[i] ELSE y[i - Len(x)]
      /\ Len(yz) = Len(y) + Len(z)
      /\ \A i \in 1..(Len(y) + Len(z)) : yz[i] = IF i <= Len(y) THEN y[i] ELSE z[i - Len(y)]
  BY <1>2, <1>3 DEF xy, yz
<1>7. Len(xy \o z) = Len(x \o yz)
  BY <1>1, <1>4, <1>5, <1>6
<1> DEFINE l == xy \o z
           r == x \o yz
<1>8. ASSUME NEW i \in 1..Len(l) PROVE l[i] = r[i]
  <2>1. i \in 1..(Len(xy) + Len(z)) /\ i \in 1..(Len(x) + Len(yz))
    BY <1>1, <1>4, <1>5, <1>6, <1>8
  <2>2. /\ l[i] = IF i <= Len(xy) THEN xy[i] ELSE z[i - Len(xy)]
        /\ r[i] = IF i <= Len(x) THEN x[i] ELSE yz[i - Len(x)]
    BY <1>4, <1>5, <2>1
  <2> HIDE DEF l, r
  <2>3. CASE i <= Len(x)
    BY <1>1, <1>6, <2>1, <2>2, <2>3
  <2>4. CASE Len(x) < i /\ i <= Len(x) + Len(y)
    <3>1. i - Len(x) \in 1..(Len(y) + Len(z)) /\ i - Len(x) <= Len(y) /\ i \in 1..(Len(x) + Len(y))
          /\ ~(i <= Len(x)) /\ i <= Len(xy)
      BY <1>1, <1>6, <2>1, <2>4
    <3> QED
      BY <1>6, <2>2, <3>1
  <2>5. CASE Len(x) + Len(y) < i
    <3>1. i - Len(x) \in 1..(Len(y) + Len(z)) /\ ~(i - Len(x) <= Len(y)) /\ ~(i <= Len(x))
          /\ ~(i <= Len(xy)) /\ (i - Len(x)) - Len(y) = i - Len(xy)
      BY <1>1, <1>6, <2>1, <2>5
    <3> QED
      BY <1>6, <2>2, <3>1
  <2> QED
    BY <1>1, <2>1, <2>3, <2>4, <2>5
<1>9. l = r
  <2>1. l \in Seq(Units) /\ r \in Seq(Units) /\ Len(l) = Len(r)
    BY <1>4, <1>5, <1>7
  <2> HIDE DEF l, r
  <2> QED
    BY <1>8, <2>1, SeqEqual
<1> QED
  BY <1>9 DEF xy, yz

\* Splitting what is still to be written moves it behind what is staged.
LEMMA SplitRest ==
    ASSUME NEW s \in Seq(Units), NEW t \in Seq(Units), NEW n \in 1..Len(t)
    PROVE  /\ SubSeq(t, 1, n) \in Seq(Units) /\ SubSeq(t, n + 1, Len(t)) \in Seq(Units)
           /\ (s \o SubSeq(t, 1, n)) \o SubSeq(t, n + 1, Len(t)) = s \o t
           /\ Len(SubSeq(t, 1, n)) + Len(SubSeq(t, n + 1, Len(t))) = Len(t)
           /\ n = Len(t) => SubSeq(t, 1, n) = t
           /\ Len(SubSeq(t, 1, n)) \in Nat \ {0}
<1>1. Len(t) \in Nat /\ n \in 0..Len(t) /\ n \in Nat \ {0}
  BY LenProperties
<1>2. SubSeq(t, 1, n) \in Seq(Units) /\ SubSeq(t, n + 1, Len(t)) \in Seq(Units)
  BY <1>1, PartsOfBlock
<1>3. SubSeq(t, 1, n) \o SubSeq(t, n + 1, Len(t)) = SubSeq(t, 1, Len(t)) /\ SubSeq(t, 1, Len(t)) = t
  <2>1. 1 \in 1..(Len(t) + 1) /\ n \in (1 - 1)..Len(t) /\ Len(t) \in n..Len(t)
    BY <1>1
  <2> QED
    BY <2>1, ConcatAdjacentSubSeq, SubSeqFull
<1>4. (s \o SubSeq(t, 1, n)) \o SubSeq(t, n + 1, Len(t)) = s \o t
  <2> DEFINE a == SubSeq(t, 1, n)
             b == SubSeq(t, n + 1, Len(t))
  <2>1. a \in Seq(Units) /\ b \in Seq(Units) /\ a \o b = t
    BY <1>2, <1>3
  <2> HIDE DEF a, b
  <2>2. (s \o a) \o b = s \o (a \o b)
    BY <2>1, AppendsAssociate
  <2>3. (s \o a) \o b = s \o t
    BY <2>1, <2>2
  <2> QED
    BY <2>3 DEF a, b
<1>5. Len(SubSeq(t, 1, n)) = n
  BY <1>1, PartsOfBlock
<1>6. Len(SubSeq(t, 1, n)) + Len(SubSeq(t, n + 1, Len(t))) = Len(t)
  <2> DEFINE a == SubSeq(t, 1, n)
             b == SubSeq(t, n + 1, Len(t))
  <2>1. a \in Seq(Units) /\ b \in Seq(Units) /\ a \o b = t
    BY <1>2, <1>3
  <2> HIDE DEF a, b
  <2>2. Len(a \o b) = Len(a) + Len(b)
    BY <2>1, ConcatProperties
  <2>3. Len(a) + Len(b) = Len(t)
    BY <2>1, <2>2
  <2> QED
    BY <2>3 DEF a, b
<1> QED
  BY <1>1, <1>2, <1>3, <1>4, <1>5, <1>6

\* What an abandoned append has left after it wrote, and the list without it.
LEMMA LateTyped ==
    ASSUME NEW l \in Seq(Seq(Units)), NEW i \in DOMAIN l
    PROVE  /\ l[i] \in Seq(Units) /\ RemoveAt(l, i) \in Seq(Seq(Units))
           /\ \A n \in 1..Len(l[i]) :
                 [l EXCEPT ![i] = SubSeq(l[i], n + 1, Len(l[i]))] \in Seq(Seq(Units))
<1>1. Len(l) \in Nat /\ i \in 1..Len(l) /\ \A j \in 1..Len(l) : l[j] \in Seq(Units)
  BY LenProperties, ElementOfSeq
<1>2. SubSeq(l, 1, i - 1) \in Seq(Seq(Units)) /\ SubSeq(l, i + 1, Len(l)) \in Seq(Seq(Units))
  <2>1. /\ 1 \in Int /\ i - 1 \in Int /\ i + 1 \in Int /\ Len(l) \in Int
        /\ \A j \in 1..(i - 1) : l[j] \in Seq(Units)
        /\ \A j \in (i + 1)..Len(l) : l[j] \in Seq(Units)
    BY <1>1
  <2> QED
    BY <2>1, SubSeqProperties
<1>3. RemoveAt(l, i) \in Seq(Seq(Units))
  BY <1>2, ConcatProperties DEF RemoveAt
<1>4. ASSUME NEW n \in 1..Len(l[i])
      PROVE  [l EXCEPT ![i] = SubSeq(l[i], n + 1, Len(l[i]))] \in Seq(Seq(Units))
  <2>1. SubSeq(l[i], n + 1, Len(l[i])) \in Seq(Units)
    BY <1>1, <1>4, SplitRest
  <2> QED
    BY <1>1, <2>1, ExceptSeq
<1> QED
  BY <1>1, <1>3, <1>4

-----------------------------------------------------------------------------
(* The invariant, and what leaves its parts alone *)

PushInv ==
    /\ PushTypeOK
    /\ RowsAreMade /\ CallKnowsRow /\ BlockInOrder /\ AnswerBacked /\ WorkerFollows /\ DoneIsFinalized
    /\ ConfirmedIsStaged /\ ReplicaIntact

Attempts == [phase: {"idle", "create", "content", "finalize", "waiting", "done", "failed"},
             offset: 0..PushSize]
Handlers == [call: {"none", "create", "content", "finalize"}, awaited: BOOLEAN,
             step: {"idle", "storage", "writing", "answered"}, at: 0..PushSize, row: Receivers]
Contexts == [version: {"absent", "here", "deleted"}, deployment: BOOLEAN, manifest: BOOLEAN,
             taken: BOOLEAN]
Jobs == [status: {"PENDING", "RETRY_WAIT", "EXHAUSTED", "SUCCEEDED"}, attempts: Nat]
PushStates == {"QUEUED", "RETRY_WAIT", "FAILED", "SYNCED"}

LEMMA TypedRows ==
    ASSUME PushTypeOK
    PROVE  /\ receiver.confirmed \in 0..PushSize /\ handler.row.confirmed \in 0..PushSize
           /\ handler.at \in 0..PushSize /\ attempt.offset \in 0..PushSize
           /\ partial \in Seq(Units) /\ toWrite \in Seq(Units) /\ lateBlocks \in Seq(Seq(Units))
           /\ replica.units \in Seq(Units) /\ replica \in [units: Seq(Units), linked: BOOLEAN]
           /\ mingled \in BOOLEAN /\ receiver \in Receivers /\ handler.row \in Receivers
           /\ attempt \in Attempts /\ handler \in Handlers /\ authorized \in Contexts /\ pushJob \in Jobs
           /\ pushState \in PushStates
BY DEF PushTypeOK, Receivers, Units, Attempts, Handlers, Contexts, Jobs, PushStates

LEMMA NobodyTyped == NoReceiver \in Receivers /\ NoPushCall \in Handlers /\ NoPushCall.step = "idle"
<1>1. 0 \in 0..PushSize
  BY PushAssumption
<1>2. NoReceiver \in Receivers
  BY <1>1 DEF NoReceiver, Receivers
<1> QED
  BY <1>1, <1>2 DEF NoPushCall, Handlers

\* The parts of the type, for a step that names what it writes.
LEMMA TypeMade ==
    ASSUME pushJob' \in Jobs, pushState' \in PushStates, attempt' \in Attempts, receiver' \in Receivers,
           handler' \in Handlers, frozen' \in BOOLEAN, twin' \in BOOLEAN, mingled' \in BOOLEAN,
           hollow' \in BOOLEAN, partial' \in Seq(Units), toWrite' \in Seq(Units),
           lateBlocks' \in Seq(Seq(Units)), replica' \in [units: Seq(Units), linked: BOOLEAN],
           authorized' \in Contexts, pushFaults' \in 0..MaxPushFaults,
           pushRetries' \in 0..MaxPushRetries
    PROVE  PushTypeOK'
BY DEF PushTypeOK, Units, Attempts, Handlers, Contexts, Jobs, PushStates

\* The staged file holds the first n units.
LEMMA HeldIs ==
    ASSUME PushTypeOK, NEW n \in 0..PushSize
    PROVE  Held(n) <=> Staged(n, partial) \/ (mingled /\ n < Len(partial))
BY TypedRows, PrefixIsStaged DEF Held

LEMMA HeldLength == ASSUME PushTypeOK, NEW n \in 0..PushSize, Held(n) PROVE n <= Len(partial)
<1>1. n \in Nat /\ Len(partial) \in Nat
  BY TypedRows, PushAssumption, LenProperties
<1> QED
  BY <1>1, HeldIs DEF Staged

\* As long as Central's tables and the staged file stay, what is confirmed, answered and
\* published is backed.
LEMMA TablesKept ==
    ASSUME PushInv, UNCHANGED <<receiver, partial, toWrite, mingled, replica>>,
           \/ handler' = handler
           \/ handler' = [handler EXCEPT !.awaited = FALSE]
           \/ handler'.step \notin {"answered", "writing"}
    PROVE  RowsAreMade' /\ BlockInOrder' /\ AnswerBacked' /\ ConfirmedIsStaged' /\ ReplicaIntact'
<1>1. ConfirmedIsStaged' /\ ReplicaIntact'
  BY DEF PushInv, ConfirmedIsStaged, ReplicaIntact, Held, Whole
<1>2. ASSUME handler'.step = handler.step, handler'.row = handler.row, handler'.call = handler.call,
             handler'.at = handler.at
      PROVE  RowsAreMade' /\ BlockInOrder' /\ AnswerBacked'
  <2>1. AnswerBacked'
    BY <1>2 DEF PushInv, AnswerBacked, Held, Whole
  <2>2. BlockInOrder'
    BY <1>2 DEF PushInv, BlockInOrder, ConfirmedBy, BlockAt, Whole
  <2>3. RowsAreMade'
    BY <1>2 DEF PushInv, RowsAreMade
  <2> QED
    BY <2>1, <2>2, <2>3
<1>3. CASE handler' = handler
  BY <1>1, <1>2, <1>3
<1>4. CASE handler' = [handler EXCEPT !.awaited = FALSE]
  <2>1. /\ handler'.step = handler.step /\ handler'.row = handler.row /\ handler'.call = handler.call
        /\ handler'.at = handler.at
    BY <1>4, TypedRows DEF PushInv, Handlers
  <2> QED
    BY <1>1, <1>2, <2>1
<1>5. CASE handler'.step \notin {"answered", "writing"}
  BY <1>1, <1>5 DEF PushInv, AnswerBacked, BlockInOrder, RowsAreMade
<1> QED
  BY <1>3, <1>4, <1>5

-----------------------------------------------------------------------------
(* The worker *)

LEMMA WorkerKeeps ==
    ASSUME PushInv,
           \/ ClaimPush \/ CompletePush \/ FailPush \/ retry_replication \/ CallFreezes
           \/ CallTooEarly \/ ContextChanges
    PROVE  PushInv'
<1>1. UNCHANGED <<receiver, handler, twin, partial, toWrite, lateBlocks, mingled, replica, hollow, pushFaults>>
  BY DEF ClaimPush, CompletePush, FailPush, SettlePush, retry_replication, CallFreezes, CallTooEarly,
         ContextChanges, staging
<1>2. /\ attempt' = attempt \/ \E q \in {"idle", "create", "failed"} : attempt' = [attempt EXCEPT !.phase = q]
      /\ pushJob' \in Jobs /\ pushState' \in PushStates /\ authorized' \in Contexts
      /\ frozen' \in BOOLEAN /\ pushRetries' \in 0..MaxPushRetries
  <2>1. /\ attempt' = attempt \/ \E q \in {"idle", "create", "failed"} : attempt' = [attempt EXCEPT !.phase = q]
        /\ pushState' \in PushStates
        /\ frozen' \in BOOLEAN
    BY DEF ClaimPush, CompletePush, FailPush, SettlePush, retry_replication, CallFreezes, CallTooEarly,
           ContextChanges, PushInv, PushTypeOK, PushStates
  <2>2. pushRetries' \in 0..MaxPushRetries
    BY PushAssumption DEF ClaimPush, CompletePush, FailPush, SettlePush, retry_replication,
                          CallFreezes, CallTooEarly, ContextChanges, PushInv, PushTypeOK
  <2>3. pushJob' \in Jobs
    BY DEF ClaimPush, CompletePush, FailPush, SettlePush, retry_replication, CallFreezes, CallTooEarly,
           ContextChanges, PushInv, PushTypeOK, Jobs
  <2>4. authorized' \in Contexts
    <3>1. authorized \in Contexts
      BY TypedRows DEF PushInv
    <3>2. authorized' = authorized \/ ContextChanges
      BY DEF ClaimPush, CompletePush, FailPush, SettlePush, retry_replication, CallFreezes, CallTooEarly
    <3> QED
      BY <3>1, <3>2 DEF ContextChanges, Contexts
  <2> QED
    BY <2>1, <2>2, <2>3, <2>4
<1>3. /\ attempt' \in Attempts
      /\ attempt' = attempt \/ attempt'.phase \in {"idle", "create", "failed"}
  BY <1>2, TypedRows DEF PushInv, Attempts
<1>4. PushTypeOK'
  <2>1. /\ receiver' \in Receivers /\ handler' \in Handlers /\ partial' \in Seq(Units)
        /\ toWrite' \in Seq(Units) /\ lateBlocks' \in Seq(Seq(Units))
        /\ replica' \in [units: Seq(Units), linked: BOOLEAN] /\ mingled' \in BOOLEAN
    BY <1>1, TypedRows DEF PushInv
  <2>2. twin' \in BOOLEAN /\ hollow' \in BOOLEAN /\ pushFaults' \in 0..MaxPushFaults
    BY <1>1 DEF PushInv, PushTypeOK
  <2> QED
    BY <1>2, <1>3, <2>1, <2>2, TypeMade
<1>5. attempt.phase = "waiting" => attempt' = attempt
  BY DEF ClaimPush, CompletePush, FailPush, retry_replication, CallFreezes, CallTooEarly, ContextChanges
<1>6. CallKnowsRow' /\ WorkerFollows'
  <2>1. CallKnowsRow'
    BY <1>1, <1>3, <1>5 DEF PushInv, CallKnowsRow, AlreadyMade
  <2>2. WorkerFollows'
    BY <1>1, <1>3, <1>5 DEF PushInv, WorkerFollows
  <2> QED
    BY <2>1, <2>2
<1>7. DoneIsFinalized'
  <2>1. CASE CompletePush
    <3>1. attempt.phase = "done" /\ pushState' = "SYNCED" /\ pushJob'.status = "SUCCEEDED"
          /\ attempt' = [attempt EXCEPT !.phase = "idle"] /\ authorized' = authorized
      BY <2>1 DEF CompletePush, SettlePush
    <3>2. attempt'.phase = "idle"
      BY <3>1, TypedRows DEF PushInv, Attempts
    <3> QED
      BY <1>1, <3>1, <3>2 DEF PushInv, DoneIsFinalized
  <2>2. CASE FailPush \/ retry_replication
    <3>1. pushState' # "SYNCED" /\ attempt'.phase # "done"
      BY <1>3, <2>2 DEF FailPush, retry_replication, SettlePush, PushInv, PushTypeOK
    <3> QED
      BY <3>1 DEF DoneIsFinalized
  <2>3. CASE ClaimPush \/ CallFreezes \/ CallTooEarly
    <3>1. pushState # "SYNCED" /\ pushState' = pushState
      BY <2>3 DEF ClaimPush, CallFreezes, CallTooEarly, PushInv, DoneIsFinalized
    <3>2. attempt' = [attempt EXCEPT !.phase = "create"] \/ attempt' = [attempt EXCEPT !.phase = "failed"]
      BY <2>3 DEF ClaimPush, CallFreezes, CallTooEarly
    <3>3. attempt'.phase # "done"
      BY <3>2, TypedRows DEF PushInv, Attempts
    <3> QED
      BY <3>1, <3>3 DEF DoneIsFinalized
  <2>4. CASE ContextChanges
    <3>1. authorized.version = "deleted" => authorized'.version = "deleted"
      BY <2>4, TypedRows DEF ContextChanges, PushInv, Contexts
    <3> QED
      BY <1>1, <2>4, <3>1 DEF ContextChanges, PushInv, DoneIsFinalized
  <2> QED
    BY <2>1, <2>2, <2>3, <2>4
<1> QED
  BY <1>1, <1>4, <1>6, <1>7, TablesKept DEF PushInv

\* The worker dies or gives up: nobody waits for the call, and the attempt is not done.
LEMMA AbandonKeeps == ASSUME PushInv, CrashPush \/ GiveUp PROVE PushInv'
<1>1. /\ UNCHANGED <<pushJob, pushState, receiver, frozen, twin, partial, toWrite, lateBlocks, mingled,
                     replica, authorized, hollow, pushRetries>>
      /\ pushFaults' \in 0..MaxPushFaults
      /\ handler' = [handler EXCEPT !.awaited = FALSE]
      /\ \E q \in {"idle", "failed"} : attempt' = [attempt EXCEPT !.phase = q]
      /\ attempt.phase # "idle"
  BY PushAssumption DEF CrashPush, GiveUp, PushFault, PushInv, PushTypeOK, staging
<1>2. attempt' \in Attempts /\ attempt'.phase \in {"idle", "failed"}
  BY <1>1, TypedRows DEF PushInv, Attempts
<1>3. /\ handler' \in Handlers
      /\ handler'.step = handler.step /\ handler'.row = handler.row /\ handler'.call = handler.call
      /\ handler'.at = handler.at /\ ~handler'.awaited
  BY <1>1, TypedRows DEF PushInv, Handlers
<1>5. PushTypeOK'
  <2>1. /\ receiver' \in Receivers /\ partial' \in Seq(Units) /\ toWrite' \in Seq(Units)
        /\ lateBlocks' \in Seq(Seq(Units)) /\ replica' \in [units: Seq(Units), linked: BOOLEAN]
        /\ mingled' \in BOOLEAN /\ authorized' \in Contexts /\ pushJob' \in Jobs
        /\ pushState' \in PushStates
    BY <1>1, TypedRows DEF PushInv
  <2>2. /\ twin' \in BOOLEAN /\ hollow' \in BOOLEAN /\ pushRetries' \in 0..MaxPushRetries
        /\ frozen' \in BOOLEAN
    BY <1>1 DEF PushInv, PushTypeOK
  <2> QED
    BY <1>1, <1>2, <1>3, <2>1, <2>2, TypeMade
<1>6. CallKnowsRow' /\ WorkerFollows'
  BY <1>1, <1>2, <1>3 DEF PushInv, CallKnowsRow, WorkerFollows, AlreadyMade
<1>7. DoneIsFinalized'
  BY <1>1, <1>2 DEF PushInv, DoneIsFinalized
<1> QED
  BY <1>1, <1>5, <1>6, <1>7, TablesKept DEF PushInv

\* A call is admitted, and knows the row; or it is refused.  A second create is put
\* beside the first.
LEMMA CallKeeps == ASSUME PushInv, CallCentral \/ CallBesideTwin PROVE PushInv'
<1>1. /\ attempt.phase \in {"create", "content", "finalize"}
      /\ UNCHANGED <<pushJob, pushState, receiver, frozen, partial, toWrite, lateBlocks, mingled, replica,
                     authorized, hollow, pushFaults, pushRetries>>
      /\ twin' \in BOOLEAN
  BY DEF CallCentral, CallBesideTwin, staging, PushInv, PushTypeOK
<1>2. \/ /\ Admitted(attempt.phase, attempt.offset)
         /\ handler' = [call |-> attempt.phase, step |-> "storage", at |-> attempt.offset,
                        awaited |-> TRUE, row |-> receiver]
         /\ attempt' = [attempt EXCEPT !.phase = "waiting"]
      \/ /\ handler = NoPushCall /\ attempt' = [attempt EXCEPT !.phase = "failed"] /\ handler' = handler
      \/ /\ handler.call = "create" /\ handler.step = "storage"
         /\ handler' = [handler EXCEPT !.awaited = TRUE, !.row = receiver]
         /\ attempt' = [attempt EXCEPT !.phase = "waiting"]
  BY DEF CallCentral, CallBesideTwin
<1>3. attempt' \in Attempts /\ attempt'.phase \in {"waiting", "failed"}
  BY <1>2, TypedRows DEF PushInv, Attempts
<1>4. /\ receiver \in Receivers /\ attempt.offset \in 0..PushSize /\ handler \in Handlers
      /\ attempt.phase \in {"none", "create", "content", "finalize"}
  BY <1>1, TypedRows DEF PushInv
<1>5. /\ handler' \in Handlers /\ handler'.step \notin {"answered", "writing"}
      /\ handler'.step = "storage" =>
            /\ handler'.row = receiver /\ attempt'.phase = "waiting"
            /\ handler'.call = "create" \/ /\ handler'.call = attempt.phase /\ handler'.at = attempt.offset
                                           /\ Admitted(attempt.phase, attempt.offset)
  <2>1. CASE /\ Admitted(attempt.phase, attempt.offset)
             /\ handler' = [call |-> attempt.phase, step |-> "storage", at |-> attempt.offset,
                            awaited |-> TRUE, row |-> receiver]
             /\ attempt' = [attempt EXCEPT !.phase = "waiting"]
    <3>1. attempt'.phase = "waiting"
      BY <2>1, TypedRows DEF PushInv, Attempts
    <3>2. handler' \in Handlers
      BY <1>4, <2>1 DEF Handlers
    <3> QED
      BY <2>1, <3>1, <3>2
  <2>2. CASE handler = NoPushCall /\ attempt' = [attempt EXCEPT !.phase = "failed"] /\ handler' = handler
    BY <2>2, NobodyTyped
  <2>3. CASE /\ handler.call = "create" /\ handler.step = "storage"
             /\ handler' = [handler EXCEPT !.awaited = TRUE, !.row = receiver]
             /\ attempt' = [attempt EXCEPT !.phase = "waiting"]
    <3>1. attempt'.phase = "waiting"
      BY <2>3, TypedRows DEF PushInv, Attempts
    <3>2. /\ handler' \in Handlers /\ handler'.call = "create" /\ handler'.step = "storage"
          /\ handler'.row = receiver
      BY <1>4, <2>3 DEF Handlers
    <3> QED
      BY <3>1, <3>2
  <2> QED
    BY <1>2, <2>1, <2>2, <2>3
<1>6. PushTypeOK'
  <2>1. /\ receiver' \in Receivers /\ partial' \in Seq(Units) /\ toWrite' \in Seq(Units)
        /\ lateBlocks' \in Seq(Seq(Units)) /\ replica' \in [units: Seq(Units), linked: BOOLEAN]
        /\ mingled' \in BOOLEAN /\ authorized' \in Contexts /\ pushJob' \in Jobs
        /\ pushState' \in PushStates
    BY <1>1, TypedRows DEF PushInv
  <2>2. /\ hollow' \in BOOLEAN /\ pushRetries' \in 0..MaxPushRetries /\ frozen' \in BOOLEAN
        /\ pushFaults' \in 0..MaxPushFaults
    BY <1>1 DEF PushInv, PushTypeOK
  <2> QED
    BY <1>1, <1>3, <1>5, <2>1, <2>2, TypeMade
<1>7. CallKnowsRow'
  <2> SUFFICES ASSUME handler'.step = "storage" PROVE CallKnowsRow'
    BY <1>5 DEF CallKnowsRow
  <2>1. /\ handler'.call = "content" => receiver.exists /\ handler'.at = receiver.confirmed
        /\ handler'.call = "finalize" => receiver.exists /\ receiver.confirmed = PushSize
    BY <1>5 DEF Admitted
  <2> QED
    BY <1>1, <1>5, <2>1 DEF CallKnowsRow
<1>8. WorkerFollows'
  BY <1>3 DEF WorkerFollows
<1>9. DoneIsFinalized'
  BY <1>1, <1>3 DEF PushInv, DoneIsFinalized
<1> QED
  BY <1>1, <1>5, <1>6, <1>7, <1>8, <1>9, TablesKept DEF PushInv

-----------------------------------------------------------------------------
(* Central *)

LEMMA RefuseType ==
    ASSUME PushTypeOK, PushRefuse
    PROVE  handler' \in Handlers /\ attempt' \in Attempts
BY TypedRows, NobodyTyped DEF PushRefuse, Attempts

\* A refusal ends the call and, if somebody waits, the attempt.
LEMMA RefuseKeeps ==
    ASSUME PushInv, handler.step \in {"storage", "writing"}, PushRefuse,
           UNCHANGED <<pushJob, pushState, receiver, authorized, hollow>>,
           PushTypeOK', ConfirmedIsStaged', ReplicaIntact'
    PROVE  PushInv'
<1>1. /\ handler' = NoPushCall /\ handler'.step = "idle"
      /\ attempt' = attempt \/ attempt' = [attempt EXCEPT !.phase = "failed"]
  BY DEF PushRefuse, NoPushCall
<1>2. attempt' = attempt \/ attempt'.phase = "failed"
  BY <1>1 DEF PushInv, PushTypeOK
<1>3. attempt.phase \notin {"content", "finalize", "done"}
  BY DEF PushInv, CallKnowsRow
<1>4. CallKnowsRow' /\ AnswerBacked' /\ WorkerFollows' /\ BlockInOrder'
  BY <1>1, <1>2, <1>3 DEF CallKnowsRow, AnswerBacked, WorkerFollows, BlockInOrder
<1>5. pushState = "SYNCED" => attempt.phase = "idle" /\ attempt' = attempt
  BY DEF PushInv, DoneIsFinalized, PushRefuse, CallKnowsRow
<1>6. DoneIsFinalized'
  BY <1>1, <1>2, <1>3, <1>5 DEF PushInv, DoneIsFinalized
<1>7. RowsAreMade'
  BY <1>1 DEF PushInv, RowsAreMade
<1> QED
  BY <1>4, <1>6, <1>7 DEF PushInv

\* An answer with a row that storage backs.
LEMMA AnswerKeeps ==
    ASSUME PushInv, handler.step \in {"storage", "writing"}, NEW row \in Receivers, NEW phase,
           PushAnswer(row, phase),
           phase \in {"content", "finalize", "done"}, phase = "finalize" => row.confirmed = PushSize,
           phase = "done" => row.finalized /\ handler.call = "finalize",
           UNCHANGED <<pushJob, pushState, receiver, frozen, twin, lateBlocks, mingled, authorized, hollow,
                       pushFaults, pushRetries>>,
           partial' \in Seq(Units), toWrite' \in Seq(Units),
           replica' \in [units: Seq(Units), linked: BOOLEAN],
           Staged(row.confirmed, partial') \/ (mingled /\ row.confirmed < Len(partial')),
           ConfirmedIsStaged', ReplicaIntact',
           row.exists, receiver.confirmed <= row.confirmed, receiver.finalized => row.finalized,
           row.finalized => replica'.units # <<>>,
           handler.call # "finalize" => row.finalized = receiver.finalized
    PROVE  PushInv'
<1>1. /\ handler' = [handler EXCEPT !.step = "answered", !.row = row]
      /\ attempt' = IF handler.awaited THEN [phase |-> phase, offset |-> row.confirmed] ELSE attempt
  BY DEF PushAnswer, ResumeAt
<1>2. /\ handler' \in Handlers
      /\ handler'.step = "answered" /\ handler'.row = row /\ handler'.call = handler.call
      /\ handler'.awaited = handler.awaited
  BY <1>1, TypedRows DEF PushInv, Handlers
<1>3. row.confirmed \in 0..PushSize
  BY DEF Receivers
<1>4. attempt' \in Attempts
  <2>1. phase \in {"idle", "create", "content", "finalize", "waiting", "done", "failed"}
    OBVIOUS
  <2> QED
    BY <1>1, <1>3, <2>1, TypedRows DEF PushInv, Attempts
<1>5. PushTypeOK'
  <2>1. /\ receiver' \in Receivers /\ lateBlocks' \in Seq(Seq(Units))
        /\ mingled' \in BOOLEAN /\ authorized' \in Contexts /\ pushJob' \in Jobs
        /\ pushState' \in PushStates
    BY TypedRows DEF PushInv
  <2>2. /\ hollow' \in BOOLEAN /\ pushRetries' \in 0..MaxPushRetries /\ frozen' \in BOOLEAN
        /\ pushFaults' \in 0..MaxPushFaults /\ twin' \in BOOLEAN
    BY DEF PushInv, PushTypeOK
  <2> QED
    BY <1>2, <1>4, <2>1, <2>2, TypeMade
<1>6. CallKnowsRow' /\ BlockInOrder'
  BY <1>2 DEF CallKnowsRow, BlockInOrder
<1>7. AnswerBacked'
  <2>1. IsPrefix(SubSeq(Whole, 1, row.confirmed), partial') \/ (mingled /\ row.confirmed < Len(partial'))
    BY <1>3, PrefixIsStaged
  <2> QED
    BY <1>2, <2>1 DEF AnswerBacked, Held, Whole
<1>8. \/ handler.awaited /\ attempt'.phase = phase /\ attempt'.offset = row.confirmed
      \/ attempt' = attempt
  BY <1>1
<1>9. /\ attempt.phase \notin {"content", "finalize", "done"}
      /\ handler.awaited => attempt.phase = "waiting"
  BY DEF PushInv, CallKnowsRow
<1>10. WorkerFollows'
  BY <1>2, <1>8, <1>9 DEF WorkerFollows
<1>11. pushState = "SYNCED" => attempt' = attempt
  BY <1>8, <1>9 DEF PushInv, DoneIsFinalized
<1>12. DoneIsFinalized'
  BY <1>2, <1>8, <1>9, <1>11 DEF PushInv, DoneIsFinalized, CallKnowsRow
<1>13. RowsAreMade'
  BY <1>2 DEF PushInv, RowsAreMade
<1> QED
  BY <1>5, <1>6, <1>7, <1>10, <1>12, <1>13 DEF PushInv

\* The existing row, or a new one, is returned; or another create has made it.
LEMMA CreateKeeps == ASSUME PushInv, create_replication PROVE PushInv'
<1> DEFINE row == [receiver EXCEPT !.exists = TRUE]
<1>1. /\ handler.step = "storage" /\ handler.call = "create"
      /\ PushRefuse \/ PushAnswer(row, NextCall(receiver.confirmed))
      /\ UNCHANGED <<pushJob, pushState, receiver, frozen, twin, partial, toWrite, lateBlocks, mingled,
                     replica, authorized, hollow, pushFaults, pushRetries>>
  BY DEF create_replication, InStorage, staging
<1>2. /\ row \in Receivers /\ row.confirmed = receiver.confirmed /\ row.finalized = receiver.finalized
      /\ row.exists
      /\ receiver.confirmed \in 0..PushSize /\ receiver.confirmed <= receiver.confirmed
  <2>1. receiver \in Receivers
    BY DEF PushInv, PushTypeOK
  <2>2. receiver.confirmed \in 0..PushSize /\ receiver.confirmed <= receiver.confirmed
    BY <2>1, PushAssumption DEF Receivers
  <2> QED
    BY <2>1, <2>2 DEF Receivers
<1>3. /\ NextCall(receiver.confirmed) \in {"content", "finalize"}
      /\ NextCall(receiver.confirmed) = "finalize" => receiver.confirmed = PushSize
  BY <1>2, PushAssumption DEF NextCall
<1>4. Staged(receiver.confirmed, partial) \/ (mingled /\ receiver.confirmed < Len(partial))
  BY <1>2, HeldIs DEF PushInv, ConfirmedIsStaged
<1>5. ConfirmedIsStaged' /\ ReplicaIntact'
  BY <1>1 DEF PushInv, ConfirmedIsStaged, ReplicaIntact, Held, Whole
<1>6. receiver.finalized => replica.units # <<>>
  BY DEF PushInv, ReplicaIntact
<1>7. /\ partial' \in Seq(Units) /\ toWrite' \in Seq(Units)
      /\ replica' \in [units: Seq(Units), linked: BOOLEAN]
  BY <1>1, TypedRows DEF PushInv
<1> HIDE DEF row
<1>8. CASE PushAnswer(row, NextCall(receiver.confirmed))
  BY <1>1, <1>2, <1>3, <1>4, <1>5, <1>6, <1>7, <1>8, AnswerKeeps
<1>9. CASE PushRefuse
  <2>1. PushTypeOK'
    <3>1. /\ receiver' \in Receivers /\ lateBlocks' \in Seq(Seq(Units))
          /\ mingled' \in BOOLEAN /\ authorized' \in Contexts /\ pushJob' \in Jobs
          /\ pushState' \in PushStates /\ handler' \in Handlers /\ attempt' \in Attempts
      BY <1>1, <1>9, TypedRows, RefuseType DEF PushInv
    <3>2. /\ hollow' \in BOOLEAN /\ pushRetries' \in 0..MaxPushRetries /\ frozen' \in BOOLEAN
          /\ pushFaults' \in 0..MaxPushFaults /\ twin' \in BOOLEAN
      BY <1>1 DEF PushInv, PushTypeOK
    <3> QED
      BY <1>7, <3>1, <3>2, TypeMade
  <2> QED
    BY <1>1, <1>5, <1>9, <2>1, RefuseKeeps
<1> QED
  BY <1>1, <1>8, <1>9

\* The staged file ends at the confirmed offset: the block will continue it.
LEMMA CheckKeeps == ASSUME PushInv, append_staging_check PROVE PushInv'
<1>1. /\ handler.step = "storage" /\ handler.call = "content"
      /\ UNCHANGED <<pushJob, pushState, receiver, frozen, twin, partial, lateBlocks, mingled, replica,
                     authorized, hollow, pushFaults, pushRetries>>
  BY DEF append_staging_check, InStorage
<1>2. /\ handler.at = receiver.confirmed /\ handler.at \in 0..PushSize /\ receiver.exists
      /\ handler.row = receiver
      /\ partial \in Seq(Units) /\ Held(receiver.confirmed)
  <2>1. /\ handler.at = receiver.confirmed /\ receiver.exists /\ handler.row = receiver
        /\ Held(receiver.confirmed)
    BY <1>1 DEF PushInv, CallKnowsRow, ConfirmedIsStaged, AlreadyMade
  <2> QED
    BY <2>1, TypedRows DEF PushInv
<1>3. ReplicaIntact' /\ ConfirmedIsStaged'
  BY <1>1 DEF PushInv, ReplicaIntact, ConfirmedIsStaged, Held, Whole
<1>4. /\ receiver' \in Receivers /\ lateBlocks' \in Seq(Seq(Units)) /\ partial' \in Seq(Units)
      /\ mingled' \in BOOLEAN /\ authorized' \in Contexts /\ pushJob' \in Jobs
      /\ pushState' \in PushStates /\ replica' \in [units: Seq(Units), linked: BOOLEAN]
  BY <1>1, TypedRows DEF PushInv
<1>5. /\ hollow' \in BOOLEAN /\ pushRetries' \in 0..MaxPushRetries /\ frozen' \in BOOLEAN
      /\ pushFaults' \in 0..MaxPushFaults /\ twin' \in BOOLEAN
  BY <1>1 DEF PushInv, PushTypeOK
<1>6. CASE Len(partial) = handler.at
  <2>1. /\ handler' = [handler EXCEPT !.step = "writing"] /\ toWrite' = BlockAt(handler.at)
        /\ attempt' = attempt
    BY <1>6 DEF append_staging_check
  <2>2. /\ handler' \in Handlers /\ handler'.step = "writing" /\ handler'.at = handler.at
        /\ handler'.call = handler.call /\ handler'.row = handler.row
        /\ handler'.awaited = handler.awaited
    BY <2>1, TypedRows DEF PushInv, Handlers
  <2>3. toWrite' \in Seq(Units) /\ attempt' \in Attempts
    BY <1>2, <2>1, BlockFacts, TypedRows DEF PushInv
  <2>4. PushTypeOK'
    BY <1>4, <1>5, <2>2, <2>3, TypeMade
  <2>5. /\ Staged(handler.at, partial)
        /\ partial \o BlockAt(handler.at) = SubSeq(Whole, 1, ConfirmedBy(handler.at))
    <3>1. Staged(handler.at, partial)
      <4>1. ~(handler.at < Len(partial))
        BY <1>2, <1>6, PushAssumption
      <4> QED
        BY <1>2, <4>1, HeldIs DEF PushInv
    <3>2. /\ partial \o BlockAt(handler.at) \in Seq(Units)
          /\ Staged(ConfirmedBy(handler.at), partial \o BlockAt(handler.at))
          /\ ConfirmedBy(handler.at) \in 0..PushSize
      BY <1>2, <1>6, <3>1, BlockStages
    <3>3. Len(partial \o BlockAt(handler.at)) = ConfirmedBy(handler.at)
      BY <1>2, <1>6, BlockFacts, ConcatProperties DEF ConfirmedBy
    <3> DEFINE l == partial \o BlockAt(handler.at)
               m == ConfirmedBy(handler.at)
               r == SubSeq(Whole, 1, m)
    <3>4. r \in Seq(Units) /\ Len(r) = m /\ \A i \in 1..m : r[i] = i
      BY <3>2, FirstUnits
    <3>5. l \in Seq(Units) /\ Len(l) = m /\ \A i \in 1..m : l[i] = i
      BY <3>2, <3>3 DEF Staged
    <3> HIDE DEF l, m, r
    <3>6. l = r
      BY <3>4, <3>5, SeqEqual
    <3> QED
      BY <3>1, <3>6 DEF l, m, r
  <2>6. BlockInOrder'
    BY <1>1, <2>1, <2>2, <2>5 DEF BlockInOrder, ConfirmedBy, BlockAt, Whole
  <2>7. CallKnowsRow' /\ AnswerBacked'
    BY <1>1, <1>2, <2>1, <2>2 DEF PushInv, CallKnowsRow, AnswerBacked
  <2>8. WorkerFollows' /\ DoneIsFinalized' /\ RowsAreMade'
    <3>1. attempt.phase \notin {"content", "finalize", "done"}
      BY <1>1 DEF PushInv, CallKnowsRow
    <3> QED
      BY <1>1, <2>1, <2>2, <3>1 DEF PushInv, WorkerFollows, DoneIsFinalized, RowsAreMade
  <2> QED
    BY <1>3, <2>4, <2>6, <2>7, <2>8 DEF PushInv
<1>7. CASE Len(partial) # handler.at
  <2>1. PushRefuse /\ toWrite' = toWrite
    BY <1>7 DEF append_staging_check
  <2>2. PushTypeOK'
    <3>1. handler' \in Handlers /\ attempt' \in Attempts /\ toWrite' \in Seq(Units)
      BY <2>1, RefuseType, TypedRows DEF PushInv
    <3> QED
      BY <1>4, <1>5, <3>1, TypeMade
  <2> QED
    BY <1>1, <1>3, <2>1, <2>2, RefuseKeeps
<1> QED
  BY <1>6, <1>7

\* An append, whole or in part, leaves what is staged, and a replica that shares the
\* file's inode grows behind the whole file.
LEMMA AppendKeeps ==
    ASSUME PushInv, NEW t \in Seq(Units), partial' = partial \o t, UNCHANGED receiver,
           mingled' \in BOOLEAN, mingled => mingled',
           \/ replica' = replica
           \/ replica.linked /\ replica' = [replica EXCEPT !.units = @ \o t]
    PROVE  /\ partial' \in Seq(Units) /\ Len(partial') = Len(partial) + Len(t)
           /\ \A n \in 0..PushSize : Held(n) => Held(n)'
           /\ ConfirmedIsStaged' /\ ReplicaIntact'
           /\ replica' \in [units: Seq(Units), linked: BOOLEAN]
           /\ replica.units # <<>> => replica'.units # <<>>
<1>1. /\ partial \in Seq(Units) /\ replica.units \in Seq(Units) /\ receiver.confirmed \in 0..PushSize
      /\ replica \in [units: Seq(Units), linked: BOOLEAN]
  BY TypedRows DEF PushInv
<1>2. /\ partial' \in Seq(Units) /\ Len(partial') = Len(partial) + Len(t)
      /\ Len(partial) \in Nat /\ Len(t) \in Nat
  BY <1>1, ConcatProperties, LenProperties
<1>3. ASSUME NEW n \in 0..PushSize, Held(n) PROVE Held(n)'
  <2>1. CASE Staged(n, partial)
    <3>1. Staged(n, partial')
      BY <1>1, <2>1, StagedGrows
    <3>2. IsPrefix(SubSeq(Whole, 1, n), partial')
      BY <1>2, <3>1, PrefixIsStaged
    <3> QED
      BY <3>2 DEF Held, Whole
  <2>2. CASE mingled /\ n < Len(partial)
    <3>1. n \in Nat
      BY PushAssumption
    <3>2. mingled' /\ n < Len(partial')
      BY <1>2, <2>2, <3>1
    <3> QED
      BY <3>2 DEF Held
  <2> QED
    BY <1>3, <2>1, <2>2, HeldIs DEF PushInv
<1>4. ConfirmedIsStaged'
  <2>1. Held(receiver.confirmed)'
    BY <1>1, <1>3 DEF PushInv, ConfirmedIsStaged, Held
  <2> QED
    BY <2>1 DEF ConfirmedIsStaged
<1>5. CASE replica' = replica
  BY <1>1, <1>2, <1>3, <1>4, <1>5 DEF PushInv, ReplicaIntact, Whole
<1>6. CASE replica.linked /\ replica' = [replica EXCEPT !.units = @ \o t]
  <2>1. /\ replica'.units = replica.units \o t /\ replica'.linked
        /\ replica.units \o t \in Seq(Units)
        /\ replica' \in [units: Seq(Units), linked: BOOLEAN]
    BY <1>1, <1>6, ConcatProperties
  <2>2. PushSize \in 0..PushSize /\ SubSeq(Whole, 1, PushSize) = Whole
    BY PushAssumption, WholeFacts, SubSeqFull
  <2>3. Staged(PushSize, replica.units)
    BY <1>1, <1>6, <2>2, PrefixIsStaged DEF PushInv, ReplicaIntact
  <2>4. Staged(PushSize, replica.units \o t)
    BY <1>1, <2>2, <2>3, StagedGrows
  <2>5. IsPrefix(Whole, replica'.units)
    BY <2>1, <2>2, <2>4, PrefixIsStaged
  <2>6. replica'.units # <<>>
    BY <2>1, <2>4, PushAssumption, EmptySeq DEF Staged
  <2>7. ReplicaIntact'
    BY <2>1, <2>5, <2>6 DEF ReplicaIntact, Whole
  <2> QED
    BY <1>2, <1>3, <1>4, <2>1, <2>6, <2>7
<1> QED
  BY <1>5, <1>6

\* The units that have come are written.  After the last one all of what is answered is
\* staged, or two appends have mingled and there is more.
LEMMA ContentKeeps == ASSUME PushInv, replication_content PROVE PushInv'
<1>1. /\ handler.step = "writing"
      /\ UNCHANGED <<pushJob, pushState, receiver, frozen, twin, lateBlocks, mingled, replica, authorized,
                     hollow, pushFaults, pushRetries>>
  BY DEF replication_content
<1> DEFINE m == ConfirmedBy(handler.at)
           row == [receiver EXCEPT !.confirmed = m]
<1>2. PICK n \in 1..Len(toWrite) :
          /\ partial' = partial \o SubSeq(toWrite, 1, n)
          /\ toWrite' = SubSeq(toWrite, n + 1, Len(toWrite))
          /\ IF n = Len(toWrite) THEN PushAnswer(row, NextCall(m)) ELSE UNCHANGED <<handler, attempt>>
  BY DEF replication_content
<1> DEFINE t == SubSeq(toWrite, 1, n)
           u == SubSeq(toWrite, n + 1, Len(toWrite))
<1>3. /\ handler.call = "content" /\ receiver.exists /\ handler.at = receiver.confirmed
      /\ handler.at \in 0..PushSize /\ partial \in Seq(Units) /\ toWrite \in Seq(Units)
      /\ receiver \in Receivers
  <2>1. handler.call = "content" /\ receiver.exists /\ handler.at = receiver.confirmed
    BY <1>1 DEF PushInv, CallKnowsRow
  <2> QED
    BY <2>1, TypedRows DEF PushInv
<1>4. /\ t \in Seq(Units) /\ u \in Seq(Units) /\ (partial \o t) \o u = partial \o toWrite
      /\ Len(t) + Len(u) = Len(toWrite) /\ (n = Len(toWrite) => t = toWrite) /\ Len(t) \in Nat
      /\ Len(u) \in Nat /\ Len(partial) \in Nat /\ Len(toWrite) \in Nat
  BY <1>2, <1>3, SplitRest, LenProperties
<1>5. m \in 0..PushSize /\ handler.at <= m
  <2>1. Len(BlockAt(handler.at)) \in Nat /\ m <= PushSize /\ m = handler.at + Len(BlockAt(handler.at))
    BY <1>3, BlockFacts DEF ConfirmedBy
  <2> HIDE DEF m
  <2> QED
    BY <1>3, <2>1, PushAssumption
<1>6. partial' = partial \o t /\ toWrite' = u
  BY <1>2
<1> HIDE DEF t, u
<1>7. mingled' \in BOOLEAN /\ (mingled => mingled') /\ replica' = replica /\ receiver' = receiver
  BY <1>1, TypedRows DEF PushInv
<1>8. /\ partial' \in Seq(Units) /\ Len(partial') = Len(partial) + Len(t)
      /\ ConfirmedIsStaged' /\ ReplicaIntact'
      /\ replica' \in [units: Seq(Units), linked: BOOLEAN]
  BY <1>4, <1>6, <1>7, AppendKeeps
<1>9. toWrite' \in Seq(Units)
  BY <1>4, <1>6
<1>10. partial \o toWrite = SubSeq(Whole, 1, m) \/ (mingled /\ m < Len(partial) + Len(toWrite))
  BY <1>1 DEF PushInv, BlockInOrder
<1>11. CASE n # Len(toWrite)
  <2>1. handler' = handler /\ attempt' = attempt
    BY <1>2, <1>11
  <2>2. PushTypeOK'
    <3>1. /\ receiver' \in Receivers /\ lateBlocks' \in Seq(Seq(Units)) /\ handler' \in Handlers
          /\ mingled' \in BOOLEAN /\ authorized' \in Contexts /\ pushJob' \in Jobs
          /\ pushState' \in PushStates /\ attempt' \in Attempts
      BY <1>1, <2>1, TypedRows DEF PushInv
    <3>2. /\ hollow' \in BOOLEAN /\ pushRetries' \in 0..MaxPushRetries /\ frozen' \in BOOLEAN
          /\ pushFaults' \in 0..MaxPushFaults /\ twin' \in BOOLEAN
      BY <1>1 DEF PushInv, PushTypeOK
    <3> QED
      BY <1>8, <1>9, <3>1, <3>2, TypeMade
  <2>3. partial \o toWrite = SubSeq(Whole, 1, m) => partial' \o toWrite' = SubSeq(Whole, 1, m)
    BY <1>4, <1>6
  <2>4. m < Len(partial) + Len(toWrite) => m < Len(partial') + Len(toWrite')
    <3>1. Len(partial') + Len(toWrite') = Len(partial) + Len(toWrite)
      BY <1>4, <1>6, <1>8
    <3> QED
      BY <3>1
  <2>5. BlockInOrder'
    BY <1>1, <1>10, <2>1, <2>3, <2>4 DEF BlockInOrder, ConfirmedBy, BlockAt, Whole
  <2>6. CallKnowsRow' /\ AnswerBacked' /\ DoneIsFinalized' /\ RowsAreMade'
    BY <1>1, <2>1 DEF PushInv, CallKnowsRow, AnswerBacked, DoneIsFinalized, RowsAreMade, AlreadyMade
  <2>7. WorkerFollows'
    <3>1. attempt.phase \notin {"content", "finalize"}
      BY <1>1 DEF PushInv, CallKnowsRow
    <3> QED
      BY <2>1, <3>1 DEF WorkerFollows
  <2> QED
    BY <1>8, <2>2, <2>5, <2>6, <2>7 DEF PushInv
<1>12. CASE n = Len(toWrite)
  <2>1. PushAnswer(row, NextCall(m))
    BY <1>2, <1>12
  <2>2. Staged(m, partial') \/ (mingled /\ m < Len(partial'))
    <3>1. partial' = partial \o toWrite
      BY <1>4, <1>6, <1>12
    <3>2. partial' = SubSeq(Whole, 1, m) => Staged(m, partial')
      <4>1. Len(SubSeq(Whole, 1, m)) = m /\ \A i \in 1..m : SubSeq(Whole, 1, m)[i] = i
        BY <1>5, FirstUnits
      <4>2. m <= m
        BY <1>5, PushAssumption
      <4> HIDE DEF m
      <4> QED
        BY <4>1, <4>2 DEF Staged
    <3>3. Len(partial') = Len(partial) + Len(toWrite)
      BY <1>3, <3>1, ConcatProperties
    <3> HIDE DEF m
    <3> QED
      BY <1>10, <3>1, <3>2, <3>3
  <2> HIDE DEF m
  <2>3. row \in Receivers /\ row.confirmed = m /\ row.finalized = receiver.finalized /\ row.exists
    BY <1>3, <1>5 DEF Receivers
  <2>4. NextCall(m) \in {"content", "finalize"} /\ (NextCall(m) = "finalize" => m = PushSize)
    BY <1>5, PushAssumption DEF NextCall
  <2>5. receiver.finalized => replica'.units # <<>>
    BY <1>1 DEF PushInv, ReplicaIntact
  <2>6. receiver.confirmed <= m
    BY <1>3, <1>5
  <2> HIDE DEF row
  <2> QED
    BY <1>1, <1>3, <1>8, <1>9, <2>1, <2>2, <2>3, <2>4, <2>5, <2>6, AnswerKeeps
<1> QED
  BY <1>11, <1>12

\* Only a staged file that is the whole file is published.
LEMMA FinalizeKeeps == ASSUME PushInv, finalize_replication_endpoint PROVE PushInv'
<1>1. /\ handler.step = "storage" /\ handler.call = "finalize"
      /\ UNCHANGED <<pushJob, pushState, receiver, frozen, twin, partial, toWrite, lateBlocks, mingled,
                     authorized, hollow, pushFaults, pushRetries>>
  BY DEF finalize_replication_endpoint, InStorage, staging
<1>2. ConfirmedIsStaged' /\ partial' \in Seq(Units) /\ toWrite' \in Seq(Units)
  BY <1>1, TypedRows DEF PushInv, ConfirmedIsStaged, Held, Whole
<1>3. \/ replica' = replica
      \/ Checks /\ \E linked \in BOOLEAN : replica' = [units |-> Whole, linked |-> linked]
  BY DEF finalize_replication_endpoint, Checks
<1>4. /\ replica' \in [units: Seq(Units), linked: BOOLEAN]
      /\ replica'.units # <<>> => \/ replica'.units = replica.units /\ replica'.linked = replica.linked
                                  \/ replica'.units = Whole
  BY <1>3, WholeFacts, TypedRows DEF PushInv
<1>5. IsPrefix(Whole, Whole)
  <2>1. PushSize \in 0..PushSize /\ SubSeq(Whole, 1, PushSize) = Whole /\ Staged(PushSize, Whole)
    BY PushAssumption, WholeFacts, SubSeqFull DEF Staged, Units
  <2> QED
    BY <2>1, WholeFacts, PrefixIsStaged
<1>6. ReplicaIntact'
  <2>1. receiver.finalized \/ replica'.linked => replica'.units # <<>>
    BY <1>3, WholeFacts DEF PushInv, ReplicaIntact
  <2>2. replica'.units # <<>> => /\ IsPrefix(Whole, replica'.units)
                                 /\ ~replica'.linked => replica'.units = Whole
    BY <1>3, <1>4, <1>5 DEF PushInv, ReplicaIntact
  <2> QED
    BY <1>1, <2>1, <2>2 DEF ReplicaIntact, Whole
<1>7. CASE PushRefuse
  <2>1. PushTypeOK'
    <3>1. /\ receiver' \in Receivers /\ lateBlocks' \in Seq(Seq(Units)) /\ handler' \in Handlers
          /\ mingled' \in BOOLEAN /\ authorized' \in Contexts /\ pushJob' \in Jobs
          /\ pushState' \in PushStates /\ attempt' \in Attempts
      BY <1>1, <1>7, TypedRows, RefuseType DEF PushInv
    <3>2. /\ hollow' \in BOOLEAN /\ pushRetries' \in 0..MaxPushRetries /\ frozen' \in BOOLEAN
          /\ pushFaults' \in 0..MaxPushFaults /\ twin' \in BOOLEAN
      BY <1>1 DEF PushInv, PushTypeOK
    <3> QED
      BY <1>2, <1>4, <3>1, <3>2, TypeMade
  <2> QED
    BY <1>1, <1>2, <1>6, <1>7, <2>1, RefuseKeeps
<1>8. CASE Checks /\ PushAnswer([receiver EXCEPT !.finalized = TRUE], "done")
  <2> DEFINE row == [receiver EXCEPT !.finalized = TRUE]
  <2>0. receiver.exists
    BY <1>1 DEF PushInv, CallKnowsRow
  <2>1. row \in Receivers /\ row.confirmed = receiver.confirmed /\ row.finalized /\ row.exists
    BY <2>0 DEF PushInv, PushTypeOK, Receivers
  <2>2. receiver.confirmed \in 0..PushSize /\ receiver.confirmed <= receiver.confirmed
    BY TypedRows, PushAssumption DEF PushInv
  <2>3. Staged(receiver.confirmed, partial') \/ (mingled /\ receiver.confirmed < Len(partial'))
    BY <1>1, <2>2, HeldIs DEF PushInv, ConfirmedIsStaged
  <2>4. replica'.units # <<>>
    BY <1>8, WholeFacts DEF finalize_replication_endpoint, Checks
  <2>5. PushAnswer(row, "done")
    BY <1>8
  <2> HIDE DEF row
  <2> QED
    BY <1>1, <1>2, <1>4, <1>6, <2>1, <2>2, <2>3, <2>4, <2>5, AnswerKeeps
<1> QED
  BY <1>7, <1>8 DEF finalize_replication_endpoint

-----------------------------------------------------------------------------
(* Storage, the other creates and the end of a transaction *)

LEMMA StorageFailsKeeps == ASSUME PushInv, StorageFails \/ RestartCentral PROVE PushInv'
<1>1. /\ handler.step \in {"storage", "writing"} /\ PushRefuse /\ PushFault /\ AbandonAppend
      /\ UNCHANGED <<pushJob, pushState, receiver, partial, mingled, replica, authorized, hollow, pushRetries>>
      /\ frozen' = frozen \/ frozen' = FALSE
      /\ twin' = twin \/ twin' = FALSE
  BY DEF StorageFails, RestartCentral
<1>2. toWrite' \in Seq(Units) /\ lateBlocks' \in Seq(Seq(Units))
  <2>1. toWrite \in Seq(Units) /\ lateBlocks \in Seq(Seq(Units)) /\ <<>> \in Seq(Units)
    BY TypedRows, EmptySeq DEF PushInv
  <2>2. Append(lateBlocks, toWrite) \in Seq(Seq(Units))
    BY <2>1, AppendProperties
  <2> QED
    BY <1>1, <2>1, <2>2 DEF AbandonAppend
<1>3. ConfirmedIsStaged' /\ ReplicaIntact'
  BY <1>1 DEF PushInv, ConfirmedIsStaged, ReplicaIntact, Held, Whole
<1>4. PushTypeOK'
  <2>1. /\ receiver' \in Receivers /\ handler' \in Handlers /\ partial' \in Seq(Units)
        /\ mingled' \in BOOLEAN /\ authorized' \in Contexts /\ pushJob' \in Jobs
        /\ pushState' \in PushStates /\ attempt' \in Attempts
        /\ replica' \in [units: Seq(Units), linked: BOOLEAN]
    BY <1>1, TypedRows, RefuseType DEF PushInv
  <2>2. /\ hollow' \in BOOLEAN /\ pushRetries' \in 0..MaxPushRetries /\ frozen' \in BOOLEAN
        /\ twin' \in BOOLEAN
    BY <1>1 DEF PushInv, PushTypeOK
  <2>3. pushFaults' \in 0..MaxPushFaults
    BY <1>1, PushAssumption DEF PushFault, PushInv, PushTypeOK
  <2> QED
    BY <1>2, <2>1, <2>2, <2>3, TypeMade
<1> QED
  BY <1>1, <1>3, <1>4, RefuseKeeps

LEMMA LateAppendKeeps == ASSUME PushInv, LateAppend PROVE PushInv'
<1>0. UNCHANGED <<pushJob, pushState, attempt, receiver, handler, frozen, twin, toWrite, authorized,
                  hollow, pushFaults, pushRetries>>
      /\ mingled' = (mingled \/ handler.step = "writing")
  BY DEF LateAppend
<1>1. /\ partial \in Seq(Units) /\ toWrite \in Seq(Units) /\ lateBlocks \in Seq(Seq(Units))
      /\ receiver.confirmed \in 0..PushSize /\ handler.row.confirmed \in 0..PushSize
      /\ handler.at \in 0..PushSize /\ mingled \in BOOLEAN
  BY TypedRows DEF PushInv
<1>2. PICK i \in DOMAIN lateBlocks : \E n \in 1..Len(lateBlocks[i]) :
          /\ partial' = partial \o SubSeq(lateBlocks[i], 1, n)
          /\ replica' = IF replica.linked THEN [replica EXCEPT !.units = @ \o SubSeq(lateBlocks[i], 1, n)]
                        ELSE replica
          /\ lateBlocks' = IF n = Len(lateBlocks[i])
                           THEN RemoveAt(lateBlocks, i)
                           ELSE [lateBlocks EXCEPT ![i] = SubSeq(@, n + 1, Len(@))]
  BY DEF LateAppend
<1>3. lateBlocks' \in Seq(Seq(Units))
  <2>1. /\ RemoveAt(lateBlocks, i) \in Seq(Seq(Units))
        /\ \A n \in 1..Len(lateBlocks[i]) :
              [lateBlocks EXCEPT ![i] = SubSeq(lateBlocks[i], n + 1, Len(lateBlocks[i]))] \in Seq(Seq(Units))
    BY <1>1, <1>2, LateTyped
  <2>2. \/ lateBlocks' = RemoveAt(lateBlocks, i)
        \/ \E n \in 1..Len(lateBlocks[i]) :
              lateBlocks' = [lateBlocks EXCEPT ![i] = SubSeq(lateBlocks[i], n + 1, Len(lateBlocks[i]))]
    BY <1>2
  <2> QED
    BY <2>1, <2>2
<1>4. PICK t \in Seq(Units) :
          /\ Len(t) \in Nat \ {0} /\ partial' = partial \o t
          /\ replica' = replica \/ (replica.linked /\ replica' = [replica EXCEPT !.units = @ \o t])
  <2>1. PICK n \in 1..Len(lateBlocks[i]) :
            /\ partial' = partial \o SubSeq(lateBlocks[i], 1, n)
            /\ replica' = IF replica.linked
                          THEN [replica EXCEPT !.units = @ \o SubSeq(lateBlocks[i], 1, n)]
                          ELSE replica
    BY <1>2
  <2>2. SubSeq(lateBlocks[i], 1, n) \in Seq(Units) /\ Len(SubSeq(lateBlocks[i], 1, n)) \in Nat \ {0}
    BY <1>1, <1>2, LateTyped, SplitRest
  <2> DEFINE t == SubSeq(lateBlocks[i], 1, n)
  <2>3. /\ t \in Seq(Units) /\ Len(t) \in Nat \ {0} /\ partial' = partial \o t
        /\ replica' = IF replica.linked THEN [replica EXCEPT !.units = @ \o t] ELSE replica
    BY <2>1, <2>2
  <2> HIDE DEF t
  <2> QED
    BY <2>3
<1>5. mingled' \in BOOLEAN /\ (mingled => mingled') /\ (handler.step = "writing" => mingled')
  BY <1>0
<1>6. /\ partial' \in Seq(Units) /\ Len(partial') = Len(partial) + Len(t)
      /\ \A n \in 0..PushSize : Held(n) => Held(n)'
      /\ ConfirmedIsStaged' /\ ReplicaIntact'
      /\ replica' \in [units: Seq(Units), linked: BOOLEAN]
      /\ replica.units # <<>> => replica'.units # <<>>
  BY <1>0, <1>4, <1>5, AppendKeeps
<1>7. /\ Len(partial) \in Nat /\ Len(partial') \in Nat /\ Len(partial) < Len(partial')
      /\ Len(toWrite) \in Nat
  BY <1>1, <1>4, <1>6, LenProperties
<1>8. PushTypeOK'
  <2>1. /\ receiver' \in Receivers /\ handler' \in Handlers /\ toWrite' \in Seq(Units)
        /\ authorized' \in Contexts /\ pushJob' \in Jobs
        /\ pushState' \in PushStates /\ attempt' \in Attempts
    BY <1>0, TypedRows DEF PushInv
  <2>2. /\ hollow' \in BOOLEAN /\ pushRetries' \in 0..MaxPushRetries /\ frozen' \in BOOLEAN
        /\ pushFaults' \in 0..MaxPushFaults /\ twin' \in BOOLEAN
    BY <1>0 DEF PushInv, PushTypeOK
  <2> QED
    BY <1>3, <1>5, <1>6, <2>1, <2>2, TypeMade
<1>9. CallKnowsRow' /\ DoneIsFinalized' /\ RowsAreMade'
  BY <1>0 DEF PushInv, CallKnowsRow, DoneIsFinalized, RowsAreMade, AlreadyMade
<1>10. AnswerBacked'
  <2>1. handler.step = "answered" => Held(handler.row.confirmed)'
    BY <1>0, <1>1, <1>6 DEF PushInv, AnswerBacked, Held
  <2> QED
    BY <1>0, <1>6, <2>1 DEF PushInv, AnswerBacked
<1>11. WorkerFollows'
  <2>1. receiver.confirmed \in Nat
    BY <1>1, PushAssumption
  <2>2. receiver.confirmed < Len(partial) => receiver.confirmed < Len(partial')
    BY <1>7, <2>1
  <2> QED
    BY <1>0, <2>2 DEF PushInv, WorkerFollows
<1>12. BlockInOrder'
  <2> SUFFICES ASSUME handler.step = "writing" PROVE BlockInOrder'
    BY <1>0 DEF BlockInOrder
  <2> DEFINE m == ConfirmedBy(handler.at)
  <2>1. m \in 0..PushSize
    <3>1. Len(BlockAt(handler.at)) \in Nat /\ m <= PushSize /\ m = handler.at + Len(BlockAt(handler.at))
      BY <1>1, BlockFacts DEF ConfirmedBy
    <3> HIDE DEF m
    <3> QED
      BY <1>1, <3>1, PushAssumption
  <2>2. partial \o toWrite = SubSeq(Whole, 1, m) \/ m < Len(partial) + Len(toWrite)
    BY DEF PushInv, BlockInOrder
  <2>3. m' = m
    BY <1>0 DEF ConfirmedBy, BlockAt, Whole
  <2>4. Len(SubSeq(Whole, 1, m)) = m /\ Len(partial \o toWrite) = Len(partial) + Len(toWrite)
    BY <1>1, <2>1, FirstUnits, ConcatProperties
  <2>5. m < Len(partial') + Len(toWrite)
    <3>1. m \in Nat
      BY <2>1, PushAssumption
    <3> HIDE DEF m
    <3> QED
      BY <1>7, <2>2, <2>4, <3>1
  <2> QED
    BY <1>0, <1>5, <2>3, <2>5 DEF BlockInOrder
<1> QED
  BY <1>6, <1>8, <1>9, <1>10, <1>11, <1>12 DEF PushInv

\* The transaction behind an answer ends: its row replaces the committed one, or the
\* staged file is longer than the row says, and a finalization is hollow.
LEMMA CommitKeeps == ASSUME PushInv, CommitCall \/ PushCommitLost PROVE PushInv'
<1>1. /\ handler.step = "answered" /\ handler' = NoPushCall /\ handler'.step = "idle"
      /\ UNCHANGED <<pushJob, pushState, attempt, frozen, twin, partial, toWrite, lateBlocks, mingled,
                     replica, authorized, pushRetries>>
      /\ pushFaults' \in 0..MaxPushFaults
      /\ \/ receiver' = handler.row /\ hollow' = hollow
         \/ /\ receiver' = receiver
            /\ hollow' = (hollow \/ (handler.call = "finalize" /\ handler.awaited))
  BY PushAssumption DEF CommitCall, PushCommitLost, PushFault, PushInv, PushTypeOK, NoPushCall, staging
<1>2. PushTypeOK'
  <2>1. /\ receiver' \in Receivers /\ handler' \in Handlers /\ toWrite' \in Seq(Units)
        /\ authorized' \in Contexts /\ pushJob' \in Jobs /\ partial' \in Seq(Units)
        /\ lateBlocks' \in Seq(Seq(Units)) /\ mingled' \in BOOLEAN
        /\ pushState' \in PushStates /\ attempt' \in Attempts
        /\ replica' \in [units: Seq(Units), linked: BOOLEAN]
    BY <1>1, TypedRows, NobodyTyped DEF PushInv
  <2>2. /\ hollow' \in BOOLEAN /\ pushRetries' \in 0..MaxPushRetries /\ frozen' \in BOOLEAN
        /\ twin' \in BOOLEAN
    BY <1>1 DEF PushInv, PushTypeOK
  <2> QED
    BY <1>1, <2>1, <2>2, TypeMade
<1>3. CallKnowsRow' /\ AnswerBacked' /\ BlockInOrder'
  BY <1>1 DEF CallKnowsRow, AnswerBacked, BlockInOrder
<1>4. ConfirmedIsStaged' /\ ReplicaIntact' /\ RowsAreMade'
  <2>1. ConfirmedIsStaged'
    BY <1>1 DEF PushInv, ConfirmedIsStaged, AnswerBacked, Held, Whole
  <2>2. ReplicaIntact'
    BY <1>1 DEF PushInv, ReplicaIntact, AnswerBacked, Whole
  <2>3. RowsAreMade'
    BY <1>1 DEF PushInv, RowsAreMade
  <2> QED
    BY <2>1, <2>2, <2>3
<1>5. WorkerFollows'
  <2>1. /\ receiver.confirmed \in Nat /\ handler.row.confirmed \in Nat /\ Len(partial) \in Nat
        /\ receiver.confirmed <= handler.row.confirmed /\ handler.row.confirmed <= Len(partial)
    <3>1. Held(handler.row.confirmed) /\ receiver.confirmed <= handler.row.confirmed
      BY <1>1 DEF PushInv, AnswerBacked
    <3>2. handler.row.confirmed <= Len(partial)
      BY <3>1, TypedRows, HeldLength DEF PushInv
    <3>3. receiver.confirmed \in Nat /\ handler.row.confirmed \in Nat /\ Len(partial) \in Nat
      BY TypedRows, PushAssumption, LenProperties DEF PushInv
    <3> QED
      BY <3>1, <3>2, <3>3
  <2>2. handler.row.confirmed = receiver.confirmed \/ receiver.confirmed < Len(partial)
    BY <2>1
  <2> QED
    BY <1>1, <2>2 DEF PushInv, WorkerFollows
<1>6. DoneIsFinalized'
  <2>1. (attempt.phase = "done" \/ pushState = "SYNCED") =>
           \/ receiver.finalized \/ hollow \/ authorized.version = "deleted"
           \/ handler.call = "finalize" /\ handler.awaited /\ handler.row.finalized
    BY DEF PushInv, DoneIsFinalized
  <2>2. receiver.finalized => handler.row.finalized
    BY <1>1 DEF PushInv, AnswerBacked
  <2>3. CASE receiver' = handler.row /\ hollow' = hollow
    BY <1>1, <2>1, <2>2, <2>3 DEF PushInv, DoneIsFinalized
  <2>4. CASE /\ receiver' = receiver
             /\ hollow' = (hollow \/ (handler.call = "finalize" /\ handler.awaited))
    <3>1. (attempt.phase = "done" \/ pushState = "SYNCED") =>
              receiver.finalized \/ hollow' \/ authorized.version = "deleted"
      BY <2>1, <2>4
    <3> QED
      BY <1>1, <2>4, <3>1 DEF PushInv, DoneIsFinalized
  <2> QED
    BY <1>1, <2>3, <2>4
<1> QED
  BY <1>2, <1>3, <1>4, <1>5, <1>6 DEF PushInv

\* An abandoned create makes the row behind the back of another one.
LEMMA TwinKeeps == ASSUME PushInv, TwinCreates PROVE PushInv'
<1>1. /\ twin' = FALSE /\ handler.step # "answered"
      /\ receiver' = receiver \/ (~receiver.exists /\ receiver' = [receiver EXCEPT !.exists = TRUE])
      /\ UNCHANGED <<pushJob, pushState, attempt, handler, frozen, partial, toWrite, lateBlocks, mingled,
                     replica, authorized, hollow, pushFaults, pushRetries>>
  BY DEF TwinCreates, staging
<1>2. /\ receiver' \in Receivers /\ receiver'.confirmed = receiver.confirmed
      /\ receiver'.finalized = receiver.finalized
      /\ receiver' = receiver \/ (~receiver.exists /\ receiver'.exists /\ receiver = NoReceiver)
  <2>1. receiver \in Receivers
    BY TypedRows DEF PushInv
  <2>2. ~receiver.exists => receiver = NoReceiver
    BY DEF PushInv, RowsAreMade
  <2> QED
    BY <1>1, <2>1, <2>2 DEF Receivers
<1>3. PushTypeOK'
  <2>1. /\ handler' \in Handlers /\ toWrite' \in Seq(Units)
        /\ authorized' \in Contexts /\ pushJob' \in Jobs /\ partial' \in Seq(Units)
        /\ lateBlocks' \in Seq(Seq(Units)) /\ mingled' \in BOOLEAN
        /\ pushState' \in PushStates /\ attempt' \in Attempts
        /\ replica' \in [units: Seq(Units), linked: BOOLEAN]
    BY <1>1, TypedRows DEF PushInv
  <2>2. /\ hollow' \in BOOLEAN /\ pushRetries' \in 0..MaxPushRetries /\ frozen' \in BOOLEAN
        /\ pushFaults' \in 0..MaxPushFaults
    BY <1>1 DEF PushInv, PushTypeOK
  <2> QED
    BY <1>1, <1>2, <2>1, <2>2, TypeMade
<1>4. ConfirmedIsStaged' /\ ReplicaIntact' /\ AnswerBacked' /\ BlockInOrder'
  <2>1. ConfirmedIsStaged'
    BY <1>1, <1>2 DEF PushInv, ConfirmedIsStaged, Held, Whole
  <2>2. ReplicaIntact'
    BY <1>1, <1>2 DEF PushInv, ReplicaIntact, Whole
  <2>3. BlockInOrder' /\ AnswerBacked'
    BY <1>1 DEF PushInv, BlockInOrder, AnswerBacked, ConfirmedBy, BlockAt, Whole
  <2> QED
    BY <2>1, <2>2, <2>3
<1>5. RowsAreMade'
  BY <1>1, <1>2 DEF PushInv, RowsAreMade
<1>6. CallKnowsRow'
  <2>1. CASE receiver' = receiver
    BY <1>1, <2>1 DEF PushInv, CallKnowsRow, AlreadyMade
  <2>2. CASE ~receiver.exists /\ receiver'.exists /\ receiver = NoReceiver
    <3>1. ~AlreadyMade /\ ~NoReceiver.finalized /\ NoReceiver.confirmed = 0 /\ ~NoReceiver.exists
      BY <2>2 DEF AlreadyMade, NoReceiver
    <3>2. handler.step \in {"storage", "writing"} =>
             /\ handler.row = NoReceiver /\ handler.call \notin {"content", "finalize"}
             /\ handler.step # "writing"
             /\ attempt.phase \notin {"content", "finalize", "done"}
             /\ handler.awaited => attempt.phase = "waiting"
      BY <2>2, <3>1 DEF PushInv, CallKnowsRow
    <3>3. handler.step = "storage" => handler.call = "create"
      <4>1. handler.step = "storage" => handler.call # "none"
        BY DEF PushInv, CallKnowsRow
      <4> QED
        BY <3>2, <4>1, TypedRows DEF PushInv, Handlers
    <3> QED
      BY <1>1, <1>2, <2>2, <3>1, <3>2, <3>3 DEF CallKnowsRow, AlreadyMade
  <2> QED
    BY <1>2, <2>1, <2>2
<1>7. WorkerFollows' /\ DoneIsFinalized'
  BY <1>1, <1>2 DEF PushInv, WorkerFollows, DoneIsFinalized
<1> QED
  BY <1>3, <1>4, <1>5, <1>6, <1>7 DEF PushInv

\* The event goes with its rows, while no call is handled.
LEMMA DeletedKeeps == ASSUME PushInv, EventDeleted PROVE PushInv'
<1>1. /\ receiver' = NoReceiver /\ handler = NoPushCall /\ handler.step = "idle"
      /\ authorized' = [authorized EXCEPT !.version = "deleted", !.deployment = FALSE]
      /\ UNCHANGED <<pushJob, pushState, attempt, handler, frozen, twin, partial, toWrite, lateBlocks,
                     mingled, replica, hollow, pushFaults, pushRetries>>
  BY DEF EventDeleted, staging, NoPushCall
<1>2. authorized' \in Contexts /\ authorized'.version = "deleted"
  BY <1>1, TypedRows DEF PushInv, Contexts
<1>3. PushTypeOK'
  <2>1. /\ handler' \in Handlers /\ toWrite' \in Seq(Units) /\ receiver' \in Receivers
        /\ pushJob' \in Jobs /\ partial' \in Seq(Units)
        /\ lateBlocks' \in Seq(Seq(Units)) /\ mingled' \in BOOLEAN
        /\ pushState' \in PushStates /\ attempt' \in Attempts
        /\ replica' \in [units: Seq(Units), linked: BOOLEAN]
    BY <1>1, TypedRows, NobodyTyped DEF PushInv
  <2>2. /\ hollow' \in BOOLEAN /\ pushRetries' \in 0..MaxPushRetries /\ frozen' \in BOOLEAN
        /\ pushFaults' \in 0..MaxPushFaults /\ twin' \in BOOLEAN
    BY <1>1 DEF PushInv, PushTypeOK
  <2> QED
    BY <1>2, <2>1, <2>2, TypeMade
<1>4. NoReceiver.confirmed = 0 /\ ~NoReceiver.finalized /\ ~NoReceiver.exists
  BY DEF NoReceiver
<1>5. 0 \in 0..PushSize /\ partial \in Seq(Units) /\ Len(partial) \in Nat /\ receiver.confirmed \in 0..PushSize
  BY TypedRows, PushAssumption, LenProperties DEF PushInv
<1>6. ConfirmedIsStaged'
  <2>1. Staged(0, partial)
    BY <1>5 DEF Staged
  <2>2. IsPrefix(SubSeq(Whole, 1, 0), partial)
    BY <1>5, <2>1, PrefixIsStaged
  <2> QED
    BY <1>1, <1>4, <2>2 DEF ConfirmedIsStaged, Held, Whole
<1>7. ReplicaIntact'
  BY <1>1, <1>4 DEF PushInv, ReplicaIntact, Whole
<1>8. RowsAreMade' /\ CallKnowsRow' /\ BlockInOrder' /\ AnswerBacked'
  BY <1>1 DEF RowsAreMade, CallKnowsRow, BlockInOrder, AnswerBacked
<1>9. WorkerFollows'
  <2>1. receiver.confirmed <= Len(partial) /\ receiver.confirmed \in Nat
    BY <1>5, HeldLength, PushAssumption DEF PushInv, ConfirmedIsStaged
  <2>2. receiver.confirmed = 0 \/ 0 < Len(partial)
    BY <1>5, <2>1
  <2>3. receiver.confirmed < Len(partial) => 0 < Len(partial)
    BY <1>5, <2>1
  <2> QED
    BY <1>1, <1>4, <2>2, <2>3 DEF PushInv, WorkerFollows
<1>10. DoneIsFinalized'
  BY <1>1, <1>2 DEF PushInv, DoneIsFinalized
<1> QED
  BY <1>3, <1>6, <1>7, <1>8, <1>9, <1>10 DEF PushInv

-----------------------------------------------------------------------------
(* The theorems *)

LEMMA PushInitHolds == PushInit => PushInv
<1> SUFFICES ASSUME PushInit PROVE PushInv
  OBVIOUS
<1>1. 0 \in 0..PushSize /\ 0 \in 0..MaxPushFaults /\ 0 \in 0..MaxPushRetries /\ <<>> \in Seq(Units)
      /\ <<>> \in Seq(Seq(Units))
  BY PushAssumption, EmptySeq
<1>2. NoReceiver \in Receivers /\ NoPushCall \in Handlers
  BY NobodyTyped
<1>4. PushTypeOK
  BY <1>1, <1>2 DEF PushInit, PushTypeOK, Units, Handlers
<1>5. RowsAreMade /\ CallKnowsRow /\ BlockInOrder /\ AnswerBacked /\ WorkerFollows /\ DoneIsFinalized
  BY DEF PushInit, RowsAreMade, CallKnowsRow, BlockInOrder, AnswerBacked, WorkerFollows, DoneIsFinalized,
         NoPushCall
<1>6. ConfirmedIsStaged
  <2>1. Staged(0, <<>>) /\ receiver.confirmed = 0 /\ partial = <<>>
    BY EmptySeq DEF PushInit, NoReceiver, Staged
  <2> QED
    BY <1>1, <2>1, PrefixIsStaged DEF ConfirmedIsStaged, Held
<1>7. ReplicaIntact
  BY DEF PushInit, ReplicaIntact, NoReceiver
<1> QED
  BY <1>4, <1>5, <1>6, <1>7 DEF PushInv

LEMMA PushStepKeeps == PushInv /\ [PushNext]_pushVars => PushInv'
<1> SUFFICES ASSUME PushInv, [PushNext]_pushVars PROVE PushInv'
  OBVIOUS
<1>1. CASE UNCHANGED pushVars
  <2>1. UNCHANGED <<pushJob, pushState, attempt, receiver, handler, frozen, twin, partial, toWrite, lateBlocks,
                    mingled, replica, authorized, hollow, pushFaults, pushRetries>>
    BY <1>1 DEF pushVars, staging
  <2>2. PushTypeOK' /\ CallKnowsRow' /\ WorkerFollows' /\ DoneIsFinalized'
    BY <2>1 DEF PushInv, PushTypeOK, CallKnowsRow, WorkerFollows, DoneIsFinalized, AlreadyMade
  <2> QED
    BY <2>1, <2>2, TablesKept DEF PushInv
<1>2. CASE PushNext
  BY <1>2, WorkerKeeps, AbandonKeeps, CallKeeps, CreateKeeps, CheckKeeps, ContentKeeps, FinalizeKeeps,
     StorageFailsKeeps, LateAppendKeeps, CommitKeeps, TwinKeeps, DeletedKeeps
  DEF PushNext, PushWorker, PushHandler
<1> QED
  BY <1>1, <1>2

\* However calls, lost answers, lost commits, crashes, abandoned appends that write between
\* the check and the writes of another one, twin creates, deletions and freezes interleave:
\* what Central confirms is staged, or the staged file has outgrown it; what it publishes is
\* the Site's file; and what the Site shows as synchronized was finalized, but for an answer
\* whose commit was lost and a deleted event (execute_central_push, append_staging,
\* replication_content, finalize_replication_endpoint).
THEOREM PushIsSafe == PushSpec => []PushSafe
<1>1. PushInv => PushSafe
  <2> SUFFICES ASSUME PushInv PROVE SyncedIsFinalized
    BY DEF PushInv, PushSafe, PushCoherent
  <2> QED
    BY DEF PushInv, DoneIsFinalized, SyncedIsFinalized
<1> QED
  BY <1>1, PushInitHolds, PushStepKeeps, PTL DEF PushSpec

\* Central refuses a call, with no fault in it, only for a cause that RefusalCause lists:
\* the version, the deployment, the identifier and size of a new row, a row that is not
\* committed or gone, one that another create has made, another original of the version, or
\* a staged file that does not end where the committed row says (replication_for_site,
\* create_replication, append_staging, finalize_replication).
THEOREM RefusalHasCause == PushSpec => RefusedForCause
<1> DEFINE Refusal == /\ attempt.phase \in {"create", "content", "finalize", "waiting"}
                      /\ attempt'.phase = "failed" /\ pushFaults' = pushFaults /\ ~frozen'
<1>1. ASSUME PushInv, PushNext, Refusal PROVE RefusalCause
  <2>1. /\ receiver.confirmed \in 0..PushSize /\ PushSize \in Nat
        /\ Len(SubSeq(Whole, 1, receiver.confirmed)) = receiver.confirmed
    BY <1>1, TypedRows, FirstUnits, PushAssumption DEF PushInv
  <2>2. Len(partial) # receiver.confirmed => RefusalCause
    BY <2>1 DEF RefusalCause
  <2>3. CASE CallCentral
    <3>1. handler.step = "idle" /\ (Admitted(attempt.phase, attempt.offset) => attempt'.phase = "waiting")
      BY <1>1, <2>3 DEF CallCentral, NoPushCall, PushInv, PushTypeOK
    <3>2. ~Admitted(attempt.phase, attempt.offset)
      BY <1>1, <3>1
    <3>3. CASE attempt.phase = "content" /\ attempt.offset # receiver.confirmed
      <4>1. receiver.confirmed < Len(partial)
        BY <1>1, <3>1, <3>3 DEF PushInv, WorkerFollows
      <4> QED
        BY <2>1, <2>2, <4>1
    <3>4. CASE attempt.phase = "finalize" /\ receiver.confirmed # PushSize
      <4>1. receiver.confirmed < Len(partial)
        BY <1>1, <3>1, <3>4 DEF PushInv, WorkerFollows
      <4> QED
        BY <2>1, <2>2, <4>1
    <3>5. attempt.phase \in {"create", "content", "finalize"}
      BY <2>3 DEF CallCentral
    <3> QED
      BY <3>2, <3>3, <3>4, <3>5 DEF Admitted, RefusalCause
  <2>4. CASE CallTooEarly
    BY <2>4 DEF CallTooEarly, RefusalCause
  <2>5. CASE append_staging_check
    <3>1. handler.step = "storage" /\ handler.call = "content" /\ handler.at = receiver.confirmed
      BY <1>1, <2>5 DEF append_staging_check, InStorage, PushInv, CallKnowsRow
    <3>2. Len(partial) = handler.at => attempt' = attempt
      BY <2>5 DEF append_staging_check
    <3> QED
      BY <1>1, <2>2, <3>1, <3>2
  <2>6. CASE replication_content
    <3>1. attempt' = attempt \/ attempt'.phase \in {"content", "finalize"}
      BY <2>6 DEF replication_content, PushAnswer, NextCall
    <3> QED
      BY <1>1, <3>1
  <2>7. CASE finalize_replication_endpoint
    <3>1. receiver.confirmed = PushSize /\ handler.call = "finalize"
      BY <1>1, <2>7 DEF finalize_replication_endpoint, InStorage, PushInv, CallKnowsRow
    <3>2. SubSeq(Whole, 1, receiver.confirmed) = Whole
      BY <3>1, WholeFacts, SubSeqFull
    <3>3. \/ attempt' = attempt \/ attempt'.phase = "done" \/ ~Checks \/ ~authorize_replication_context
          \/ authorized.taken
      BY <2>7 DEF finalize_replication_endpoint, PushAnswer
    <3> QED
      BY <1>1, <3>1, <3>2, <3>3 DEF Checks, RefusalCause
  <2>8. CASE create_replication
    <3>1. AlreadyMade \/ attempt' = attempt \/ attempt'.phase \in {"content", "finalize"}
      BY <2>8 DEF create_replication, PushAnswer, NextCall
    <3> QED
      BY <1>1, <3>1 DEF RefusalCause
  <2>9. CASE ClaimPush \/ CompletePush \/ FailPush \/ retry_replication
    <3>1. attempt.phase \notin {"create", "content", "finalize", "waiting"}
      BY <2>9 DEF ClaimPush, CompletePush, FailPush, retry_replication
    <3> QED
      BY <1>1, <3>1
  <2>10. CASE CallFreezes
    BY <1>1, <2>10 DEF CallFreezes
  <2>11. CASE CallBesideTwin
    <3>1. attempt' = [attempt EXCEPT !.phase = "waiting"]
      BY <2>11 DEF CallBesideTwin
    <3>2. attempt'.phase = "waiting"
      BY <1>1, <3>1, TypedRows DEF PushInv, Attempts
    <3> QED
      BY <1>1, <3>2
  <2>12. CASE CommitCall \/ LateAppend \/ ContextChanges \/ TwinCreates \/ EventDeleted
    <3>1. attempt' = attempt
      BY <2>12 DEF CommitCall, LateAppend, ContextChanges, TwinCreates, EventDeleted
    <3> QED
      BY <1>1, <3>1
  <2>13. CASE CrashPush \/ StorageFails \/ PushCommitLost \/ GiveUp \/ RestartCentral
    <3>1. pushFaults' = pushFaults + 1 /\ pushFaults \in Nat
      BY <1>1, <2>13, PushAssumption
      DEF CrashPush, StorageFails, PushCommitLost, GiveUp, RestartCentral, PushFault, PushInv, PushTypeOK
    <3> QED
      BY <1>1, <3>1
  <2> QED
    BY <1>1, <2>3, <2>4, <2>5, <2>6, <2>7, <2>8, <2>9, <2>10, <2>11, <2>12, <2>13
    DEF PushNext, PushWorker, PushHandler
<1>2. PushInv /\ [PushNext]_pushVars => [Refusal => RefusalCause]_pushVars
  BY <1>1
<1> QED
  BY <1>2, PushInitHolds, PushStepKeeps, PTL DEF PushSpec, RefusedForCause

-----------------------------------------------------------------------------
(* Imports at Central: types.                                              *)

RecordType == [state: ImportStates, match: MatchStates, sha: BOOLEAN,
               owner: Threads \cup {None}, written: BOOLEAN, committed: BOOLEAN,
               pres: Presentations \cup {None}, version: Nat]
JobType == [status: {"NONE", "SUCCEEDED", "EXHAUSTED"} \cup Active,
            owner: Workers \cup {None}, live: BOOLEAN, attempts: Nat]
Phases == {"idle", "done"} \cup StagePhases \cup WorkPhases
ThreadType == [phase: Phases, imp: Imports \cup {None}, job: JobIds \cup {None}, read: BOOLEAN,
               key: Threads \cup {None}, match: MatchStates \ {"CONFIRMED"}]

RecTyped == rec \in [Imports -> RecordType]
JobTyped == job \in [JobIds -> JobType] /\ digest \subseteq Smb
ThrTyped == thr \in [Threads -> ThreadType]
RestTyped ==
    /\ versions \in [Presentations -> Nat] /\ assets \subseteq Presentations \X Nat \X Imports
    /\ batch \in BOOLEAN /\ source \in [Smb -> {"absent", "present", "changed", "removed"}]
    /\ world \in Worlds /\ faults \in 0..world.faults /\ ops \in 0..world.ops

LEMMA TypeParts ==
    /\ TypeOK <=> RecTyped /\ JobTyped /\ ThrTyped /\ RestTyped
    /\ TypeOK' <=> RecTyped' /\ JobTyped' /\ ThrTyped' /\ RestTyped'
BY DEF TypeOK, RecTyped, JobTyped, ThrTyped, RestTyped, RecordType, JobType, ThreadType, Phases

LEMMA JobParts ==
    ASSUME NEW j \in JobIds
    PROVE  /\ j = <<j[1], j[2], j[3]>> /\ j[1] \in {"process", "rescan", "promote", "ingest", "retire"}
           /\ j[2] \in Imports /\ (j[1] = "promote" => j[3] \in Presentations)
           /\ (j[1] \in {"ingest", "retire"} => j[2] \in Smb /\ j[3] = None)
<1>1. Smb \subseteq Imports
  BY SetsAssumption
<1> QED
  BY <1>1 DEF JobIds

LEMMA JobMade ==
    /\ \A i \in Imports : <<"process", i, None>> \in JobIds /\ <<"rescan", i, None>> \in JobIds
    /\ \A i \in Smb : <<"ingest", i, None>> \in JobIds /\ <<"retire", i, None>> \in JobIds
    /\ \A i \in Imports, p \in Presentations : <<"promote", i, p>> \in JobIds
BY DEF JobIds

LEMMA WorldParts ==
    ASSUME TypeOK
    PROVE  /\ world.uploads \subseteq Uploads /\ world.workers \subseteq Workers /\ world.faults \in Nat
           /\ world.ops \in Nat /\ world.presentations \subseteq Presentations /\ world.sources \subseteq Smb
BY BoundsAssumption DEF TypeOK, World

\* Who is at work is about an import.
LEMMA AboutImport ==
    ASSUME TypeOK, ThreadsFit, NEW t \in Threads, thr[t].phase \in StagePhases \cup WorkPhases
    PROVE  thr[t].imp \in Imports
<1>1. CASE t \in Workers
  <2>1. ~At(t, "idle")
    BY DEF At, StagePhases, WorkPhases
  <2> QED
    BY <1>1, <2>1, JobParts DEF ThreadsFit
<1>2. CASE t \in Uploads
  <2>0. thr[t].phase \in {"idle", "done"} \cup StagePhases
    BY <1>2 DEF ThreadsFit
  <2>1. thr[t].phase \in StagePhases
    BY <2>0 DEF StagePhases, WorkPhases
  <2> QED
    BY <1>2, <2>1, UploadsAssumption DEF ThreadsFit
<1> QED
  BY <1>1, <1>2 DEF Threads

LEMMA WorkerFits ==
    ASSUME TypeOK, ThreadsFit, NEW w \in Workers, ~At(w, "idle")
    PROVE  /\ thr[w].job \in JobIds /\ thr[w].imp = thr[w].job[2] /\ thr[w].imp \in Imports
           /\ job[thr[w].job].status # "NONE" /\ thr[w].phase \in PhasesOf[thr[w].job[1]]
           /\ thr[w].job = <<thr[w].job[1], thr[w].imp, thr[w].job[3]>>
           /\ thr[w].job[1] \in {"process", "rescan", "promote", "ingest", "retire"}
BY JobParts DEF ThreadsFit

LEMMA FaultTyped ==
    ASSUME TypeOK, Fault \/ UNCHANGED <<faults, world>>, Operates \/ UNCHANGED <<ops, world>>
    PROVE  (world \in Worlds)' /\ (faults \in 0..world.faults)' /\ (ops \in 0..world.ops)'
BY WorldParts DEF TypeOK, Fault, Operates

\* One thread goes on.
LEMMA ThreadWritten ==
    ASSUME ThrTyped, NEW t \in Threads, NEW x \in ThreadType, thr' = [thr EXCEPT ![t] = x]
    PROVE  ThrTyped'
BY DEF ThrTyped

LEMMA GotoTyped ==
    ASSUME ThrTyped, NEW t \in Threads, NEW phase \in Phases, Goto(t, phase)
    PROVE  ThrTyped'
BY DEF ThrTyped, Goto, ThreadType

LEMMA PhaseNames ==
    /\ \A t : Return(t) \in Phases /\ Raise(t) \in Phases
    /\ StagePhases \subseteq Phases /\ WorkPhases \subseteq Phases
    /\ "idle" \in Phases /\ "done" \in Phases
BY DEF Return, Raise, Phases, StagePhases, WorkPhases

LEMMA IdleTyped == Idle \in ThreadType
BY DEF Idle, ThreadType, Phases, MatchStates

LEMMA NewJobTyped == NewJob \in JobType /\ NewJob.status = "PENDING"
BY DEF NewJob, NoJob, JobType, Active

-----------------------------------------------------------------------------
(* Imports at Central: what a step keeps.                                  *)

\* No file is assigned, a match is at most withdrawn, and a row that is locked for its
\* analysis keeps its state or goes to review.
KeepsRecords ==
    /\ RecTyped'
    /\ \A i \in Imports :
           /\ rec'[i].pres = rec[i].pres /\ rec'[i].version = rec[i].version
           /\ rec'[i].match = "CONFIRMED" => rec[i].match = "CONFIRMED"
           /\ Locked(i) => rec'[i].state \in {rec[i].state, "NEEDS_REVIEW"}

KeepsLibrary == versions' = versions /\ assets' = assets

\* A job stays, the success of an ingest stays, a promotion succeeds only with an import
\* that is assigned, and a retirement is queued only with the success of its ingest.
KeepsJobs ==
    /\ JobTyped'
    /\ \A j \in JobIds :
           /\ job[j].status # "NONE" => job'[j].status # "NONE"
           /\ j[1] = "ingest" /\ job[j].status = "SUCCEEDED" => job'[j].status = "SUCCEEDED"
           /\ j[1] = "promote" /\ job'[j].status = "SUCCEEDED" =>
                  job[j].status = "SUCCEEDED" \/ rec[j[2]].pres # None
           /\ j[1] = "retire" /\ job[j].status = "NONE" /\ job'[j].status # "NONE" =>
                  job'[<<"ingest", j[2], None>>].status = "SUCCEEDED"

\* A source is removed only after its ingest.
KeepsSources ==
    \A i \in Smb : source'[i] = "removed" =>
        source[i] = "removed" \/ job[<<"ingest", i, None>>].status = "SUCCEEDED"

WorkerPlaced(w) ==
    ~At(w, "idle") =>
        /\ thr[w].job \in JobIds /\ job[thr[w].job].status # "NONE"
        /\ thr[w].imp = thr[w].job[2] /\ thr[w].phase \in PhasesOf[thr[w].job[1]]
UploadPlaced(t) ==
    /\ thr[t].phase \in {"idle", "done"} \cup StagePhases
    /\ thr[t].phase \in StagePhases => thr[t].imp = Target[t]

\* What thread t does fits its job.
Placed(t) ==
    /\ t \in Workers => WorkerPlaced(t)
    /\ t \in Uploads => UploadPlaced(t)

HoldsAnalysis(w) == At(w, "analyzed") => rec[thr[w].imp].state \in {"STAGED", "NEEDS_REVIEW"}
HoldsPromotion(w) == At(w, "complete") /\ thr[w].job[1] = "promote" => rec[thr[w].imp].pres # None

\* Thread t moves and is where it should be; the others stay.
MoveOf(t) ==
    /\ t \in Threads /\ ThrTyped'
    /\ \A u \in Threads \ {t} : thr'[u] = thr[u]
    /\ Placed(t)'
    /\ t \in Workers => HoldsAnalysis(t)' /\ HoldsPromotion(t)'

LEMMA FitAlone ==
    /\ ThreadsFit <=> \A t \in Threads : Placed(t)
    /\ ThreadsFit' <=> \A t \in Threads : Placed(t)'
<1>1. ThreadsFit <=> (\A w \in Workers : WorkerPlaced(w)) /\ (\A t \in Uploads : UploadPlaced(t))
  BY DEF ThreadsFit, WorkerPlaced, UploadPlaced
<1>2. ThreadsFit' <=> (\A w \in Workers : WorkerPlaced(w)') /\ (\A t \in Uploads : UploadPlaced(t)')
  BY DEF ThreadsFit, WorkerPlaced, UploadPlaced
<1> QED
  BY <1>1, <1>2 DEF Threads, Placed

LEMMA AnalysisAlone ==
    /\ AnalysisHolds <=> \A w \in Workers : HoldsAnalysis(w)
    /\ AnalysisHolds' <=> \A w \in Workers : HoldsAnalysis(w)'
BY DEF AnalysisHolds, HoldsAnalysis

LEMMA PromotionAlone ==
    /\ PromotionsAssign <=> /\ \A i \in Imports : rec[i].pres # None => versions[rec[i].pres] > 0
                            /\ \A w \in Workers : HoldsPromotion(w)
    /\ PromotionsAssign' <=> /\ \A i \in Imports : rec'[i].pres # None => versions'[rec'[i].pres] > 0
                             /\ \A w \in Workers : HoldsPromotion(w)'
BY DEF PromotionsAssign, HoldsPromotion

\* The threads that stay are still where they should be.
LEMMA StaysPlaced ==
    ASSUME ImportsHonest, KeepsJobs, NEW t \in Threads, thr'[t] = thr[t]
    PROVE  Placed(t)'
<1>1. Placed(t)
  BY FitAlone DEF ImportsHonest, ImportsCoherent
<1>2. ASSUME t \in Workers
      PROVE  WorkerPlaced(t)'
  <2>1. WorkerPlaced(t)
    BY <1>1, <1>2 DEF Placed
  <2> QED
    BY <2>1 DEF WorkerPlaced, At, KeepsJobs
<1>3. ASSUME t \in Uploads
      PROVE  UploadPlaced(t)'
  BY <1>1, <1>3 DEF Placed, UploadPlaced
<1> QED
  BY <1>2, <1>3 DEF Placed

LEMMA StaysAnalysing ==
    ASSUME ImportsHonest, KeepsRecords, NEW w \in Workers, thr'[w] = thr[w]
    PROVE  HoldsAnalysis(w)'
<1> SUFFICES ASSUME At(w, "analyzed")
             PROVE  rec'[thr[w].imp].state \in {"STAGED", "NEEDS_REVIEW"}
  BY DEF HoldsAnalysis, At
<1>1. rec[thr[w].imp].state \in {"STAGED", "NEEDS_REVIEW"}
  BY DEF ImportsHonest, ImportsCoherent, AnalysisHolds
<1>2. thr[w].imp \in Imports
  BY WorkerFits DEF ImportsHonest, ImportsCoherent, At
<1>3. Locked(thr[w].imp)
  BY DEF Locked
<1> QED
  BY <1>1, <1>2, <1>3 DEF KeepsRecords

LEMMA StaysPromoted ==
    ASSUME ImportsHonest, \A i \in Imports : rec[i].pres # None => rec'[i].pres # None,
           NEW w \in Workers, thr'[w] = thr[w]
    PROVE  HoldsPromotion(w)'
<1> SUFFICES ASSUME At(w, "complete"), thr[w].job[1] = "promote"
             PROVE  rec'[thr[w].imp].pres # None
  BY DEF HoldsPromotion, At
<1>1. rec[thr[w].imp].pres # None
  BY DEF ImportsHonest, ImportsCoherent, PromotionsAssign
<1>2. thr[w].imp \in Imports
  BY WorkerFits DEF ImportsHonest, ImportsCoherent, At
<1> QED
  BY <1>1, <1>2

\* A step in which nothing is assigned.
LEMMA QuietStep ==
    ASSUME ImportsHonest, KeepsRecords, KeepsLibrary, KeepsJobs, KeepsSources, RestTyped',
           thr' = thr \/ \E t \in Threads : MoveOf(t)
    PROVE  ImportsHonest'
<1>0. /\ TypeOK /\ ThreadsFit /\ AnalysisHolds /\ PromotionsAssign /\ RetirementsFollow
      /\ OneOriginalEach /\ SucceededIsAssigned /\ RetiredWasIngested
  BY DEF ImportsHonest, ImportsCoherent
<1>1. ThrTyped'
  BY <1>0, TypeParts DEF MoveOf, ThrTyped
<1>2. TypeOK'
  BY <1>1, TypeParts DEF KeepsRecords, KeepsJobs
<1>3. \A t \in Threads : Placed(t)'
  BY StaysPlaced DEF MoveOf
<1>4. \A w \in Workers : HoldsAnalysis(w)'
  BY StaysAnalysing DEF MoveOf, Threads
<1>5. \A i \in Imports : rec[i].pres # None => rec'[i].pres # None
  BY DEF KeepsRecords
<1>6. \A w \in Workers : HoldsPromotion(w)'
  BY <1>5, StaysPromoted DEF MoveOf, Threads
<1>7. \A i \in Imports : rec'[i].pres # None => versions'[rec'[i].pres] > 0
  BY <1>0 DEF PromotionsAssign, KeepsRecords, KeepsLibrary
<1>8. PromotionsAssign'
  BY <1>6, <1>7, PromotionAlone
<1>9. RetirementsFollow'
  <2> SUFFICES ASSUME NEW i \in Smb, job'[<<"retire", i, None>>].status # "NONE"
               PROVE  job'[<<"ingest", i, None>>].status = "SUCCEEDED"
    BY DEF RetirementsFollow
  <2> DEFINE r == <<"retire", i, None>>
             g == <<"ingest", i, None>>
  <2>1. r \in JobIds /\ r[1] = "retire" /\ r[2] = i /\ g \in JobIds /\ g[1] = "ingest"
    BY JobMade
  <2>2. job[r].status # "NONE" => job[g].status = "SUCCEEDED"
    BY <1>0 DEF RetirementsFollow
  <2> HIDE DEF r
  <2> QED
    BY <2>1, <2>2 DEF KeepsJobs, r
<1>10. OneOriginalEach'
  BY <1>0 DEF OneOriginalEach, KeepsRecords, KeepsLibrary
<1>11. SucceededIsAssigned'
  <2> SUFFICES ASSUME NEW j \in JobIds, j[1] = "promote", job'[j].status = "SUCCEEDED"
               PROVE  rec'[j[2]].pres # None
    BY <1>7, JobParts DEF SucceededIsAssigned
  <2>1. j[2] \in Imports /\ rec[j[2]].pres # None
    BY <1>0, JobParts DEF SucceededIsAssigned, KeepsJobs
  <2> QED
    BY <1>5, <2>1
<1>12. RetiredWasIngested'
  BY <1>0, JobMade DEF RetiredWasIngested, KeepsSources, KeepsJobs
<1>13. ThreadsFit' /\ AnalysisHolds'
  BY <1>3, <1>4, FitAlone, AnalysisAlone
<1> QED
  BY <1>2, <1>8, <1>9, <1>10, <1>11, <1>12, <1>13 DEF ImportsHonest, ImportsCoherent

\* Who goes on with its job.
GoesOn(t, x) ==
    /\ x \in ThreadType /\ x.imp = thr[t].imp /\ x.job = thr[t].job
    /\ thr' = [thr EXCEPT ![t] = x]

LEMMA PhaseGoesOn ==
    ASSUME TypeOK, NEW t \in Threads, NEW phase \in Phases, Goto(t, phase)
    PROVE  GoesOn(t, [thr[t] EXCEPT !.phase = phase])
BY TypeParts DEF ThrTyped, ThreadType, Goto, GoesOn

LEMMA WorkerMoves ==
    ASSUME ImportsHonest, KeepsJobs, NEW w \in Workers, ~At(w, "idle"), NEW x, GoesOn(w, x),
           x.phase \in PhasesOf[thr[w].job[1]], HoldsAnalysis(w)', HoldsPromotion(w)'
    PROVE  MoveOf(w)
<1>0. TypeOK /\ ThreadsFit /\ ThrTyped /\ w \in Threads /\ w \notin Uploads
  BY TypeParts, UploadsAssumption DEF ImportsHonest, ImportsCoherent, Threads
<1>1. ThrTyped' /\ thr'[w] = x /\ \A u \in Threads \ {w} : thr'[u] = thr[u]
  BY <1>0 DEF GoesOn, ThrTyped
<1>2. WorkerPlaced(w)'
  BY <1>0, <1>1, WorkerFits DEF WorkerPlaced, At, GoesOn, KeepsJobs
<1> QED
  BY <1>0, <1>1, <1>2 DEF MoveOf, Placed

LEMMA WorkerRests ==
    ASSUME ImportsHonest, NEW w \in Workers, thr' = [thr EXCEPT ![w] = Idle]
    PROVE  MoveOf(w)
<1>0. TypeOK /\ ThreadsFit /\ ThrTyped /\ w \in Threads /\ w \notin Uploads
  BY TypeParts, UploadsAssumption DEF ImportsHonest, ImportsCoherent, Threads
<1>1. ThrTyped' /\ thr'[w] = Idle /\ \A u \in Threads \ {w} : thr'[u] = thr[u]
  BY <1>0, IdleTyped DEF ThrTyped
<1>2. At(w, "idle")' /\ ~At(w, "analyzed")' /\ ~At(w, "complete")'
  BY <1>1 DEF At, Idle
<1> QED
  BY <1>0, <1>1, <1>2 DEF MoveOf, Placed, WorkerPlaced, HoldsAnalysis, HoldsPromotion

\* A worker that stages has an ingest job.
LEMMA StagerIngests ==
    ASSUME TypeOK, ThreadsFit, NEW w \in Workers, thr[w].phase \in StagePhases
    PROVE  thr[w].job[1] = "ingest"
<1>1. ~At(w, "idle")
  BY DEF At, StagePhases
<1>2. /\ thr[w].job[1] \in {"process", "rescan", "promote", "ingest", "retire"}
      /\ thr[w].phase \in PhasesOf[thr[w].job[1]]
  BY <1>1, WorkerFits
<1> QED
  BY <1>2 DEF PhasesOf, StagePhases

LEMMA StagerMoves ==
    ASSUME ImportsHonest, KeepsJobs, NEW t \in Threads, thr[t].phase \in StagePhases,
           NEW x, GoesOn(t, x), x.phase \in StagePhases \cup {Return(t), Raise(t)}
    PROVE  MoveOf(t)
<1>0. TypeOK /\ ThreadsFit /\ ThrTyped
  BY TypeParts DEF ImportsHonest, ImportsCoherent
<1>1. ThrTyped' /\ thr'[t] = x /\ \A u \in Threads \ {t} : thr'[u] = thr[u]
  BY <1>0 DEF GoesOn, ThrTyped
<1>2. CASE t \in Workers
  <2>1. thr[t].job[1] = "ingest" /\ x.job[1] = "ingest"
    BY <1>0, <1>2, StagerIngests DEF GoesOn
  <2>2. x.phase \in PhasesOf[thr[t].job[1]]
    BY <1>2, <2>1 DEF PhasesOf, Return, Raise
  <2>3. HoldsAnalysis(t)' /\ HoldsPromotion(t)'
    BY <1>1, <1>2, <2>1 DEF HoldsAnalysis, HoldsPromotion, At, Return, Raise, StagePhases
  <2>4. ~At(t, "idle")
    BY DEF At, StagePhases
  <2> QED
    BY <1>2, <2>2, <2>3, <2>4, WorkerMoves
<1>3. CASE t \in Uploads
  <2>1. t \notin Workers
    BY <1>3, UploadsAssumption
  <2>2. x.phase \in {"idle", "done"} \cup StagePhases
    BY <2>1 DEF Return, Raise
  <2>3. thr[t].imp = Target[t]
    BY <1>0, <1>3 DEF ThreadsFit
  <2>4. UploadPlaced(t)'
    BY <1>1, <2>2, <2>3 DEF UploadPlaced, GoesOn
  <2> QED
    BY <1>1, <2>1, <2>4 DEF MoveOf, Placed
<1> QED
  BY <1>2, <1>3 DEF Threads

LEMMA RestStays ==
    ASSUME TypeOK, versions' = versions, assets' = assets, batch' \in BOOLEAN, source' = source,
           Fault \/ UNCHANGED <<faults, world>>, Operates \/ UNCHANGED <<ops, world>>
    PROVE  RestTyped' /\ KeepsLibrary /\ KeepsSources
<1>1. (world \in Worlds)' /\ (faults \in 0..world.faults)' /\ (ops \in 0..world.ops)'
  BY FaultTyped
<1> QED
  BY <1>1 DEF TypeOK, RestTyped, KeepsLibrary, KeepsSources

LEMMA RecordsStay ==
    ASSUME TypeOK, rec' = rec
    PROVE  KeepsRecords
BY TypeParts DEF KeepsRecords, RecTyped

LEMMA JobsStay ==
    ASSUME TypeOK, job' = job, digest' = digest
    PROVE  KeepsJobs
BY TypeParts DEF KeepsJobs, JobTyped

\* One record is written.
LEMMA RecordWritten ==
    ASSUME TypeOK, NEW i \in Imports, NEW r \in RecordType, rec' = [rec EXCEPT ![i] = r],
           r.pres = rec[i].pres, r.version = rec[i].version,
           r.match = "CONFIRMED" => rec[i].match = "CONFIRMED",
           Locked(i) => r.state \in {rec[i].state, "NEEDS_REVIEW"}
    PROVE  KeepsRecords
<1>1. rec \in [Imports -> RecordType]
  BY TypeParts DEF RecTyped
<1>2. RecTyped'
  BY <1>1 DEF RecTyped
<1> QED
  BY <1>1, <1>2 DEF KeepsRecords

\* One job is written.
LEMMA JobWritten ==
    ASSUME TypeOK, NEW j \in JobIds, NEW x \in JobType, job' = [job EXCEPT ![j] = x], digest' = digest,
           x.status # "NONE",
           j[1] = "ingest" /\ job[j].status = "SUCCEEDED" => x.status = "SUCCEEDED",
           j[1] = "promote" /\ x.status = "SUCCEEDED" => job[j].status = "SUCCEEDED",
           j[1] = "retire" => job[j].status # "NONE"
    PROVE  KeepsJobs
<1>1. job \in [JobIds -> JobType] /\ digest \subseteq Smb
  BY TypeParts DEF JobTyped
<1>2. JobTyped'
  BY <1>1 DEF JobTyped
<1> QED
  BY <1>1, <1>2 DEF KeepsJobs

-----------------------------------------------------------------------------
(* Imports at Central: the transactions of stage().                        *)

LEMMA CheckExistingKeeps ==
    ASSUME ImportsHonest, NEW t \in Threads, CheckExisting(t)
    PROVE  ImportsHonest'
<1>0. TypeOK /\ ThreadsFit /\ ThrTyped /\ RecTyped
  BY TypeParts DEF ImportsHonest, ImportsCoherent
<1> USE DEF CheckExisting
<1>1. thr[t].phase = "check" /\ thr[t].phase \in StagePhases
  BY DEF At, StagePhases
<1>2. thr[t].imp \in Imports
  BY <1>0, <1>1, AboutImport
<1> DEFINE r == rec[thr[t].imp]
           p == IF r.state \in {"NONE", "FAILED"} THEN "register" ELSE Return(t)
           b == IF r.state \in {"NONE", "FAILED"} THEN r.state = "FAILED" ELSE r.sha
           x == [thr[t] EXCEPT !.phase = p, !.read = b]
<1>3. p \in Phases /\ b \in BOOLEAN
  BY <1>0, <1>2, PhaseNames DEF RecTyped, RecordType, StagePhases
<1>4. thr' = [thr EXCEPT ![t] = x]
  BY <1>0 DEF ThrTyped, ThreadType
<1> HIDE DEF p, b
<1>5. GoesOn(t, x) /\ x.phase = p
  <2>1. thr[t] \in ThreadType
    BY <1>0 DEF ThrTyped
  <2>2. x \in ThreadType /\ x.imp = thr[t].imp /\ x.job = thr[t].job /\ x.phase = p
    BY <1>3, <2>1 DEF ThreadType
  <2> QED
    BY <1>4, <2>2 DEF GoesOn
<1>6. p \in StagePhases \cup {Return(t), Raise(t)}
  BY DEF p, StagePhases
<1>7. KeepsRecords /\ KeepsJobs
  BY <1>0, RecordsStay, JobsStay DEF queue
<1>8. RestTyped' /\ KeepsLibrary /\ KeepsSources
  BY <1>0, RestStays DEF library, bounds, TypeOK
<1>9. MoveOf(t)
  BY <1>1, <1>5, <1>6, <1>7, StagerMoves
<1> QED
  BY <1>7, <1>8, <1>9, QuietStep

LEMMA AllocationFailsKeeps ==
    ASSUME ImportsHonest, NEW t \in Threads, AllocationFails(t)
    PROVE  ImportsHonest'
<1>0. TypeOK /\ ThreadsFit
  BY DEF ImportsHonest, ImportsCoherent
<1> USE DEF AllocationFails
<1>1. thr[t].phase \in StagePhases
  BY DEF At, StagePhases
<1>2. GoesOn(t, [thr[t] EXCEPT !.phase = Raise(t)])
  BY <1>0, PhaseGoesOn, PhaseNames
<1>3. KeepsRecords /\ KeepsJobs
  BY <1>0, RecordsStay, JobsStay DEF queue
<1>4. RestTyped' /\ KeepsLibrary /\ KeepsSources
  BY <1>0, RestStays DEF library, TypeOK, Fault
<1>5. [thr[t] EXCEPT !.phase = Raise(t)].phase = Raise(t)
  BY <1>0 DEF TypeOK
<1>6. MoveOf(t)
  BY <1>1, <1>2, <1>3, <1>5, StagerMoves
<1> QED
  BY <1>3, <1>4, <1>6, QuietStep

LEMMA RegisterKeeps ==
    ASSUME ImportsHonest, NEW t \in Threads, Register(t)
    PROVE  ImportsHonest'
<1>0. TypeOK /\ ThreadsFit /\ RecTyped
  BY TypeParts DEF ImportsHonest, ImportsCoherent
<1> DEFINE i == thr[t].imp
           taken == [rec[i] EXCEPT !.state = "UPLOADING", !.owner = t, !.written = FALSE,
                                   !.committed = FALSE]
<1>1. thr[t].phase \in StagePhases
  BY DEF At, StagePhases, Register
<1>2. i \in Imports
  BY <1>0, <1>1, AboutImport
<1>3. taken \in RecordType /\ taken.pres = rec[i].pres /\ taken.version = rec[i].version
      /\ taken.match = rec[i].match
  <2>1. rec[i] \in RecordType
    BY <1>0, <1>2 DEF RecTyped
  <2>2. "UPLOADING" \in ImportStates /\ t \in Threads \cup {None}
    BY DEF ImportStates
  <2> QED
    BY <2>1, <2>2 DEF RecordType
<1>4. ~Locked(i) /\ (rec' = rec \/ rec' = [rec EXCEPT ![i] = taken])
  BY DEF Register
<1> HIDE DEF taken
<1>5. KeepsRecords
  BY <1>0, <1>2, <1>3, <1>4, RecordsStay, RecordWritten
<1>6. KeepsJobs
  BY <1>0, JobsStay DEF queue, Register
<1>7. RestTyped' /\ KeepsLibrary /\ KeepsSources
  BY <1>0, RestStays DEF library, TypeOK, Register, bounds
<1>8. PICK phase \in StagePhases \cup {Return(t), Raise(t)} : Goto(t, phase)
  BY DEF Register, StagePhases
<1>9. GoesOn(t, [thr[t] EXCEPT !.phase = phase]) /\ [thr[t] EXCEPT !.phase = phase].phase = phase
  BY <1>0, <1>8, PhaseGoesOn, PhaseNames DEF TypeOK
<1>10. MoveOf(t)
  BY <1>1, <1>6, <1>9, StagerMoves
<1> QED
  BY <1>5, <1>6, <1>7, <1>10, QuietStep

LEMMA WriteStagingKeeps ==
    ASSUME ImportsHonest, NEW t \in Threads, write_staging(t)
    PROVE  ImportsHonest'
<1>0. TypeOK /\ ThreadsFit /\ RecTyped
  BY TypeParts DEF ImportsHonest, ImportsCoherent
<1> DEFINE i == thr[t].imp
           b == rec[i].written \/ rec[i].owner = t
           r == [rec[i] EXCEPT !.written = b]
<1>1. thr[t].phase \in StagePhases
  BY DEF At, StagePhases, write_staging
<1>2. i \in Imports
  BY <1>0, <1>1, AboutImport
<1>3. r \in RecordType /\ r.pres = rec[i].pres /\ r.version = rec[i].version
      /\ r.match = rec[i].match /\ r.state = rec[i].state
  BY <1>0, <1>2 DEF RecTyped, RecordType
<1>4. rec' = [rec EXCEPT ![i] = r]
  BY <1>0, <1>2 DEF RecTyped, RecordType, write_staging
<1> HIDE DEF r, b, i
<1>5. KeepsRecords
  BY <1>0, <1>2, <1>3, <1>4, RecordWritten
<1>6. KeepsJobs
  BY <1>0, JobsStay DEF queue, write_staging
<1>7. RestTyped' /\ KeepsLibrary /\ KeepsSources
  BY <1>0, RestStays DEF library, TypeOK, bounds, write_staging
<1>8. "finish" \in StagePhases /\ Goto(t, "finish")
  BY DEF StagePhases, write_staging
<1>9. GoesOn(t, [thr[t] EXCEPT !.phase = "finish"]) /\ [thr[t] EXCEPT !.phase = "finish"].phase = "finish"
  BY <1>0, <1>8, PhaseGoesOn, PhaseNames DEF TypeOK
<1>10. MoveOf(t)
  BY <1>1, <1>6, <1>8, <1>9, StagerMoves
<1> QED
  BY <1>5, <1>6, <1>7, <1>10, QuietStep

LEMMA UploadFailsKeeps ==
    ASSUME ImportsHonest, NEW t \in Threads, UploadFails(t)
    PROVE  ImportsHonest'
<1>0. TypeOK /\ ThreadsFit /\ RecTyped
  BY TypeParts DEF ImportsHonest, ImportsCoherent
<1> USE DEF UploadFails
<1> DEFINE i == thr[t].imp
           r == [rec[i] EXCEPT !.state = "FAILED"]
<1>1. thr[t].phase \in StagePhases
  BY DEF At, StagePhases
<1>2. i \in Imports
  BY <1>0, <1>1, AboutImport
<1>3. r \in RecordType /\ r.pres = rec[i].pres /\ r.version = rec[i].version
      /\ r.match = rec[i].match
  BY <1>0, <1>2 DEF RecTyped, RecordType, ImportStates
<1>4. rec' = [rec EXCEPT ![i] = r] /\ ~Locked(i)
  BY <1>0, <1>2 DEF RecTyped, RecordType
<1> HIDE DEF r
<1>5. KeepsRecords
  BY <1>0, <1>2, <1>3, <1>4, RecordWritten
<1>6. KeepsJobs
  BY <1>0, JobsStay DEF queue
<1>7. RestTyped' /\ KeepsLibrary /\ KeepsSources
  <2>1. /\ versions' = versions /\ assets' = assets /\ batch' \in BOOLEAN /\ source' = source
        /\ Fault \/ UNCHANGED <<faults, world>>
        /\ UNCHANGED <<ops, world>>
    BY <1>0 DEF library, TypeOK, Fault
  <2> QED
    BY <1>0, <2>1, RestStays
<1>8. Goto(t, Raise(t))
  OBVIOUS
<1>9. GoesOn(t, [thr[t] EXCEPT !.phase = Raise(t)]) /\ [thr[t] EXCEPT !.phase = Raise(t)].phase = Raise(t)
  BY <1>0, <1>8, PhaseGoesOn, PhaseNames DEF TypeOK
<1>10. MoveOf(t)
  BY <1>1, <1>6, <1>9, StagerMoves
<1> QED
  BY <1>5, <1>6, <1>7, <1>10, QuietStep

LEMMA FinishUploadKeeps ==
    ASSUME ImportsHonest, NEW t \in Threads, FinishUpload(t)
    PROVE  ImportsHonest'
<1>0. TypeOK /\ ThreadsFit /\ RecTyped /\ ThrTyped
  BY TypeParts DEF ImportsHonest, ImportsCoherent
<1> DEFINE i == thr[t].imp
           j == <<"process", i, None>>
           r == [rec[i] EXCEPT !.state = "STAGED", !.sha = TRUE]
           x == [thr[t] EXCEPT !.phase = Return(t), !.read = TRUE]
<1>1. thr[t].phase \in StagePhases
  BY DEF At, StagePhases, FinishUpload
<1>2. i \in Imports
  BY <1>0, <1>1, AboutImport
<1>3. RestTyped' /\ KeepsLibrary /\ KeepsSources
  <2>1. /\ versions' = versions /\ assets' = assets /\ batch' \in BOOLEAN /\ source' = source
        /\ Fault \/ UNCHANGED <<faults, world>>
        /\ UNCHANGED <<ops, world>>
    BY <1>0 DEF library, TypeOK, Fault, FinishUpload
  <2> QED
    BY <1>0, <2>1, RestStays
<1>4. CASE /\ job[j].status = "NONE" /\ rec' = [rec EXCEPT ![i].state = "STAGED", ![i].sha = TRUE]
           /\ job' = [job EXCEPT ![j] = NewJob]
           /\ thr' = [thr EXCEPT ![t].phase = Return(t), ![t].read = TRUE]
  <2>1. r \in RecordType /\ r.pres = rec[i].pres /\ r.version = rec[i].version
        /\ r.match = rec[i].match
    BY <1>0, <1>2 DEF RecTyped, RecordType, ImportStates
  <2>2. rec' = [rec EXCEPT ![i] = r] /\ ~Locked(i)
    BY <1>0, <1>2, <1>4 DEF RecTyped, RecordType, FinishUpload
  <2>3. thr' = [thr EXCEPT ![t] = x]
    BY <1>0, <1>4 DEF ThrTyped, ThreadType
  <2>4. x \in ThreadType /\ x.imp = thr[t].imp /\ x.job = thr[t].job /\ x.phase = Return(t)
    <3>1. thr[t] \in ThreadType /\ Return(t) \in Phases
      BY <1>0, PhaseNames DEF ThrTyped
    <3> QED
      BY <3>1 DEF ThreadType
  <2>5. digest' = digest /\ j \in JobIds /\ j[1] = "process"
    BY <1>2, JobMade DEF FinishUpload
  <2> HIDE DEF r, x, i, j
  <2>6. KeepsRecords
    BY <1>0, <1>2, <2>1, <2>2, RecordWritten
  <2>7. KeepsJobs
    BY <1>0, <1>4, <2>5, NewJobTyped, JobWritten
  <2>8. MoveOf(t)
    BY <1>1, <2>3, <2>4, <2>7, StagerMoves DEF GoesOn
  <2> QED
    BY <1>3, <2>6, <2>7, <2>8, QuietStep
<1>5. CASE rec' = rec /\ job' = job /\ Goto(t, "recover")
  <2>1. digest' = digest
    BY DEF FinishUpload
  <2>2. KeepsRecords /\ KeepsJobs
    BY <1>0, <1>5, <2>1, RecordsStay, JobsStay
  <2>3. GoesOn(t, [thr[t] EXCEPT !.phase = "recover"]) /\ [thr[t] EXCEPT !.phase = "recover"].phase = "recover"
    BY <1>0, <1>5, PhaseGoesOn, PhaseNames DEF TypeOK, StagePhases
  <2>4. "recover" \in StagePhases
    BY DEF StagePhases
  <2>5. MoveOf(t)
    BY <1>1, <2>2, <2>3, <2>4, StagerMoves
  <2> QED
    BY <1>3, <2>2, <2>5, QuietStep
<1> QED
  BY <1>4, <1>5 DEF FinishUpload

LEMMA RecoverUploadKeeps ==
    ASSUME ImportsHonest, NEW t \in Threads, RecoverUpload(t)
    PROVE  ImportsHonest'
<1>0. TypeOK /\ ThreadsFit /\ RecTyped /\ ThrTyped
  BY TypeParts DEF ImportsHonest, ImportsCoherent
<1> DEFINE i == thr[t].imp
           r == [rec[i] EXCEPT !.state = "NEEDS_REVIEW", !.match = "UNMATCHED", !.sha = TRUE]
           x == [thr[t] EXCEPT !.phase = Return(t), !.read = TRUE]
<1>1. thr[t].phase \in StagePhases
  BY DEF At, StagePhases, RecoverUpload
<1>2. i \in Imports
  BY <1>0, <1>1, AboutImport
<1>3. RestTyped' /\ KeepsLibrary /\ KeepsSources
  BY <1>0, RestStays DEF library, TypeOK, bounds, RecoverUpload
<1>4. r \in RecordType /\ r.pres = rec[i].pres /\ r.version = rec[i].version
      /\ r.match = "UNMATCHED"
  <2>1. rec[i] \in RecordType /\ "NEEDS_REVIEW" \in ImportStates /\ "UNMATCHED" \in MatchStates
    BY <1>0, <1>2 DEF RecTyped, ImportStates, MatchStates
  <2> QED
    BY <2>1 DEF RecordType
<1>5. rec' = [rec EXCEPT ![i] = r] /\ ~Locked(i)
  BY <1>0, <1>2 DEF RecTyped, RecordType, RecoverUpload
<1>6. thr' = [thr EXCEPT ![t] = x]
  BY <1>0 DEF ThrTyped, ThreadType, RecoverUpload
<1>7. x \in ThreadType /\ x.imp = thr[t].imp /\ x.job = thr[t].job /\ x.phase = Return(t)
  <2>1. thr[t] \in ThreadType /\ Return(t) \in Phases
    BY <1>0, PhaseNames DEF ThrTyped
  <2> QED
    BY <2>1 DEF ThreadType
<1>8. KeepsJobs
  BY <1>0, JobsStay DEF queue, RecoverUpload
<1> HIDE DEF r, x, i
<1>9. KeepsRecords
  BY <1>0, <1>2, <1>4, <1>5, RecordWritten
<1>10. MoveOf(t)
  BY <1>1, <1>6, <1>7, <1>8, StagerMoves DEF GoesOn
<1> QED
  BY <1>3, <1>8, <1>9, <1>10, QuietStep

LEMMA StageKeeps ==
    ASSUME ImportsHonest, NEW t \in Threads, Stage(t)
    PROVE  ImportsHonest'
BY CheckExistingKeeps, AllocationFailsKeeps, RegisterKeeps, WriteStagingKeeps, UploadFailsKeeps,
   FinishUploadKeeps, RecoverUploadKeeps DEF Stage

LEMMA KillKeeps ==
    ASSUME ImportsHonest, NEW t \in Threads, Kill(t)
    PROVE  ImportsHonest'
<1>0. TypeOK /\ ThreadsFit /\ ThrTyped
  BY TypeParts DEF ImportsHonest, ImportsCoherent
<1>1. RestTyped' /\ KeepsLibrary /\ KeepsSources
  BY <1>0, RestStays DEF library, TypeOK, Fault, Kill
<1>2. KeepsJobs /\ KeepsRecords
  BY <1>0, JobsStay, RecordsStay DEF queue, Kill
<1>3. CASE t \in Workers
  <2>1. thr' = [thr EXCEPT ![t] = Idle]
    BY <1>3 DEF Kill
  <2> QED
    BY <1>1, <1>2, <1>3, <2>1, WorkerRests, QuietStep
<1>4. CASE t \notin Workers
  <2>1. t \in Uploads
    BY <1>4 DEF Threads
  <2>2. thr[t].phase \in {"idle", "done"} \cup StagePhases
    BY <1>0, <2>1 DEF ThreadsFit
  <2>3. thr[t].phase \in StagePhases
    BY <2>2 DEF Kill, StagePhases, WorkPhases
  <2>4. Goto(t, "done") /\ Return(t) = "done"
    BY <1>0, <1>4 DEF Kill, Goto, ThrTyped, ThreadType, Return
  <2>5. GoesOn(t, [thr[t] EXCEPT !.phase = "done"]) /\ [thr[t] EXCEPT !.phase = "done"].phase = "done"
    BY <1>0, <2>4, PhaseGoesOn, PhaseNames DEF TypeOK
  <2>6. MoveOf(t)
    BY <1>2, <2>3, <2>4, <2>5, StagerMoves
  <2> QED
    BY <1>1, <1>2, <2>6, QuietStep
<1> QED
  BY <1>3, <1>4

-----------------------------------------------------------------------------
(* Imports at Central: the queue and the handlers.                         *)

\* The phase of a worker tells the kind of its job.
LEMMA PhaseTells ==
    ASSUME TypeOK, ThreadsFit, NEW w \in Workers
    PROVE  /\ thr[w].phase \in {"analyze", "analyzed", "unanalyzed"} => thr[w].job[1] \in {"process", "rescan"}
           /\ thr[w].phase \in {"promote", "repair", "commit", "assign"} => thr[w].job[1] = "promote"
           /\ At(w, "observe") => thr[w].job[1] = "ingest"
           /\ At(w, "retire") => thr[w].job[1] = "retire"
<1>1. CASE At(w, "idle")
  BY <1>1 DEF At
<1>2. CASE ~At(w, "idle")
  <2>1. /\ thr[w].job[1] \in {"process", "rescan", "promote", "ingest", "retire"}
        /\ thr[w].phase \in PhasesOf[thr[w].job[1]]
    BY <1>2, WorkerFits
  <2> QED
    BY <2>1 DEF PhasesOf, StagePhases, At
<1> QED
  BY <1>1, <1>2

LEMMA WorkerGoes ==
    ASSUME ImportsHonest, KeepsJobs, NEW w \in Workers, ~At(w, "idle"),
           NEW phase \in PhasesOf[thr[w].job[1]], Goto(w, phase), phase # "analyzed",
           phase = "complete" => thr[w].job[1] # "promote"
    PROVE  MoveOf(w)
<1>0. TypeOK /\ ThreadsFit /\ ThrTyped /\ w \in Threads
  BY TypeParts DEF ImportsHonest, ImportsCoherent, Threads
<1>1. phase \in Phases
  <2>1. thr[w].job[1] \in {"process", "rescan", "promote", "ingest", "retire"}
    BY <1>0, WorkerFits
  <2> QED
    BY <2>1 DEF PhasesOf, Phases, StagePhases, WorkPhases
<1> DEFINE x == [thr[w] EXCEPT !.phase = phase]
<1>2. GoesOn(w, x) /\ x.phase = phase /\ x.job = thr[w].job /\ thr'[w] = x
  BY <1>0, <1>1, PhaseGoesOn DEF ThrTyped, ThreadType, GoesOn
<1>3. HoldsAnalysis(w)' /\ HoldsPromotion(w)'
  BY <1>2 DEF HoldsAnalysis, HoldsPromotion, At
<1> QED
  BY <1>2, <1>3, WorkerMoves

LEMMA ClaimKeeps ==
    ASSUME ImportsHonest, NEW w \in Workers, NEW j \in JobIds, _claim(w, j)
    PROVE  ImportsHonest'
<1>0. TypeOK /\ ThreadsFit /\ ThrTyped /\ JobTyped /\ w \in Threads /\ w \notin Uploads
  BY TypeParts, UploadsAssumption DEF ImportsHonest, ImportsCoherent, Threads
<1> DEFINE n == [status |-> "RUNNING", owner |-> w, live |-> TRUE, attempts |-> job[j].attempts + 1]
           x == [Idle EXCEPT !.phase = FirstPhase[j[1]], !.imp = j[2], !.job = j]
<1>1. RestTyped' /\ KeepsLibrary /\ KeepsSources
  BY <1>0, RestStays DEF library, TypeOK, bounds, _claim
<1>2. KeepsRecords
  BY <1>0, RecordsStay DEF _claim
<1>3. n \in JobType /\ n.status = "RUNNING" /\ job[j].status \in {"PENDING", "RETRY_WAIT", "RUNNING"}
  BY <1>0 DEF JobTyped, JobType, Active, _claim, Claimable
<1>4. job' = [job EXCEPT ![j] = n] /\ digest' = digest /\ thr' = [thr EXCEPT ![w] = x]
  BY <1>0 DEF JobTyped, _claim
<1>5. j[1] \in {"process", "rescan", "promote", "ingest", "retire"} /\ j[2] \in Imports
  BY JobParts
<1>6. FirstPhase[j[1]] \in PhasesOf[j[1]] \ {"analyzed", "complete", "idle"}
  BY <1>5 DEF FirstPhase, PhasesOf, StagePhases
<1>7. FirstPhase[j[1]] \in Phases
  BY <1>5 DEF FirstPhase, Phases, WorkPhases
<1>8. x \in ThreadType /\ x.phase = FirstPhase[j[1]] /\ x.imp = j[2] /\ x.job = j
  BY <1>5, <1>7 DEF ThreadType, Idle, MatchStates
<1> HIDE DEF n, x
<1>9. KeepsJobs
  BY <1>0, <1>3, <1>4, JobWritten
<1>10. thr'[w] = x /\ ThrTyped' /\ \A u \in Threads \ {w} : thr'[u] = thr[u]
  BY <1>0, <1>4, <1>8 DEF ThrTyped
<1>11. job'[j].status # "NONE"
  BY <1>3, <1>9 DEF KeepsJobs
<1>12. WorkerPlaced(w)'
  BY <1>6, <1>8, <1>10, <1>11 DEF WorkerPlaced
<1>13. HoldsAnalysis(w)' /\ HoldsPromotion(w)'
  BY <1>6, <1>8, <1>10 DEF HoldsAnalysis, HoldsPromotion, At
<1>14. MoveOf(w)
  BY <1>0, <1>10, <1>12, <1>13 DEF MoveOf, Placed
<1> QED
  BY <1>0, <1>1, <1>2, <1>9, <1>14, QuietStep

LEMMA LeaseExpiresKeeps ==
    ASSUME ImportsHonest, NEW j \in JobIds, LeaseExpires(j)
    PROVE  ImportsHonest'
<1>0. TypeOK /\ JobTyped
  BY TypeParts DEF ImportsHonest
<1> DEFINE n == [job[j] EXCEPT !.live = FALSE]
<1>1. RestTyped' /\ KeepsLibrary /\ KeepsSources
  <2>1. /\ versions' = versions /\ assets' = assets /\ batch' \in BOOLEAN /\ source' = source
        /\ Fault \/ UNCHANGED <<faults, world>>
        /\ UNCHANGED <<ops, world>>
    BY <1>0 DEF library, TypeOK, Fault, LeaseExpires
  <2> QED
    BY <1>0, <2>1, RestStays
<1>2. KeepsRecords /\ thr' = thr
  BY <1>0, RecordsStay DEF LeaseExpires
<1>3. n \in JobType /\ n.status = "RUNNING" /\ job[j].status = "RUNNING"
  BY <1>0 DEF JobTyped, JobType, LeaseExpires
<1>4. job' = [job EXCEPT ![j] = n] /\ digest' = digest
  BY <1>0 DEF JobTyped, LeaseExpires
<1> HIDE DEF n
<1>5. KeepsJobs
  BY <1>0, <1>3, <1>4, JobWritten
<1> QED
  BY <1>1, <1>2, <1>5, QuietStep

LEMMA FailKeeps ==
    ASSUME ImportsHonest, NEW w \in Workers, fail(w)
    PROVE  ImportsHonest'
<1>0. TypeOK /\ ThreadsFit /\ JobTyped /\ w \in Threads
  BY TypeParts DEF ImportsHonest, ImportsCoherent, Threads
<1> DEFINE j == thr[w].job
           status == IF job[j].attempts < MaxAttempts THEN "RETRY_WAIT" ELSE "EXHAUSTED"
           n == [job[j] EXCEPT !.status = status, !.owner = None, !.live = FALSE]
<1>1. RestTyped' /\ KeepsLibrary /\ KeepsSources
  BY <1>0, RestStays DEF library, TypeOK, bounds, fail
<1>2. KeepsRecords /\ MoveOf(w)
  BY <1>0, RecordsStay, WorkerRests DEF fail
<1>3. j \in JobIds /\ digest' = digest
  BY <1>0, WorkerFits DEF fail, At
<1>4. CASE Claims(w)
  <2>1. job[j].status = "RUNNING"
    BY <1>4 DEF Claims
  <2>2. n \in JobType /\ n.status = status
    <3>1. status \in {"RETRY_WAIT", "EXHAUSTED"}
      OBVIOUS
    <3>2. job[j] \in JobType
      BY <1>0, <1>3 DEF JobTyped
    <3> HIDE DEF status
    <3> QED
      BY <3>1, <3>2 DEF JobType, Active
  <2>3. job' = [job EXCEPT ![j] = n]
    BY <1>4 DEF fail
  <2>4. status \in {"RETRY_WAIT", "EXHAUSTED"}
    OBVIOUS
  <2> HIDE DEF n, status, j
  <2>5. KeepsJobs
    BY <1>0, <1>3, <2>1, <2>2, <2>3, <2>4, JobWritten
  <2> QED
    BY <1>0, <1>1, <1>2, <2>5, QuietStep
<1>5. CASE ~Claims(w)
  <2>1. KeepsJobs
    BY <1>0, <1>3, <1>5, JobsStay DEF fail
  <2> QED
    BY <1>0, <1>1, <1>2, <2>1, QuietStep
<1> QED
  BY <1>4, <1>5

LEMMA AnalyzeKeeps ==
    ASSUME ImportsHonest, NEW w \in Workers, Analyze(w)
    PROVE  ImportsHonest'
<1>0. TypeOK /\ ThreadsFit /\ ThrTyped /\ w \in Threads
  BY TypeParts DEF ImportsHonest, ImportsCoherent, Threads
<1>1. RestTyped' /\ KeepsLibrary /\ KeepsSources
  BY <1>0, RestStays DEF library, TypeOK, bounds, Analyze
<1>2. KeepsRecords /\ KeepsJobs
  BY <1>0, RecordsStay, JobsStay DEF Analyze, queue
<1>3. thr[w].job[1] \in {"process", "rescan"} /\ ~At(w, "idle")
  BY <1>0, PhaseTells DEF Analyze, At
<1>4. "complete" \in PhasesOf[thr[w].job[1]] /\ "analyzed" \in PhasesOf[thr[w].job[1]]
  BY <1>3 DEF PhasesOf
<1>5. CASE rec[thr[w].imp].state \in {"STAGED", "NEEDS_REVIEW"}
  <2>1. PICK match \in {"UNMATCHED", "SUGGESTED"} :
            thr' = [thr EXCEPT ![w].phase = "analyzed", ![w].match = match,
                               ![w].read = Accounted(thr[w].imp)]
    BY <1>5 DEF Analyze
  <2> DEFINE b == Accounted(thr[w].imp)
             x == [thr[w] EXCEPT !.phase = "analyzed", !.match = match, !.read = b]
  <2>2. b \in BOOLEAN
    BY DEF Accounted
  <2>3. thr' = [thr EXCEPT ![w] = x]
    BY <1>0, <2>1 DEF ThrTyped
  <2> HIDE DEF b
  <2>4. x \in ThreadType /\ x.phase = "analyzed" /\ x.imp = thr[w].imp /\ x.job = thr[w].job
    <3>1. thr[w] \in ThreadType /\ "analyzed" \in Phases /\ match \in MatchStates \ {"CONFIRMED"}
      BY <1>0, PhaseNames DEF ThrTyped, WorkPhases, MatchStates
    <3> QED
      BY <2>2, <3>1 DEF ThreadType
  <2> HIDE DEF x
  <2>5. thr'[w] = x
    BY <1>0, <2>3 DEF ThrTyped
  <2>6. HoldsAnalysis(w)' /\ HoldsPromotion(w)'
    BY <1>5, <2>4, <2>5 DEF HoldsAnalysis, HoldsPromotion, At, Analyze
  <2>7. MoveOf(w)
    BY <1>2, <1>3, <1>4, <2>3, <2>4, <2>6, WorkerMoves DEF GoesOn
  <2> QED
    BY <1>0, <1>1, <1>2, <2>7, QuietStep
<1>6. CASE rec[thr[w].imp].state \notin {"STAGED", "NEEDS_REVIEW"}
  <2>1. Goto(w, "complete")
    BY <1>6 DEF Analyze
  <2>2. MoveOf(w)
    BY <1>2, <1>3, <1>4, <2>1, WorkerGoes
  <2> QED
    BY <1>0, <1>1, <1>2, <2>2, QuietStep
<1> QED
  BY <1>5, <1>6

LEMMA AnalyzeCommitsKeeps ==
    ASSUME ImportsHonest, NEW w \in Workers, AnalyzeCommits(w)
    PROVE  ImportsHonest'
<1>0. TypeOK /\ ThreadsFit /\ ThrTyped /\ RecTyped /\ w \in Threads
  BY TypeParts DEF ImportsHonest, ImportsCoherent, Threads
<1>1. /\ thr[w].job[1] \in {"process", "rescan"} /\ ~At(w, "idle") /\ thr[w].imp \in Imports
      /\ thr[w].match \in MatchStates \ {"CONFIRMED"} /\ thr[w].read \in BOOLEAN
  BY <1>0, PhaseTells, WorkerFits DEF AnalyzeCommits, At, ThrTyped, ThreadType
<1>2. RestTyped' /\ KeepsLibrary /\ KeepsSources
  <2>1. batch' \in BOOLEAN
    BY <1>0, <1>1 DEF TypeOK, AnalyzeCommits
  <2> QED
    BY <1>0, <2>1, RestStays DEF library, bounds, AnalyzeCommits
<1> DEFINE i == thr[w].imp
           r == [rec[i] EXCEPT !.state = "NEEDS_REVIEW", !.match = thr[w].match]
<1>3. r \in RecordType /\ r.pres = rec[i].pres /\ r.version = rec[i].version
      /\ r.match # "CONFIRMED" /\ r.state = "NEEDS_REVIEW"
  <2>1. rec[i] \in RecordType /\ "NEEDS_REVIEW" \in ImportStates
    BY <1>0, <1>1 DEF RecTyped, ImportStates
  <2> QED
    BY <1>1, <2>1 DEF RecordType
<1>4. rec' = [rec EXCEPT ![i] = r]
  BY <1>0, <1>1 DEF RecTyped, RecordType, AnalyzeCommits
<1> HIDE DEF r, i
<1>5. KeepsRecords
  BY <1>0, <1>1, <1>3, <1>4, RecordWritten DEF i
<1>6. KeepsJobs /\ Goto(w, "complete") /\ "complete" \in PhasesOf[thr[w].job[1]]
  BY <1>0, <1>1, JobsStay DEF queue, AnalyzeCommits, PhasesOf
<1>7. MoveOf(w)
  BY <1>1, <1>6, WorkerGoes
<1> QED
  BY <1>0, <1>2, <1>5, <1>6, <1>7, QuietStep

LEMMA AnalyzeRaisesKeeps ==
    ASSUME ImportsHonest, NEW w \in Workers, AnalyzeRaises(w)
    PROVE  ImportsHonest'
<1>0. TypeOK /\ ThreadsFit /\ w \in Threads
  BY TypeParts DEF ImportsHonest, ImportsCoherent, Threads
<1>1. thr[w].job[1] \in {"process", "rescan"} /\ ~At(w, "idle")
  BY <1>0, PhaseTells DEF AnalyzeRaises, At
<1>2. RestTyped' /\ KeepsLibrary /\ KeepsSources
  BY <1>0, RestStays DEF library, TypeOK, AnalyzeRaises, Fault
<1>3. KeepsJobs /\ KeepsRecords /\ Goto(w, "unanalyzed") /\ "unanalyzed" \in PhasesOf[thr[w].job[1]]
  BY <1>0, <1>1, JobsStay, RecordsStay DEF queue, AnalyzeRaises, PhasesOf
<1>4. MoveOf(w)
  BY <1>1, <1>3, WorkerGoes
<1> QED
  BY <1>0, <1>2, <1>3, <1>4, QuietStep

LEMMA AnalysisFailedKeeps ==
    ASSUME ImportsHonest, NEW w \in Workers, AnalysisFailed(w)
    PROVE  ImportsHonest'
<1>0. TypeOK /\ ThreadsFit /\ RecTyped /\ w \in Threads
  BY TypeParts DEF ImportsHonest, ImportsCoherent, Threads
<1>1. thr[w].job[1] \in {"process", "rescan"} /\ ~At(w, "idle") /\ thr[w].imp \in Imports
  BY <1>0, PhaseTells, WorkerFits DEF AnalysisFailed, At
<1>2. RestTyped' /\ KeepsLibrary /\ KeepsSources
  <2>1. batch' \in BOOLEAN
    BY <1>0, <1>1 DEF TypeOK, AnalysisFailed, Accounted
  <2> QED
    BY <1>0, <2>1, RestStays DEF library, bounds, AnalysisFailed
<1> DEFINE i == thr[w].imp
           r == [rec[i] EXCEPT !.state = "NEEDS_REVIEW", !.match = "UNMATCHED"]
<1>3. r \in RecordType /\ r.pres = rec[i].pres /\ r.version = rec[i].version
      /\ r.match # "CONFIRMED" /\ r.state = "NEEDS_REVIEW"
  <2>1. rec[i] \in RecordType /\ "NEEDS_REVIEW" \in ImportStates /\ "UNMATCHED" \in MatchStates
    BY <1>0, <1>1 DEF RecTyped, ImportStates, MatchStates
  <2> QED
    BY <1>1, <2>1 DEF RecordType
<1>4. rec' = [rec EXCEPT ![i] = r]
  BY <1>0, <1>1 DEF RecTyped, RecordType, AnalysisFailed
<1> HIDE DEF r, i
<1>5. KeepsRecords
  BY <1>0, <1>1, <1>3, <1>4, RecordWritten DEF i
<1>6. KeepsJobs /\ Goto(w, "fail") /\ "fail" \in PhasesOf[thr[w].job[1]]
  BY <1>0, <1>1, JobsStay DEF queue, AnalysisFailed, PhasesOf
<1>7. MoveOf(w)
  BY <1>1, <1>6, WorkerGoes
<1> QED
  BY <1>0, <1>2, <1>5, <1>6, <1>7, QuietStep

LEMMA ReadForPromotionKeeps ==
    ASSUME ImportsHonest, NEW w \in Workers, ReadForPromotion(w)
    PROVE  ImportsHonest'
<1>0. TypeOK /\ ThreadsFit /\ ThrTyped /\ RecTyped /\ w \in Threads
  BY TypeParts DEF ImportsHonest, ImportsCoherent, Threads
<1>1. thr[w].job[1] = "promote" /\ ~At(w, "idle") /\ thr[w].imp \in Imports
  BY <1>0, PhaseTells, WorkerFits DEF ReadForPromotion, At
<1>2. RestTyped' /\ KeepsLibrary /\ KeepsSources
  BY <1>0, RestStays DEF library, TypeOK, ReadForPromotion, bounds
<1>3. KeepsJobs /\ KeepsRecords
  BY <1>0, JobsStay, RecordsStay DEF queue, ReadForPromotion
<1> DEFINE r == rec[thr[w].imp]
           p == IF r.match = "CONFIRMED" THEN IF r.pres = thr[w].job[3] THEN "repair" ELSE "fail"
                ELSE IF r.sha THEN "commit" ELSE "fail"
           x == [thr[w] EXCEPT !.phase = p, !.key = r.owner, !.read = r.written]
<1>4. thr' = [thr EXCEPT ![w] = x]
  BY <1>0 DEF ReadForPromotion, ThrTyped
<1>5. p \in {"repair", "fail", "commit"} /\ r \in RecordType
  BY <1>0, <1>1 DEF RecTyped
<1> HIDE DEF r, p
<1>6. x \in ThreadType /\ x.phase = p /\ x.imp = thr[w].imp /\ x.job = thr[w].job
  <2>1. thr[w] \in ThreadType /\ p \in Phases
    BY <1>0, <1>5 DEF ThrTyped, Phases, WorkPhases
  <2> QED
    BY <1>5, <2>1 DEF ThreadType, RecordType
<1> HIDE DEF x
<1>7. thr'[w] = x
  BY <1>0, <1>4 DEF ThrTyped
<1>8. HoldsAnalysis(w)' /\ HoldsPromotion(w)'
  BY <1>5, <1>6, <1>7 DEF HoldsAnalysis, HoldsPromotion, At
<1>9. x.phase \in PhasesOf[thr[w].job[1]]
  BY <1>1, <1>5, <1>6 DEF PhasesOf
<1>10. MoveOf(w)
  BY <1>1, <1>3, <1>4, <1>6, <1>8, <1>9, WorkerMoves DEF GoesOn
<1> QED
  BY <1>0, <1>2, <1>3, <1>10, QuietStep

LEMMA CommitStagedKeeps ==
    ASSUME ImportsHonest, NEW w \in Workers, CommitStaged(w)
    PROVE  ImportsHonest'
<1>0. TypeOK /\ ThreadsFit /\ w \in Threads
  BY TypeParts DEF ImportsHonest, ImportsCoherent, Threads
<1>1. thr[w].job[1] = "promote" /\ ~At(w, "idle")
  BY <1>0, PhaseTells DEF CommitStaged, At
<1>2. RestTyped' /\ KeepsLibrary /\ KeepsSources
  <2>1. /\ versions' = versions /\ assets' = assets /\ batch' \in BOOLEAN /\ source' = source
        /\ Fault \/ UNCHANGED <<faults, world>>
        /\ UNCHANGED <<ops, world>>
    BY <1>0 DEF library, TypeOK, Fault, CommitStaged
  <2> QED
    BY <1>0, <2>1, RestStays
<1>3. KeepsJobs /\ KeepsRecords
  BY <1>0, JobsStay, RecordsStay DEF queue, CommitStaged
<1>4. PICK phase \in {"assign", "fail"} : Goto(w, phase)
  BY DEF CommitStaged
<1>5. phase \in PhasesOf[thr[w].job[1]]
  BY <1>1 DEF PhasesOf
<1>6. MoveOf(w)
  BY <1>1, <1>3, <1>4, <1>5, WorkerGoes
<1> QED
  BY <1>0, <1>2, <1>3, <1>6, QuietStep

LEMMA ConfirmedAssigned ==
    ASSUME TypeOK, OneOriginalEach, NEW i \in Imports, rec[i].match = "CONFIRMED"
    PROVE  rec[i].pres \in Presentations /\ rec[i].pres # None
<1>1. <<rec[i].pres, rec[i].version, i>> \in assets /\ assets \subseteq Presentations \X Nat \X Imports
  BY DEF TypeOK, OneOriginalEach
<1>2. <<rec[i].pres, rec[i].version, i>> \in Presentations \X Nat \X Imports
  BY <1>1
<1> QED
  BY <1>2, NoneAssumption

LEMMA RepairKeeps ==
    ASSUME ImportsHonest, NEW w \in Workers, Repair(w)
    PROVE  ImportsHonest'
<1>0. TypeOK /\ ThreadsFit /\ ThrTyped /\ OneOriginalEach /\ w \in Threads
  BY TypeParts DEF ImportsHonest, ImportsCoherent, Threads
<1>1. thr[w].job[1] = "promote" /\ ~At(w, "idle") /\ thr[w].imp \in Imports
  BY <1>0, PhaseTells, WorkerFits DEF Repair, At
<1>2. RestTyped' /\ KeepsLibrary /\ KeepsSources
  BY <1>0, RestStays DEF library, TypeOK, Repair, bounds
<1>3. KeepsJobs /\ KeepsRecords
  BY <1>0, JobsStay, RecordsStay DEF queue, Repair
<1>4. PICK phase \in {"complete", "fail"} :
          Goto(w, phase) /\ (phase = "complete" => rec[thr[w].imp].match = "CONFIRMED")
  BY DEF Repair
<1> DEFINE x == [thr[w] EXCEPT !.phase = phase]
<1>5. GoesOn(w, x) /\ x.phase = phase /\ x.imp = thr[w].imp /\ thr'[w] = x
  <2>1. phase \in Phases
    BY PhaseNames DEF WorkPhases
  <2> QED
    BY <1>0, <1>4, <2>1, PhaseGoesOn DEF ThrTyped, ThreadType, GoesOn
<1>6. phase = "complete" => rec[thr[w].imp].pres # None
  BY <1>0, <1>1, <1>4, ConfirmedAssigned
<1>7. HoldsAnalysis(w)' /\ HoldsPromotion(w)'
  BY <1>5, <1>6 DEF HoldsAnalysis, HoldsPromotion, At, Repair
<1>8. phase \in PhasesOf[thr[w].job[1]]
  BY <1>1 DEF PhasesOf
<1> HIDE DEF x
<1>9. MoveOf(w)
  BY <1>1, <1>3, <1>5, <1>7, <1>8, WorkerMoves
<1> QED
  BY <1>0, <1>2, <1>3, <1>9, QuietStep

LEMMA IngestKeeps ==
    ASSUME ImportsHonest, NEW w \in Workers, ingest(w)
    PROVE  ImportsHonest'
<1>0. TypeOK /\ ThreadsFit /\ w \in Threads
  BY TypeParts DEF ImportsHonest, ImportsCoherent, Threads
<1>1. thr[w].job[1] = "ingest" /\ ~At(w, "idle")
  BY <1>0, PhaseTells DEF ingest, At
<1>2. RestTyped' /\ KeepsLibrary /\ KeepsSources
  BY <1>0, RestStays DEF library, TypeOK, ingest, bounds
<1>3. KeepsJobs /\ KeepsRecords
  BY <1>0, JobsStay, RecordsStay DEF queue, ingest
<1>4. PICK phase \in {"check", "fail"} : Goto(w, phase)
  BY DEF ingest
<1>5. phase \in PhasesOf[thr[w].job[1]]
  BY <1>1 DEF PhasesOf, StagePhases
<1>6. MoveOf(w)
  BY <1>1, <1>3, <1>4, <1>5, WorkerGoes
<1> QED
  BY <1>0, <1>2, <1>3, <1>6, QuietStep

LEMMA RetireKeeps ==
    ASSUME ImportsHonest, NEW w \in Workers, retire(w)
    PROVE  ImportsHonest'
<1>0. TypeOK /\ ThreadsFit /\ RetirementsFollow /\ w \in Threads
  BY TypeParts DEF ImportsHonest, ImportsCoherent, Threads
<1> DEFINE i == thr[w].imp
<1>1. /\ thr[w].job[1] = "retire" /\ ~At(w, "idle") /\ thr[w].job \in JobIds
      /\ thr[w].job = <<thr[w].job[1], i, thr[w].job[3]>> /\ job[thr[w].job].status # "NONE"
  BY <1>0, PhaseTells, WorkerFits DEF retire, At
<1>2. i \in Smb /\ thr[w].job = <<"retire", i, None>>
  <2>1. thr[w].job[2] \in Smb /\ thr[w].job[3] = None /\ thr[w].job[2] = i
    BY <1>1, JobParts
  <2> QED
    BY <1>1, <2>1
<1>3. job[<<"ingest", i, None>>].status = "SUCCEEDED"
  BY <1>0, <1>1, <1>2 DEF RetirementsFollow
<1>4. KeepsSources /\ source' \in [Smb -> {"absent", "present", "changed", "removed"}]
  BY <1>0, <1>2, <1>3 DEF retire, KeepsSources, TypeOK
<1>5. RestTyped' /\ KeepsLibrary
  <2>1. (world \in Worlds)' /\ (faults \in 0..world.faults)' /\ (ops \in 0..world.ops)'
    BY <1>0, FaultTyped DEF retire, Fault
  <2> QED
    BY <1>0, <1>4, <2>1 DEF library, TypeOK, retire, RestTyped, KeepsLibrary
<1>6. KeepsJobs /\ KeepsRecords
  BY <1>0, JobsStay, RecordsStay DEF queue, retire
<1>7. PICK phase \in {"complete", "fail"} : Goto(w, phase)
  BY DEF retire
<1>8. phase \in PhasesOf[thr[w].job[1]]
  BY <1>1 DEF PhasesOf
<1>9. MoveOf(w)
  BY <1>1, <1>6, <1>7, <1>8, WorkerGoes
<1> QED
  BY <1>0, <1>4, <1>5, <1>6, <1>9, QuietStep

LEMMA CompleteKeeps ==
    ASSUME ImportsHonest, NEW w \in Workers, complete(w)
    PROVE  ImportsHonest'
<1>0. TypeOK /\ ThreadsFit /\ JobTyped /\ PromotionsAssign /\ w \in Threads
  BY TypeParts DEF ImportsHonest, ImportsCoherent, Threads
<1> DEFINE j == thr[w].job
           retired == <<"retire", j[2], None>>
           done == [job EXCEPT ![j].status = "SUCCEEDED", ![j].live = FALSE]
<1>1. /\ j \in JobIds /\ ~At(w, "idle") /\ job[j].status # "NONE" /\ j[2] = thr[w].imp
      /\ j[1] \in {"process", "rescan", "promote", "ingest", "retire"}
  BY <1>0, WorkerFits DEF complete, At
<1>2. RestTyped' /\ KeepsLibrary /\ KeepsSources
  BY <1>0, RestStays DEF library, TypeOK, complete, bounds
<1>3. KeepsRecords
  BY <1>0, RecordsStay DEF complete
<1>4. CASE j[1] = "ingest" /\ Goto(w, "fail") /\ UNCHANGED queue
  <2>1. KeepsJobs /\ "fail" \in PhasesOf[thr[w].job[1]]
    BY <1>0, <1>4, JobsStay DEF queue, PhasesOf
  <2>2. MoveOf(w)
    BY <1>1, <1>4, <2>1, WorkerGoes
  <2> QED
    BY <1>0, <1>2, <1>3, <2>1, <2>2, QuietStep
<1>5. CASE /\ j[1] = "ingest" => job[retired].status = "NONE"
           /\ thr' = [thr EXCEPT ![w] = Idle]
           /\ IF ~Claims(w) THEN UNCHANGED queue
              ELSE IF j[1] = "ingest"
                   THEN /\ job' = [done EXCEPT ![retired] = NewJob]
                        /\ digest' = IF thr[w].read THEN digest \cup {j[2]} ELSE digest
                   ELSE job' = done /\ UNCHANGED digest
  <2>1. MoveOf(w)
    BY <1>5, WorkerRests
  <2>2. job[j] \in JobType /\ job \in [JobIds -> JobType] /\ digest \subseteq Smb
    BY <1>0, <1>1 DEF JobTyped
  <2>3. /\ done \in [JobIds -> JobType] /\ done[j].status = "SUCCEEDED"
        /\ \A k \in JobIds \ {j} : done[k] = job[k]
    BY <1>1, <2>2 DEF JobType
  <2>4. j[1] = "promote" => rec[j[2]].pres # None
    BY <1>0, <1>1 DEF PromotionsAssign, complete
  <2> HIDE DEF j, done
  <2>5. CASE ~Claims(w)
    BY <1>0, <1>5, <2>5, JobsStay, <1>2, <1>3, <2>1, QuietStep DEF queue
  <2>6. CASE Claims(w) /\ j[1] = "ingest"
    <3>1. j[2] \in Smb /\ j[3] = None /\ j = <<j[1], j[2], j[3]>>
      BY <1>1, <2>6, JobParts
    <3>2. j = <<"ingest", j[2], None>> /\ retired \in JobIds /\ retired # j
      BY <2>6, <3>1, JobMade
    <3>3. job[retired].status = "NONE"
      BY <1>5, <2>6
    <3>4. job' = [done EXCEPT ![retired] = NewJob] /\ digest' \subseteq Smb
      BY <1>5, <2>2, <2>6, <3>1
    <3>5. JobTyped'
      BY <2>3, <3>4, NewJobTyped DEF JobTyped
    <3>6. /\ job'[retired] = NewJob /\ job'[j].status = "SUCCEEDED"
          /\ \A k \in JobIds \ {j, retired} : job'[k] = job[k]
      BY <1>1, <2>3, <3>2, <3>4
    <3>7. retired[2] = j[2] /\ retired[1] = "retire"
      OBVIOUS
    <3> HIDE DEF retired
    <3>8. KeepsJobs
      BY <1>1, <2>6, <3>2, <3>3, <3>5, <3>6, <3>7, NewJobTyped DEF KeepsJobs
    <3> QED
      BY <1>0, <1>2, <1>3, <2>1, <3>8, QuietStep
  <2>7. CASE Claims(w) /\ j[1] # "ingest"
    <3>1. job' = done /\ digest' = digest
      BY <1>5, <2>7
    <3>2. KeepsJobs
      BY <1>1, <2>2, <2>3, <2>4, <2>7, <3>1 DEF KeepsJobs, JobTyped
    <3> QED
      BY <1>0, <1>2, <1>3, <2>1, <3>2, QuietStep
  <2> QED
    BY <2>5, <2>6, <2>7
<1> QED
  BY <1>4, <1>5 DEF complete

-----------------------------------------------------------------------------
(* Imports at Central: the scan and the operator.                          *)

LEMMA ReconcileKeeps ==
    ASSUME ImportsHonest, NEW i \in Smb, reconcile(i)
    PROVE  ImportsHonest'
<1>0. TypeOK
  BY DEF ImportsHonest
<1>1. RestTyped' /\ KeepsLibrary /\ KeepsSources
  BY <1>0, RestStays DEF library, TypeOK, reconcile, bounds
<1>2. KeepsRecords /\ thr' = thr
  BY <1>0, RecordsStay DEF reconcile
<1> DEFINE j == <<"ingest", i, None>>
<1>3. /\ j \in JobIds /\ j[1] = "ingest" /\ job' = [job EXCEPT ![j] = NewJob] /\ digest' = digest
      /\ job[j].status = "NONE"
  BY JobMade DEF reconcile
<1> HIDE DEF j
<1>4. KeepsJobs
  BY <1>0, <1>3, NewJobTyped, JobWritten
<1> QED
  BY <1>1, <1>2, <1>4, QuietStep

LEMMA SourceChangesKeeps ==
    ASSUME ImportsHonest, NEW i \in Smb, SourceChanges(i)
    PROVE  ImportsHonest'
<1>0. TypeOK
  BY DEF ImportsHonest
<1>1. KeepsSources /\ source' \in [Smb -> {"absent", "present", "changed", "removed"}]
  BY <1>0 DEF SourceChanges, KeepsSources, TypeOK
<1>2. RestTyped' /\ KeepsLibrary
  <2>1. (world \in Worlds)' /\ (faults \in 0..world.faults)' /\ (ops \in 0..world.ops)'
    BY <1>0, FaultTyped DEF SourceChanges, Operates
  <2> QED
    BY <1>0, <1>1, <2>1 DEF library, TypeOK, SourceChanges, RestTyped, KeepsLibrary
<1>3. KeepsRecords /\ KeepsJobs /\ thr' = thr
  BY <1>0, RecordsStay, JobsStay DEF SourceChanges, queue
<1> QED
  BY <1>1, <1>2, <1>3, QuietStep

LEMMA QueuePromotionKeeps ==
    ASSUME ImportsHonest, NEW i \in Imports, NEW p \in Presentations, queue_promotion(i, p)
    PROVE  ImportsHonest'
<1>0. TypeOK
  BY DEF ImportsHonest
<1>1. RestTyped' /\ KeepsLibrary /\ KeepsSources
  BY <1>0, RestStays DEF library, TypeOK, queue_promotion, bounds
<1>2. KeepsRecords /\ thr' = thr
  BY <1>0, RecordsStay DEF queue_promotion
<1> DEFINE j == <<"promote", i, p>>
<1>3. /\ j \in JobIds /\ j[1] = "promote" /\ job' = [job EXCEPT ![j] = NewJob] /\ digest' = digest
      /\ job[j].status = "NONE"
  BY JobMade DEF queue_promotion
<1> HIDE DEF j
<1>4. KeepsJobs
  BY <1>0, <1>3, NewJobTyped, JobWritten
<1> QED
  BY <1>1, <1>2, <1>4, QuietStep

LEMMA RefreshMatchKeeps ==
    ASSUME ImportsHonest, NEW i \in Imports, refresh_match(i)
    PROVE  ImportsHonest'
<1>0. TypeOK /\ RecTyped
  BY TypeParts DEF ImportsHonest
<1>1. RestTyped' /\ KeepsLibrary /\ KeepsSources
  BY <1>0, RestStays DEF library, TypeOK, refresh_match, Operates
<1>2. KeepsJobs /\ thr' = thr /\ ~Locked(i)
  BY <1>0, JobsStay DEF refresh_match, queue
<1>3. PICK match \in {"UNMATCHED", "SUGGESTED"} :
          rec' = [rec EXCEPT ![i].match = match, ![i].state = "NEEDS_REVIEW"]
  BY DEF refresh_match
<1> DEFINE r == [rec[i] EXCEPT !.match = match, !.state = "NEEDS_REVIEW"]
<1>4. /\ r \in RecordType /\ r.pres = rec[i].pres /\ r.version = rec[i].version /\ r.match # "CONFIRMED"
      /\ rec' = [rec EXCEPT ![i] = r]
  <2>1. rec[i] \in RecordType /\ "NEEDS_REVIEW" \in ImportStates /\ match \in MatchStates
    BY <1>0 DEF RecTyped, ImportStates, MatchStates
  <2>2. rec' = [rec EXCEPT ![i] = r]
    BY <1>0, <1>3 DEF RecTyped
  <2> QED
    BY <2>1, <2>2 DEF RecordType
<1> HIDE DEF r
<1>5. KeepsRecords
  BY <1>0, <1>2, <1>4, RecordWritten
<1> QED
  BY <1>1, <1>2, <1>5, QuietStep

LEMMA CancelKeeps ==
    ASSUME ImportsHonest, NEW i \in Imports, cancel(i)
    PROVE  ImportsHonest'
<1>0. TypeOK /\ RecTyped
  BY TypeParts DEF ImportsHonest
<1>1. RestTyped' /\ KeepsLibrary /\ KeepsSources
  BY <1>0, RestStays DEF library, TypeOK, cancel, Operates
<1>2. KeepsJobs /\ thr' = thr /\ ~Locked(i)
  BY <1>0, JobsStay DEF cancel, queue
<1> DEFINE r == [rec[i] EXCEPT !.state = "CANCELLED"]
<1>3. /\ r \in RecordType /\ r.pres = rec[i].pres /\ r.version = rec[i].version /\ r.match = rec[i].match
      /\ rec' = [rec EXCEPT ![i] = r]
  BY <1>0 DEF RecTyped, ImportStates, RecordType, cancel
<1> HIDE DEF r
<1>4. KeepsRecords
  BY <1>0, <1>2, <1>3, RecordWritten
<1> QED
  BY <1>1, <1>2, <1>4, QuietStep

LEMMA RescanKeeps ==
    ASSUME ImportsHonest, rescan_unmatched
    PROVE  ImportsHonest'
<1>0. TypeOK /\ JobTyped
  BY TypeParts DEF ImportsHonest
<1>1. RestTyped' /\ KeepsLibrary /\ KeepsSources
  BY <1>0, RestStays DEF library, TypeOK, rescan_unmatched, Operates
<1>2. KeepsRecords /\ thr' = thr
  BY <1>0, RecordsStay DEF rescan_unmatched
<1>3. /\ job' = [j \in JobIds |-> IF j[1] = "rescan" /\ Unresolved(j[2]) THEN NewJob ELSE job[j]]
      /\ digest' = digest
  BY DEF rescan_unmatched
<1>4. JobTyped'
  BY <1>0, <1>3, NewJobTyped DEF JobTyped
<1>5. \A j \in JobIds : /\ job'[j] = job[j] \/ job'[j] = NewJob
                        /\ j[1] # "rescan" => job'[j] = job[j]
  BY <1>3
<1>6. KeepsJobs
  BY <1>4, <1>5, NewJobTyped DEF KeepsJobs
<1> QED
  BY <1>1, <1>2, <1>6, QuietStep

-----------------------------------------------------------------------------
(* Imports at Central: the assignment.                                     *)

LEMMA VersionNumber ==
    ASSUME TypeOK, NEW p \in Presentations
    PROVE  VersionFor(p) \in Nat \ {0} /\ versions[p] <= VersionFor(p)
BY DEF VersionFor, TypeOK

\* The file of a promotion is assigned as the only original of the version.
LEMMA AssignedKeeps ==
    ASSUME ImportsHonest, KeepsJobs, RestTyped', source' = source, NEW w \in Workers, MoveOf(w),
           NEW i \in Imports, NEW p \in Presentations, NEW n \in Nat \ {0}, NEW r \in RecordType,
           ~Locked(i), Linkable(i, p, n), rec' = [rec EXCEPT ![i] = r], r.pres = p, r.version = n,
           versions' = [versions EXCEPT ![p] = n], assets' = assets \cup {<<p, n, i>>}
    PROVE  ImportsHonest'
<1>0. /\ TypeOK /\ ThreadsFit /\ AnalysisHolds /\ PromotionsAssign /\ RetirementsFollow
      /\ OneOriginalEach /\ SucceededIsAssigned /\ RetiredWasIngested /\ RecTyped
  BY TypeParts DEF ImportsHonest, ImportsCoherent
<1>1. RecTyped' /\ rec'[i] = r /\ \A k \in Imports \ {i} : rec'[k] = rec[k]
  BY <1>0 DEF RecTyped
<1>2. TypeOK'
  BY <1>1, TypeParts DEF KeepsJobs, MoveOf
<1>3. \A t \in Threads : Placed(t)'
  BY StaysPlaced DEF MoveOf
<1>4. \A v \in Workers : HoldsAnalysis(v)'
  <2> SUFFICES ASSUME NEW v \in Workers, v # w
               PROVE  HoldsAnalysis(v)'
    BY DEF MoveOf
  <2>1. thr'[v] = thr[v]
    BY DEF MoveOf, Threads
  <2> SUFFICES ASSUME At(v, "analyzed")
               PROVE  rec'[thr[v].imp].state \in {"STAGED", "NEEDS_REVIEW"}
    BY <2>1 DEF HoldsAnalysis, At
  <2>2. thr[v].imp \in Imports /\ rec[thr[v].imp].state \in {"STAGED", "NEEDS_REVIEW"}
    BY <1>0, WorkerFits DEF AnalysisHolds, At
  <2>3. thr[v].imp # i
    BY DEF Locked
  <2> QED
    BY <1>1, <2>2, <2>3
<1>5. p # None /\ \A k \in Imports : rec[k].pres # None => rec'[k].pres # None
  BY <1>1, NoneAssumption
<1>6. \A v \in Workers : HoldsPromotion(v)'
  BY <1>5, StaysPromoted DEF MoveOf, Threads
<1>7. \A q \in Presentations : versions[q] > 0 \/ q = p => versions'[q] > 0
  BY <1>0 DEF TypeOK
<1>8. \A k \in Imports : rec'[k].pres # None => versions'[rec'[k].pres] > 0
  <2> SUFFICES ASSUME NEW k \in Imports, rec'[k].pres # None
               PROVE  versions'[rec'[k].pres] > 0
    OBVIOUS
  <2>1. rec'[k].pres \in Presentations
    BY <1>1 DEF RecTyped, RecordType
  <2>2. k # i => versions[rec'[k].pres] > 0
    BY <1>0, <1>1 DEF PromotionsAssign
  <2> QED
    BY <1>1, <1>7, <2>1, <2>2
<1>9. ThreadsFit' /\ AnalysisHolds' /\ PromotionsAssign'
  BY <1>3, <1>4, <1>6, <1>8, FitAlone, AnalysisAlone, PromotionAlone
<1>10. KeepsSources /\ KeepsJobs
  BY DEF KeepsSources
<1>11. RetirementsFollow'
  <2> SUFFICES ASSUME NEW k \in Smb, job'[<<"retire", k, None>>].status # "NONE"
               PROVE  job'[<<"ingest", k, None>>].status = "SUCCEEDED"
    BY DEF RetirementsFollow
  <2> DEFINE a == <<"retire", k, None>>
             g == <<"ingest", k, None>>
  <2>1. a \in JobIds /\ a[1] = "retire" /\ a[2] = k /\ g \in JobIds /\ g[1] = "ingest"
    BY JobMade
  <2>2. job[a].status # "NONE" => job[g].status = "SUCCEEDED"
    BY <1>0 DEF RetirementsFollow
  <2> HIDE DEF a
  <2> QED
    BY <2>1, <2>2 DEF KeepsJobs, a
<1>12. RetiredWasIngested'
  BY <1>0, <1>10, JobMade DEF RetiredWasIngested, KeepsSources, KeepsJobs
<1>13. SucceededIsAssigned'
  <2> SUFFICES ASSUME NEW j \in JobIds, j[1] = "promote", job'[j].status = "SUCCEEDED"
               PROVE  rec'[j[2]].pres # None
    BY <1>8, JobParts DEF SucceededIsAssigned
  <2>1. j[2] \in Imports /\ rec[j[2]].pres # None
    BY <1>0, JobParts DEF SucceededIsAssigned, KeepsJobs
  <2> QED
    BY <1>5, <2>1
<1>14. OneOriginalEach'
  <2> SUFFICES ASSUME NEW k \in Imports, rec'[k].match = "CONFIRMED"
               PROVE  /\ <<rec'[k].pres, rec'[k].version, k>> \in assets'
                      /\ \A a \in assets' : a[1] = rec'[k].pres /\ a[2] = rec'[k].version => a[3] = k
    BY DEF OneOriginalEach
  <2>1. CASE k = i
    BY <1>1, <2>1 DEF Linkable
  <2>2. CASE k # i
    <3>1. /\ <<rec[k].pres, rec[k].version, k>> \in assets /\ rec'[k] = rec[k]
          /\ \A a \in assets : a[1] = rec[k].pres /\ a[2] = rec[k].version => a[3] = k
      BY <1>0, <1>1, <2>2 DEF OneOriginalEach
    <3>2. ~(rec[k].pres = p /\ rec[k].version = n)
      BY <2>2, <3>1 DEF Linkable
    <3> QED
      BY <3>1, <3>2
  <2> QED
    BY <2>1, <2>2
<1> QED
  BY <1>2, <1>9, <1>11, <1>12, <1>13, <1>14 DEF ImportsHonest, ImportsCoherent

LEMMA AssignKeeps ==
    ASSUME ImportsHonest, NEW w \in Workers, Assign(w)
    PROVE  ImportsHonest'
<1>0. TypeOK /\ ThreadsFit /\ ThrTyped /\ RecTyped /\ OneOriginalEach /\ w \in Threads
  BY TypeParts DEF ImportsHonest, ImportsCoherent, Threads
<1> DEFINE i == thr[w].imp
           p == thr[w].job[3]
           n == VersionFor(p)
<1>1. /\ thr[w].job[1] = "promote" /\ ~At(w, "idle") /\ i \in Imports /\ p \in Presentations
  BY <1>0, PhaseTells, WorkerFits, JobParts DEF Assign, At
<1>2. KeepsJobs /\ UNCHANGED <<source, batch, bounds>> /\ ~Locked(i)
  BY <1>0, JobsStay DEF queue, Assign
<1>3. n \in Nat \ {0}
  BY <1>0, <1>1, VersionNumber
<1>4. ASSUME Goto(w, "complete"), rec'[i].pres # None
      PROVE  MoveOf(w)
  <2> DEFINE x == [thr[w] EXCEPT !.phase = "complete"]
  <2>1. GoesOn(w, x) /\ x.phase = "complete" /\ x.imp = thr[w].imp /\ thr'[w] = x
    <3>1. "complete" \in Phases
      BY PhaseNames DEF WorkPhases
    <3> QED
      BY <1>0, <1>4, <3>1, PhaseGoesOn DEF ThrTyped, ThreadType, GoesOn
  <2>2. HoldsAnalysis(w)' /\ HoldsPromotion(w)'
    BY <1>4, <2>1 DEF HoldsAnalysis, HoldsPromotion, At
  <2>3. x.phase \in PhasesOf[thr[w].job[1]]
    BY <1>1, <2>1 DEF PhasesOf
  <2> HIDE DEF x
  <2> QED
    BY <1>1, <1>2, <2>1, <2>2, <2>3, WorkerMoves
<1>5. ASSUME rec' = rec, UNCHANGED library
      PROVE  RestTyped' /\ KeepsLibrary /\ KeepsSources /\ KeepsRecords
  BY <1>0, <1>2, <1>5, RestStays, RecordsStay DEF library, TypeOK, bounds
<1>6. CASE rec[i].match = "CONFIRMED" /\ Goto(w, "complete") /\ UNCHANGED <<rec, library>>
  <2>1. MoveOf(w)
    BY <1>0, <1>1, <1>4, <1>6, ConfirmedAssigned
  <2> QED
    BY <1>0, <1>2, <1>5, <1>6, <2>1, QuietStep
<1>7. CASE Goto(w, "fail") /\ UNCHANGED <<rec, library>>
  <2>1. "fail" \in PhasesOf[thr[w].job[1]]
    BY <1>1 DEF PhasesOf
  <2>2. MoveOf(w)
    BY <1>1, <1>2, <1>7, <2>1, WorkerGoes
  <2> QED
    BY <1>0, <1>2, <1>5, <1>7, <2>2, QuietStep
<1>8. CASE /\ rec[i].match # "CONFIRMED" /\ Linkable(i, p, n)
           /\ rec' = [rec EXCEPT ![i].state = "ASSIGNED", ![i].match = "CONFIRMED",
                                 ![i].committed = TRUE, ![i].pres = p, ![i].version = n]
           /\ versions' = [versions EXCEPT ![p] = n]
           /\ assets' = assets \cup {<<p, n, i>>}
           /\ Goto(w, "complete")
  <2> HIDE DEF n
  <2> DEFINE r == [rec[i] EXCEPT !.state = "ASSIGNED", !.match = "CONFIRMED",
                                 !.committed = TRUE, !.pres = p, !.version = n]
  <2>1. /\ r \in RecordType /\ r.pres = p /\ r.version = n
        /\ rec' = [rec EXCEPT ![i] = r] /\ rec'[i] = r
    <3>1. rec[i] \in RecordType /\ "ASSIGNED" \in ImportStates /\ "CONFIRMED" \in MatchStates
      BY <1>0, <1>1 DEF RecTyped, ImportStates, MatchStates
    <3>2. r \in RecordType /\ r.pres = p /\ r.version = n
      BY <1>1, <1>3, <3>1 DEF RecordType
    <3>3. rec' = [rec EXCEPT ![i] = r]
      BY <1>0, <1>8 DEF RecTyped
    <3> QED
      BY <1>0, <1>1, <3>2, <3>3 DEF RecTyped
  <2>2. MoveOf(w)
    BY <1>1, <1>4, <1>8, <2>1, NoneAssumption
  <2>3. RestTyped'
    <3>1. versions' \in [Presentations -> Nat] /\ assets' \subseteq Presentations \X Nat \X Imports
      BY <1>0, <1>1, <1>3, <1>8 DEF TypeOK
    <3> QED
      BY <1>0, <1>2, <3>1 DEF RestTyped, TypeOK, bounds
  <2> HIDE DEF r, i, p
  <2> QED
    BY <1>1, <1>2, <1>3, <1>8, <2>1, <2>2, <2>3, AssignedKeeps
<1> QED
  BY <1>6, <1>7, <1>8 DEF Assign

-----------------------------------------------------------------------------
(* Imports at Central: the theorems.                                       *)

LEMMA ImportsBegin == Init => ImportsHonest
<1> SUFFICES ASSUME Init
             PROVE  ImportsHonest
  OBVIOUS
<1>1. world \in World /\ world \in Worlds
  BY BoundsAssumption DEF Init
<1>2. world.uploads \subseteq Uploads /\ world.faults \in Nat /\ world.ops \in Nat
  BY <1>1 DEF World
<1>3. NoRecord \in RecordType /\ NoRecord.match = "UNMATCHED" /\ NoRecord.pres = None
  BY DEF NoRecord, RecordType, ImportStates, MatchStates
<1>4. NoJob \in JobType /\ NoJob.status = "NONE"
  BY DEF NoJob, JobType
<1>5. RecTyped /\ JobTyped
  BY <1>3, <1>4 DEF RecTyped, JobTyped, Init
<1>6. \A t \in Uploads : [Idle EXCEPT !.phase = "check", !.imp = Target[t]] \in ThreadType
  BY UploadsAssumption DEF Idle, ThreadType, Phases, StagePhases, MatchStates
<1>7. ThrTyped /\ \A t \in Threads : thr[t] = Idle \/ (t \in Uploads /\ thr[t] = [Idle EXCEPT !.phase = "check", !.imp = Target[t]])
  BY <1>2, <1>6, IdleTyped DEF ThrTyped, Init, Threads
<1>8. RestTyped
  <2>1. faults \in 0..world.faults /\ ops \in 0..world.ops
    <3>1. faults = 0 /\ ops = 0
      BY DEF Init
    <3> QED
      BY <1>2, <3>1
  <2>2. source \in [Smb -> {"absent", "present", "changed", "removed"}]
    BY DEF Init
  <2>3. versions \in [Presentations -> Nat] /\ assets \subseteq Presentations \X Nat \X Imports
    BY DEF Init
  <2> QED
    BY <1>1, <2>1, <2>2, <2>3 DEF RestTyped, Init
<1>9. TypeOK
  BY <1>5, <1>7, <1>8, TypeParts
<1>10. \A w \in Workers : At(w, "idle")
  <2> SUFFICES ASSUME NEW w \in Workers
               PROVE  thr[w].phase = "idle"
    BY DEF At
  <2>1. thr[w] = Idle
    BY <1>7, UploadsAssumption DEF Threads
  <2> QED
    BY <2>1 DEF Idle
<1>11. \A t \in Uploads : UploadPlaced(t)
  <2> SUFFICES ASSUME NEW t \in Uploads
               PROVE  UploadPlaced(t)
    OBVIOUS
  <2>1. CASE thr[t] = Idle
    BY <2>1 DEF UploadPlaced, Idle, StagePhases
  <2>2. CASE thr[t] = [Idle EXCEPT !.phase = "check", !.imp = Target[t]]
    <3>1. thr[t].phase = "check" /\ thr[t].imp = Target[t]
      BY <2>2 DEF Idle
    <3> QED
      BY <3>1 DEF UploadPlaced, StagePhases
  <2> QED
    BY <1>7, <2>1, <2>2 DEF Threads
<1>12. ThreadsFit
  BY <1>10, <1>11 DEF ThreadsFit, UploadPlaced
<1>13. AnalysisHolds /\ PromotionsAssign
  BY <1>3, <1>10 DEF AnalysisHolds, PromotionsAssign, At, Init
<1>14. RetirementsFollow /\ SucceededIsAssigned
  BY <1>4, JobMade DEF RetirementsFollow, SucceededIsAssigned, Init
<1>15. OneOriginalEach /\ RetiredWasIngested
  BY <1>3 DEF OneOriginalEach, RetiredWasIngested, Init
<1> QED
  BY <1>9, <1>12, <1>13, <1>14, <1>15 DEF ImportsHonest, ImportsCoherent

LEMMA HandlerKeeps ==
    ASSUME ImportsHonest, NEW w \in Workers, Handler(w)
    PROVE  ImportsHonest'
BY IngestKeeps, RetireKeeps, AnalyzeKeeps, AnalyzeCommitsKeeps, AnalyzeRaisesKeeps, AnalysisFailedKeeps,
   ReadForPromotionKeeps, CommitStagedKeeps, AssignKeeps, RepairKeeps, CompleteKeeps, FailKeeps
   DEF Handler

LEMMA ImportStep ==
    ASSUME ImportsHonest, Next
    PROVE  ImportsHonest'
<1>0. /\ world.uploads \subseteq Uploads /\ world.workers \subseteq Workers
      /\ world.presentations \subseteq Presentations
  BY WorldParts DEF ImportsHonest
<1>1. ASSUME NEW t \in world.uploads, Stage(t)
      PROVE  ImportsHonest'
  BY <1>0, <1>1, StageKeeps DEF Threads
<1>2. ASSUME NEW w \in world.workers, Work(w)
      PROVE  ImportsHonest'
  BY <1>0, <1>2, StageKeeps, HandlerKeeps, ClaimKeeps DEF Work, Threads
<1>3. ASSUME NEW t \in Threads, Kill(t)
      PROVE  ImportsHonest'
  BY <1>3, KillKeeps
<1>4. ASSUME NEW j \in JobIds, LeaseExpires(j)
      PROVE  ImportsHonest'
  BY <1>4, LeaseExpiresKeeps
<1>5. ASSUME NEW i \in Smb, reconcile(i) \/ SourceChanges(i)
      PROVE  ImportsHonest'
  BY <1>5, ReconcileKeeps, SourceChangesKeeps
<1>6. ASSUME Operator
      PROVE  ImportsHonest'
  BY <1>0, <1>6, RescanKeeps, RefreshMatchKeeps, CancelKeeps, QueuePromotionKeeps DEF Operator
<1> QED
  BY <1>1, <1>2, <1>3, <1>4, <1>5, <1>6 DEF Next

LEMMA ImportStutter ==
    ASSUME ImportsHonest, UNCHANGED vars
    PROVE  ImportsHonest'
<1>0. TypeOK
  BY DEF ImportsHonest
<1>1. RestTyped' /\ KeepsLibrary /\ KeepsSources /\ KeepsJobs /\ KeepsRecords /\ thr' = thr
  BY <1>0, RestStays, RecordsStay, JobsStay DEF vars, TypeOK
<1> QED
  BY <1>1, QuietStep

\* Whatever is uploaded twice, analysed twice, promoted at the same time, killed or leased
\* too long: a version has one original and it is the file that was confirmed to it, a
\* promotion that reports success has left a file with its presentation, and a file leaves
\* the Incoming share only after its ingest has succeeded.
THEOREM ImportsAreHonest == Spec => []ImportsHonest
<1>1. ImportsHonest /\ [Next]_vars => ImportsHonest'
  BY ImportStep, ImportStutter
<1> QED
  BY ImportsBegin, <1>1, PTL DEF Spec

\* A record that a step leaves confirmed, or that the rest of a second upload or a belated
\* failure handler writes.
StaysConfirmed(i) ==
    Confirmed(i) =>
        \/ Confirmed(i)'
        \/ \E t \in Threads : /\ thr[t].phase \in StagePhases \cup {"unanalyzed"}
                             /\ thr[t].imp = i /\ thr'[t] # thr[t]

LEMMA UntouchedConfirmed ==
    ASSUME NEW i \in Imports, rec'[i] = rec[i]
    PROVE  StaysConfirmed(i)
BY DEF StaysConfirmed, Confirmed

\* The thread that writes the record may write it.
LEMMA WriterMoves ==
    ASSUME TypeOK, NEW t \in Threads, thr[t].phase \in StagePhases \cup {"unanalyzed"},
           thr'[t].phase # thr[t].phase, \A k \in Imports \ {thr[t].imp} : rec'[k] = rec[k]
    PROVE  \A i \in Imports : StaysConfirmed(i)
<1> SUFFICES ASSUME NEW i \in Imports
             PROVE  StaysConfirmed(i)
  OBVIOUS
<1>1. CASE i # thr[t].imp
  BY <1>1, UntouchedConfirmed
<1>2. CASE i = thr[t].imp
  <2>1. thr'[t] # thr[t]
    OBVIOUS
  <2> QED
    BY <1>2, <2>1 DEF StaysConfirmed
<1> QED
  BY <1>1, <1>2

LEMMA StageConfirmed ==
    ASSUME ImportsHonest, NEW t \in Threads, Stage(t)
    PROVE  \A i \in Imports : StaysConfirmed(i)
<1>0. TypeOK /\ ThrTyped /\ RecTyped
  BY TypeParts DEF ImportsHonest
<1>1. CASE CheckExisting(t) \/ AllocationFails(t)
  BY <1>1, UntouchedConfirmed DEF CheckExisting, AllocationFails
<1>2. CASE ~(CheckExisting(t) \/ AllocationFails(t))
  <2>1. /\ \A k \in Imports \ {thr[t].imp} : rec'[k] = rec[k]
    BY <1>0, <1>2 DEF Stage, Register, write_staging, UploadFails, FinishUpload, RecoverUpload, RecTyped
  <2>2. thr[t].phase \in StagePhases
    BY <1>2 DEF Stage, Register, write_staging, UploadFails, FinishUpload, RecoverUpload, At, StagePhases
  <2>3. thr'[t].phase # thr[t].phase
    BY <1>0, <1>2 DEF Stage, Register, write_staging, UploadFails, FinishUpload, RecoverUpload, At, Goto,
       Return, Raise, ThrTyped, ThreadType
  <2> QED
    BY <1>0, <2>1, <2>2, <2>3, WriterMoves
<1> QED
  BY <1>1, <1>2

LEMMA AssignConfirmed ==
    ASSUME ImportsHonest, NEW w \in Workers, Assign(w)
    PROVE  \A i \in Imports : StaysConfirmed(i)
<1>0. RecTyped
  BY TypeParts DEF ImportsHonest
<1> SUFFICES ASSUME NEW i \in Imports
             PROVE  StaysConfirmed(i)
  OBVIOUS
<1>1. CASE rec'[i] = rec[i]
  BY <1>1, UntouchedConfirmed
<1>2. CASE rec'[i] # rec[i]
  <2>1. rec[i].match # "CONFIRMED"
    BY <1>0, <1>2 DEF Assign, RecTyped
  <2> QED
    BY <2>1 DEF StaysConfirmed, Confirmed
<1> QED
  BY <1>1, <1>2

\* What is under analysis is not confirmed.
LEMMA AnalyzeCommitsConfirmed ==
    ASSUME ImportsHonest, NEW w \in Workers, AnalyzeCommits(w)
    PROVE  \A i \in Imports : StaysConfirmed(i)
<1>0. RecTyped /\ AnalysisHolds
  BY TypeParts DEF ImportsHonest, ImportsCoherent
<1>1. rec[thr[w].imp].state \in {"STAGED", "NEEDS_REVIEW"}
  BY <1>0 DEF AnalysisHolds, AnalyzeCommits
<1>2. \A k \in Imports \ {thr[w].imp} : rec'[k] = rec[k]
  BY <1>0 DEF AnalyzeCommits, RecTyped
<1>3. ~Confirmed(thr[w].imp)
  BY <1>1 DEF Confirmed
<1> QED
  BY <1>2, <1>3, UntouchedConfirmed DEF StaysConfirmed

LEMMA AnalysisFailedConfirmed ==
    ASSUME ImportsHonest, NEW w \in Workers, AnalysisFailed(w)
    PROVE  \A i \in Imports : StaysConfirmed(i)
<1>0. TypeOK /\ RecTyped /\ ThrTyped /\ w \in Threads
  BY TypeParts DEF ImportsHonest, Threads
<1>1. \A k \in Imports \ {thr[w].imp} : rec'[k] = rec[k]
  BY <1>0 DEF AnalysisFailed, RecTyped
<1>2. thr[w].phase = "unanalyzed" /\ thr'[w].phase = "fail"
  BY <1>0 DEF AnalysisFailed, At, Goto, ThrTyped, ThreadType
<1> QED
  BY <1>0, <1>1, <1>2, WriterMoves

LEMMA OperatorConfirmed ==
    ASSUME ImportsHonest, Operator
    PROVE  \A i \in Imports : StaysConfirmed(i)
<1>0. TypeOK /\ RecTyped /\ OneOriginalEach
  BY TypeParts DEF ImportsHonest
<1> SUFFICES ASSUME NEW i \in Imports, Confirmed(i)
             PROVE  rec'[i] = rec[i]
  BY UntouchedConfirmed DEF StaysConfirmed
<1>1. rec[i].match = "CONFIRMED" /\ rec[i].pres # None
  BY <1>0, ConfirmedAssigned DEF Confirmed
<1>2. ASSUME NEW k \in Imports, refresh_match(k)
      PROVE  rec'[i] = rec[i]
  BY <1>0, <1>1, <1>2 DEF refresh_match, RecTyped
<1>3. ASSUME NEW k \in Imports, cancel(k)
      PROVE  rec'[i] = rec[i]
  BY <1>0, <1>1, <1>3 DEF cancel, RecTyped
<1> QED
  BY <1>2, <1>3 DEF Operator, rescan_unmatched, queue_promotion

LEMMA ConfirmedStep ==
    ASSUME ImportsHonest, [Next]_vars
    PROVE  \A i \in Imports : StaysConfirmed(i)
<1>0. world.uploads \subseteq Uploads /\ world.workers \subseteq Workers
  BY WorldParts DEF ImportsHonest
<1>1. CASE rec' = rec
  BY <1>1, UntouchedConfirmed
<1>2. ASSUME NEW t \in Threads, Stage(t)
      PROVE  \A i \in Imports : StaysConfirmed(i)
  BY <1>2, StageConfirmed
<1>3. ASSUME NEW w \in Workers, Handler(w), rec' # rec
      PROVE  \A i \in Imports : StaysConfirmed(i)
  <2>1. Assign(w) \/ AnalyzeCommits(w) \/ AnalysisFailed(w)
    BY <1>3 DEF Handler, ingest, retire, Analyze, AnalyzeRaises, ReadForPromotion, CommitStaged, Repair,
                complete, fail
  <2> QED
    BY <2>1, AssignConfirmed, AnalyzeCommitsConfirmed, AnalysisFailedConfirmed
<1>4. CASE Operator
  BY <1>4, OperatorConfirmed
<1>5. CASE rec' # rec /\ ~Operator
  <2>1. \/ \E t \in world.uploads : Stage(t)
        \/ \E w \in world.workers : Stage(w) \/ Handler(w)
    BY <1>5 DEF Next, vars, Work, _claim, Kill, LeaseExpires, reconcile, SourceChanges
  <2> QED
    BY <1>0, <1>2, <1>3, <1>5, <2>1 DEF Threads
<1> QED
  BY <1>1, <1>4, <1>5

\* ADR-0014: matching again "never changes a confirmed assignment", and neither does a
\* cancellation, another promotion or an analysis that had begun before; only the rest of
\* a second upload of the file and the failure handler of an overtaken analysis do.
THEOREM ConfirmedAssignmentsStay == Spec => ConfirmedStays
<1>1. ImportsHonest /\ [Next]_vars =>
          [\A i \in Imports : Confirmed(i) =>
              \/ Confirmed(i)'
              \/ \E t \in Threads : /\ thr[t].phase \in StagePhases \cup {"unanalyzed"}
                                   /\ thr[t].imp = i /\ thr'[t] # thr[t]]_vars
  BY ConfirmedStep DEF StaysConfirmed
<1> QED
  BY ImportsAreHonest, <1>1, PTL DEF Spec, ConfirmedStays
=============================================================================
