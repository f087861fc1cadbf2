--------------------------- MODULE OperationsProofs ---------------------------
(***************************************************************************)
(* Proofs about the components of MCOperations that have no proof module   *)
(* of their own: RoomOperations, SiteShare, Lifecycle, SmbFolders,         *)
(* PresentationVersions and Enrollment, each alone, for every value of its *)
(* constants.                                                              *)
(***************************************************************************)
EXTENDS RoomOperations, SiteShare, Lifecycle, SmbFolders, PresentationVersions, Enrollment,
        FiniteSetTheorems, SequenceTheorems, WellFoundedInduction, TLAPS

-----------------------------------------------------------------------------
(* Rooms: what is shown is true.                                           *)

\* A nonempty set of sessions is counted as more than none.
LEMMA SomeCounted ==
    ASSUME NEW T, T \subseteq Sessions, T # {}
    PROVE  Cardinality(T) \in Nat /\ Cardinality(T) > 0
<1>1. IsFiniteSet(T)
  BY RoomRowsAssumption, FS_Subset
<1> QED
  BY <1>1, FS_CardinalityType, FS_EmptySet

\* The first rule of _presentation_state puts failed jobs and transfers before all else.
LEMMA FailureIsError ==
    ASSUME NEW c, (c.transfers \cup c.jobs) \cap Failed # {}
    PROVE  _presentation_state(c) = "error"
<1>1. c.jobs \cap Failed # {} \/ c.transfers \cap Failed # {}
  OBVIOUS
<1> QED
  BY <1>1 DEF _presentation_state

LEMMA FailuresAreShown == FailuresShown
<1> SUFFICES ASSUME NEW r \in RoomIds, NEW s \in SessionsIn(r), Usable(r),
                    (contents[s].transfers \cup contents[s].jobs) \cap Failed # {}
             PROVE  <<"presentation_error", r>> \in Attention /\ Health(r) = "error"
  BY DEF FailuresShown
<1> DEFINE T == {x \in SessionsIn(r) : _presentation_state(contents[x]) = "error"}
<1>1. s \in T
  BY FailureIsError
<1>2. T \subseteq Sessions
  BY DEF SessionsIn
<1>3. Cardinality(T) \in Nat /\ Cardinality(T) > 0
  BY <1>1, <1>2, SomeCounted
<1>4. Counted(r, "error") = Cardinality(T)
  BY DEF Counted
<1> HIDE DEF T
<1>5. Counted(r, "error") > 0 /\ Counted(r, "error") # 0
  BY <1>3, <1>4
<1>6. <<"presentation_error", r>> \in Attention
  BY <1>5 DEF Attention
<1>7. Health(r) = "error"
  BY <1>5 DEF Health
<1> QED
  BY <1>6, <1>7

\* Where the assignments follow the mappings, so does what the operator is shown.
LEMMA LocationsAreTruthful == RoomTypeOK /\ FollowsMapping => LocationsTruthful
<1> SUFFICES ASSUME RoomTypeOK, FollowsMapping, NEW s \in Sessions \ outdated, Located(s), assigned[s] # Unassigned,
                    program_locations(Location(s)).status # "conflict"
             PROVE  /\ program_locations(Location(s)).status = "mapped"
                    /\ assigned[s].room = program_locations(Location(s)).room
  BY DEF LocationsTruthful
<1> DEFINE l == Location(s)
           inferred == {assigned[x].room : x \in {x \in Sessions : Located(x) /\ Location(x) = l}} \ {NoRoom}
<1>1. assigned[s] \in RoomAssignment /\ assigned[s].room \in RoomIds /\ assigned[s].room # NoRoom
  BY RoomIdsAssumption DEF RoomTypeOK, RoomAssignment
<1>2. CASE mapping[l] # NoMapping
  <2>1. assigned[s].room = mapping[l].room
    BY <1>2 DEF FollowsMapping
  <2> QED
    BY <2>1, <1>1, <1>2 DEF program_locations
<1>3. CASE mapping[l] = NoMapping
  <2>1. assigned[s].room \in inferred
    BY <1>1
  <2>2. program_locations(l) =
            IF Cardinality(inferred) = 1
            THEN [status |-> "mapped", room |-> CHOOSE r \in inferred : TRUE]
            ELSE [status |-> IF inferred = {} THEN "unmapped" ELSE "conflict", room |-> NoRoom]
    BY <1>3 DEF program_locations
  <2>3. IsFiniteSet(inferred)
    <3> DEFINE T == {x \in Sessions : Located(x) /\ Location(x) = l}
               U == {assigned[x].room : x \in T}
    <3>1. IsFiniteSet(T)
      BY RoomRowsAssumption, FS_Subset
    <3>2. IsFiniteSet(U)
      <4> DEFINE f == [x \in T |-> assigned[x].room]
      <4>1. f \in Surjection(T, U)
        BY DEF Surjection
      <4> QED
        BY <4>1, <3>1, FS_Surjection
    <3>3. inferred \subseteq U
      OBVIOUS
    <3> QED
      BY <3>2, <3>3, FS_Subset
  <2> HIDE DEF inferred, l
  <2>4. Cardinality(inferred) = 1
    BY <2>1, <2>2 DEF l
  <2>5. PICK x : inferred = {x}
    BY <2>3, <2>4, FS_Singleton
  <2>6. (CHOOSE r \in inferred : TRUE) = assigned[s].room
    BY <2>1, <2>5
  <2> QED
    BY <2>2, <2>4, <2>6 DEF l
<1> QED
  BY <1>2, <1>3

-----------------------------------------------------------------------------
(* Rooms: the invariant.                                                   *)

\* Each mapping row is held by one transaction, that of a deployment is a new one, and
\* the rooms it opens have labels of their own.
TxInv ==
    /\ \A w \in Writers : tx[w].deploys => tx[w].stage # "idle"
    /\ \A w, x \in Writers, l \in Normals : Owns(tx[w], l) /\ Owns(tx[x], l) => w = x
    /\ \A w \in Writers, l \in Normals : tx[w].deploys /\ tx[w].own[l] # NoMapping => mapping[l] = NoMapping
    /\ \A w \in Writers, r, q \in RoomIds : tx[w].open[r] # "" /\ tx[w].open[r] = tx[w].open[q] => r = q

RoomInv == RoomTypeOK /\ FollowsMapping /\ ArchivedHasNoDevice /\ RequestsNotice /\ TxInv

\* What reconcile_program_room_assignments makes of well-formed rows.
LEMMA ReconcileTyped ==
    ASSUME NEW p \in [Sessions -> ProgramSession],
           NEW m \in [Normals -> ProgramRoomMapping \cup {NoMapping}],
           NEW a \in [Sessions -> RoomAssignment \cup {Unassigned}]
    PROVE  reconcile_program_room_assignments(p, m, a) \in [Sessions -> RoomAssignment \cup {Unassigned}]
<1>1. ASSUME NEW s \in Sessions
      PROVE  reconcile_program_room_assignments(p, m, a)[s] \in RoomAssignment \cup {Unassigned}
  <2> DEFINE l == Normal[p[s].location]
  <2>1. Kept(p, m, a)[s] \in RoomAssignment \cup {Unassigned}
    BY DEF Kept
  <2>2. CASE ~(p[s].active /\ p[s].location # "") \/ m[l] = NoMapping
    BY <2>1, <2>2 DEF reconcile_program_room_assignments
  <2>3. CASE (p[s].active /\ p[s].location # "") /\ m[l] # NoMapping
    <3>1. p[s].location \in Labels /\ l \in Normals /\ p[s].starts \in Times
      BY <2>3 DEF ProgramSession, Normals
    <3>2. m[l].room \in RoomIds \cup {NoRoom}
      BY <3>1, <2>3 DEF ProgramRoomMapping
    <3>3. reconcile_program_room_assignments(p, m, a)[s] =
              IF m[l].room = NoRoom THEN Unassigned
              ELSE [room |-> m[l].room, via |-> l, starts |-> p[s].starts]
      BY <2>3 DEF reconcile_program_room_assignments
    <3> QED
      BY <3>1, <3>2, <3>3 DEF RoomAssignment
  <2> QED
    BY <2>2, <2>3
<1>2. reconcile_program_room_assignments(p, m, a) =
          [s \in Sessions |-> reconcile_program_room_assignments(p, m, a)[s]]
  BY DEF reconcile_program_room_assignments
<1> QED
  BY <1>1, <1>2

\* ... and that it makes the assignment of a session follow the mapping.
RowFollows(p, m, s, row) ==
    p[s].active /\ p[s].location # "" /\ m[Normal[p[s].location]] # NoMapping =>
        /\ row.room = m[Normal[p[s].location]].room
        /\ row # Unassigned => row.via = Normal[p[s].location]

LEMMA ReconcileFollows ==
    ASSUME NEW p, NEW m, NEW a, NEW s \in Sessions
    PROVE  RowFollows(p, m, s, reconcile_program_room_assignments(p, m, a)[s])
<1> DEFINE new == reconcile_program_room_assignments(p, m, a)
<1>1. ASSUME p[s].active /\ p[s].location # "", NEW l, l = Normal[p[s].location], m[l] # NoMapping
      PROVE  new[s].room = m[l].room /\ (new[s] # Unassigned => new[s].via = l)
  <2>1. new[s] = IF m[l].room = NoRoom THEN Unassigned
                 ELSE [room |-> m[l].room, via |-> l, starts |-> p[s].starts]
    BY <1>1 DEF reconcile_program_room_assignments
  <2> HIDE DEF new
  <2>2. CASE m[l].room = NoRoom
    BY <2>1, <2>2 DEF Unassigned
  <2>3. CASE m[l].room # NoRoom
    BY <2>1, <2>3
  <2> QED
    BY <2>2, <2>3
<1> QED
  BY <1>1 DEF RowFollows

\* A step that leaves the rooms, the devices and the requests as they were.
LEMMA DevicesUntouched ==
    ASSUME RoomInv, UNCHANGED <<rooms, endpoint, request>>
    PROVE  ArchivedHasNoDevice' /\ RequestsNotice'
BY DEF RoomInv, ArchivedHasNoDevice, RequestsNotice

LEMMA AbsentLabel == Absent.label = ""
BY DEF Absent

LEMMA AssignmentsUntouched ==
    ASSUME RoomInv, UNCHANGED <<program, mapping, assigned, tx, outdated>>
    PROVE  FollowsMapping' /\ TxInv'
<1>1. FollowsMapping'
  BY DEF RoomInv, FollowsMapping, Located, Location
<1>2. TxInv'
  BY DEF RoomInv, TxInv, Owns
<1> QED
  BY <1>1, <1>2

-----------------------------------------------------------------------------
(* Rooms: the transactions.                                                *)

\* materialize_program_room_mappings maps only labels that have no mapping, to rooms.
LEMMA MaterializeTyped ==
    ASSUME RoomTypeOK, NEW p, NEW c, NEW pick \in [NewSpellings(p, c) -> RoomIds]
    PROVE  /\ materialize_program_room_mappings(p, c, pick) \in [Normals -> ProgramRoomMapping \cup {NoMapping}]
           /\ \A l \in Normals : mapping[l] # NoMapping =>
                 materialize_program_room_mappings(p, c, pick)[l] = mapping[l]
<1> DEFINE m == materialize_program_room_mappings(p, c, pick)
           Meets(l) == \E x \in NewSpellings(p, c) : Normal[x] = l /\ Cardinality(RoomsFor(x)) < 2
           of(l) == CHOOSE x \in NewSpellings(p, c) : Normal[x] = l
<1>1. \A l \in Normals : m[l] = IF Meets(l) THEN [room |-> pick[of(l)], by |-> Deployment] ELSE mapping[l]
  BY DEF materialize_program_room_mappings
<1>2. m = [l \in Normals |-> m[l]]
  BY DEF materialize_program_room_mappings
<1> HIDE DEF m
<1>3. \A l \in Normals : Meets(l) => of(l) \in NewSpellings(p, c) /\ Normal[of(l)] = l
  OBVIOUS
<1>4. \A x \in NewSpellings(p, c) : mapping[Normal[x]] = NoMapping
  BY DEF NewSpellings
<1>5. \A l \in Normals : Meets(l) => mapping[l] = NoMapping /\ pick[of(l)] \in RoomIds
  BY <1>3, <1>4
<1> HIDE DEF Meets, of
<1>6. ASSUME NEW l \in Normals PROVE m[l] \in ProgramRoomMapping \cup {NoMapping}
  <2>1. CASE Meets(l)
    <3>1. [room |-> pick[of(l)], by |-> Deployment] \in ProgramRoomMapping
      BY <2>1, <1>5 DEF ProgramRoomMapping
    <3> QED
      BY <3>1, <2>1, <1>1
  <2>2. CASE ~Meets(l)
    BY <2>2, <1>1 DEF RoomTypeOK
  <2> QED
    BY <2>1, <2>2
<1>7. m \in [Normals -> ProgramRoomMapping \cup {NoMapping}]
  BY <1>2, <1>6
<1>8. \A l \in Normals : mapping[l] # NoMapping => m[l] = mapping[l]
  BY <1>1, <1>5
<1> QED
  BY <1>7, <1>8 DEF m

LEMMA CentrallyAssignedTyped ==
    ASSUME RoomTypeOK, NEW p \in [Sessions -> ProgramSession],
           NEW c \in [Normals -> RoomIds \cup {NoRoom}]
    PROVE  /\ CentrallyAssigned(p, c) \in [Sessions -> RoomAssignment \cup {Unassigned}]
           /\ \A s \in Sessions : assigned[s] # Unassigned => CentrallyAssigned(p, c)[s] = assigned[s]
<1> DEFINE a == CentrallyAssigned(p, c)
           room(s) == c[Normal[p[s].location]]
           Meets(s) == /\ p[s].active /\ p[s].location # "" /\ assigned[s] = Unassigned
                       /\ room(s) # NoRoom /\ Exists(room(s))
<1>1. \A s \in Sessions :
          a[s] = IF Meets(s) THEN [room |-> room(s), via |-> Direct, starts |-> p[s].starts] ELSE assigned[s]
  BY DEF CentrallyAssigned
<1>2. a = [s \in Sessions |-> a[s]]
  BY DEF CentrallyAssigned
<1> HIDE DEF a
<1>3. ASSUME NEW s \in Sessions, Meets(s) PROVE room(s) \in RoomIds /\ p[s].starts \in Times
  <2>1. p[s].location \in Labels /\ p[s].starts \in Times
    BY <1>3 DEF ProgramSession
  <2>2. Normal[p[s].location] \in Normals
    BY <2>1 DEF Normals
  <2> QED
    BY <2>1, <2>2, <1>3
<1>4. \A s \in Sessions : Meets(s) => assigned[s] = Unassigned
  OBVIOUS
<1> HIDE DEF Meets, room
<1>5. ASSUME NEW s \in Sessions PROVE a[s] \in RoomAssignment \cup {Unassigned}
  <2>1. CASE Meets(s)
    <3>1. [room |-> room(s), via |-> Direct, starts |-> p[s].starts] \in RoomAssignment
      BY <2>1, <1>3 DEF RoomAssignment
    <3> QED
      BY <3>1, <2>1, <1>1
  <2>2. CASE ~Meets(s)
    BY <2>2, <1>1 DEF RoomTypeOK
  <2> QED
    BY <2>1, <2>2
<1>6. a \in [Sessions -> RoomAssignment \cup {Unassigned}]
  BY <1>2, <1>5
<1>7. \A s \in Sessions : assigned[s] # Unassigned => a[s] = assigned[s]
  BY <1>1, <1>4
<1> QED
  BY <1>6, <1>7 DEF a

\* The rooms a deployment opens have labels of their own, and no room loses its row.
LEMMA AddedRooms ==
    ASSUME RoomTypeOK, NEW open \in [RoomIds -> Labels \cup {""}],
           \A r \in RoomIds : open[r] # "" => Exactly(open[r]) = {},
           \A r, q \in RoomIds : open[r] # "" /\ open[r] = open[q] => r = q,
           rooms' = [r \in RoomIds |-> IF open[r] = "" THEN rooms[r]
                                       ELSE [label |-> open[r], enabled |-> TRUE, archived |-> FALSE]]
    PROVE  /\ rooms' \in [RoomIds -> Room \cup {Absent}]
           /\ \A r, q \in RoomIds : rooms'[r] # Absent /\ rooms'[r].label = rooms'[q].label => r = q
           /\ \A r \in RoomIds : rooms'[r].archived => rooms[r].archived
<1>1. ASSUME NEW q \in RoomIds, open[q] # "", NEW r \in RoomIds PROVE rooms[r].label # open[q]
  <2>1. Exists(r) => rooms[r].label # open[q]
    BY <1>1 DEF Exactly
  <2>2. ~Exists(r) => rooms[r].label = ""
    BY AbsentLabel DEF Exists
  <2> QED
    BY <2>1, <2>2, <1>1
<1>2. \A r \in RoomIds : /\ open[r] # "" => rooms'[r] = [label |-> open[r], enabled |-> TRUE, archived |-> FALSE]
                         /\ open[r] = "" => rooms'[r] = rooms[r]
  OBVIOUS
<1>3. rooms' = [r \in RoomIds |-> rooms'[r]]
  OBVIOUS
<1>4. \A r \in RoomIds : rooms'[r] \in Room \cup {Absent}
  BY <1>2 DEF RoomTypeOK, Room
<1>5. rooms' \in [RoomIds -> Room \cup {Absent}]
  BY <1>3, <1>4
<1>6. \A r \in RoomIds : open[r] # "" => rooms'[r].label = open[r]
  BY <1>2
<1>7. ASSUME NEW r \in RoomIds, NEW q \in RoomIds, rooms'[r] # Absent, rooms'[r].label = rooms'[q].label
      PROVE  r = q
  <2>1. CASE open[r] # "" /\ open[q] # ""
    BY <2>1, <1>6, <1>7
  <2>2. CASE open[r] # "" /\ open[q] = ""
    BY <2>2, <1>1, <1>2, <1>6, <1>7
  <2>3. CASE open[r] = "" /\ open[q] # ""
    BY <2>3, <1>1, <1>2, <1>6, <1>7
  <2>4. CASE open[r] = "" /\ open[q] = ""
    <3>1. rooms'[r] = rooms[r] /\ rooms'[q] = rooms[q]
      BY <2>4, <1>2
    <3>2. Exists(r) /\ rooms[r].label = rooms[q].label
      BY <3>1, <1>7 DEF Exists
    <3> QED
      BY <3>2 DEF RoomTypeOK
  <2> QED
    BY <2>1, <2>2, <2>3, <2>4
<1>8. \A r \in RoomIds : rooms'[r].archived => rooms[r].archived
  BY <1>2
<1> QED
  BY <1>5, <1>7, <1>8

LEMMA NoTxFacts ==
    /\ NoTx \in ReconcileTx /\ NoTx.stage = "idle" /\ ~NoTx.deploys
    /\ \A l \in Normals : NoTx.own[l] = NoMapping
    /\ \A r \in RoomIds : NoTx.open[r] = ""
<1>1. NoTime \in Times
  BY RoomIdsAssumption DEF NoTime, Times
<1>2. [s \in Sessions |-> Inactive] \in [Sessions -> ProgramSession]
  BY <1>1 DEF Inactive, ProgramSession
<1> QED
  BY <1>2 DEF NoTx, ReconcileTx

\* A step that changes one transaction only.
TxMayBe(w, t) ==
    /\ t \in ReconcileTx
    /\ t.deploys => t.stage # "idle"
    /\ \A x \in Writers \ {w}, l \in Normals : Owns(t, l) => ~Owns(tx[x], l)
    /\ \A l \in Normals : t.deploys /\ t.own[l] # NoMapping => mapping[l] = NoMapping
    /\ \A r, q \in RoomIds : t.open[r] # "" /\ t.open[r] = t.open[q] => r = q

LEMMA OneTxKeeps ==
    ASSUME RoomInv, NEW w \in Writers, NEW t, TxMayBe(w, t), tx' = [tx EXCEPT ![w] = t],
           UNCHANGED <<rooms, program, mapping, assigned, endpoint, request, contents, now, outdated>>
    PROVE  RoomInv'
<1> USE DEF RoomInv
<1>1. tx \in [Writers -> ReconcileTx] /\ t \in ReconcileTx
  BY DEF RoomTypeOK, TxMayBe
<1>2. /\ tx' \in [Writers -> ReconcileTx] /\ tx'[w] = t
      /\ \A x \in Writers : x # w => tx'[x] = tx[x]
  BY <1>1
<1>3. RoomTypeOK'
  BY <1>2 DEF RoomTypeOK, Exists
<1>4. FollowsMapping'
  BY DEF FollowsMapping, Located, Location
<1>5. TxInv'
  <2>1. \A x \in Writers : tx'[x].deploys => tx'[x].stage # "idle"
    BY <1>2 DEF TxInv, TxMayBe
  <2>2. ASSUME NEW x \in Writers, NEW y \in Writers, NEW l \in Normals, Owns(tx'[x], l), Owns(tx'[y], l)
        PROVE  x = y
    BY <2>2, <1>2 DEF TxInv, TxMayBe
  <2>3. \A x \in Writers, l \in Normals : tx'[x].deploys /\ tx'[x].own[l] # NoMapping => mapping[l] = NoMapping
    BY <1>2 DEF TxInv, TxMayBe
  <2>4. \A x \in Writers, r, q \in RoomIds : tx'[x].open[r] # "" /\ tx'[x].open[r] = tx'[x].open[q] => r = q
    BY <1>2 DEF TxInv, TxMayBe
  <2> QED
    BY <2>1, <2>2, <2>3, <2>4 DEF TxInv, Owns
<1> QED
  BY <1>3, <1>4, <1>5, DevicesUntouched

\* A deployment takes the rows of labels nobody has mapped.
LEMMA DeployKeeps ==
    ASSUME RoomInv, NEW w \in Writers, NEW p \in [Sessions -> ProgramSession],
           NEW c \in [Normals -> RoomIds \cup {NoRoom}], DeployProgram(w, p, c)
    PROVE  RoomInv'
<1> USE DEF RoomInv
<1> DEFINE a == CentrallyAssigned(p, c)
           new == {x \in NewSpellings(p, c) : RoomsFor(x) = {}}
           M(pick) == materialize_program_room_mappings(p, c, pick)
           Own(pick) == [l \in Normals |-> IF M(pick)[l] = mapping[l] THEN NoMapping ELSE M(pick)[l]]
           Open(pick) == [r \in RoomIds |-> IF \E x \in new : pick[x] = r
                                            THEN CHOOSE x \in new : pick[x] = r ELSE ""]
           Placed == [s \in Sessions |-> IF a[s] = assigned[s] THEN Unassigned ELSE a[s]]
           T(pick) == [NoTx EXCEPT !.stage = "begun", !.deploys = TRUE, !.loaded = Sessions, !.p = p,
                                   !.own = Own(pick), !.open = Open(pick), !.placed = Placed]
<1>1. PICK pick \in [NewSpellings(p, c) -> RoomIds] :
        /\ \A l \in Normals, x \in Writers : M(pick)[l] # mapping[l] => ~Owns(tx[x], l)
        /\ tx' = [tx EXCEPT ![w] = T(pick)]
        /\ UNCHANGED <<rooms, program, mapping, assigned, endpoint, request, contents, now, outdated>>
  BY DEF DeployProgram
<1>2. /\ M(pick) \in [Normals -> ProgramRoomMapping \cup {NoMapping}]
      /\ \A l \in Normals : mapping[l] # NoMapping => M(pick)[l] = mapping[l]
  BY MaterializeTyped
<1> HIDE DEF M
<1>3. /\ Own(pick) \in [Normals -> ProgramRoomMapping \cup {NoMapping}]
      /\ \A l \in Normals : Own(pick)[l] # NoMapping => M(pick)[l] # mapping[l] /\ mapping[l] = NoMapping
  BY <1>2
<1>4. /\ Open(pick) \in [RoomIds -> Labels \cup {""}]
      /\ \A r, q \in RoomIds : Open(pick)[r] # "" /\ Open(pick)[r] = Open(pick)[q] => r = q
  <2>1. new \subseteq Labels
    BY DEF NewSpellings
  <2>2. \A r \in RoomIds : (\E x \in new : pick[x] = r) =>
            Open(pick)[r] \in new /\ pick[Open(pick)[r]] = r
    OBVIOUS
  <2>3. \A r \in RoomIds : ~(\E x \in new : pick[x] = r) => Open(pick)[r] = ""
    OBVIOUS
  <2> HIDE DEF new
  <2>4. \A r \in RoomIds : Open(pick)[r] \in Labels \cup {""}
    BY <2>1, <2>2, <2>3
  <2>5. \A r \in RoomIds : Open(pick)[r] # "" => pick[Open(pick)[r]] = r
    BY <2>2, <2>3
  <2> QED
    BY <2>4, <2>5
<1>5. Placed \in [Sessions -> RoomAssignment \cup {Unassigned}]
  <2>1. a \in [Sessions -> RoomAssignment \cup {Unassigned}]
    BY CentrallyAssignedTyped DEF a
  <2> HIDE DEF a
  <2> QED
    BY <2>1
<1> HIDE DEF Own, Open, Placed
<1>6. /\ T(pick).stage = "begun" /\ T(pick).deploys /\ T(pick).own = Own(pick) /\ T(pick).open = Open(pick)
      /\ T(pick) \in ReconcileTx
  BY <1>3, <1>4, <1>5, NoTxFacts DEF ReconcileTx
<1>7. TxMayBe(w, T(pick))
  <2> DEFINE t == T(pick)
  <2>1. /\ t.stage = "begun" /\ t.deploys /\ t.own = Own(pick) /\ t.open = Open(pick) /\ t \in ReconcileTx
    BY <1>6
  <2> HIDE DEF t, T
  <2>2. \A x \in Writers \ {w}, l \in Normals : Owns(t, l) => ~Owns(tx[x], l)
    <3>1. \A l \in Normals : Owns(t, l) => M(pick)[l] # mapping[l]
      BY <2>1, <1>3 DEF Owns
    <3> QED
      BY <3>1, <1>1
  <2>3. \A l \in Normals : t.own[l] # NoMapping => mapping[l] = NoMapping
    BY <2>1, <1>3
  <2>4. \A r, q \in RoomIds : t.open[r] # "" /\ t.open[r] = t.open[q] => r = q
    BY <2>1, <1>4
  <2>5. TxMayBe(w, t)
    BY <2>1, <2>2, <2>3, <2>4 DEF TxMayBe
  <2> QED
    BY <2>5 DEF t
<1> HIDE DEF T
<1> QED
  BY <1>1, <1>7, OneTxKeeps

LEMMA SaveMappingKeeps ==
    ASSUME RoomInv, NEW w \in Writers, NEW l \in Normals, NEW r \in RoomIds \cup {NoRoom}, save_mapping(w, l, r)
    PROVE  RoomInv'
<1> USE DEF RoomInv
<1> DEFINE own == [n \in Normals |-> IF n = l THEN [room |-> r, by |-> Operator] ELSE NoMapping]
           T(s) == [NoTx EXCEPT !.stage = "begun", !.loaded = {s}, !.p = program, !.own = own]
<1>1. PICK s \in Sessions :
        /\ tx' = [tx EXCEPT ![w] = T(s)]
        /\ UNCHANGED <<rooms, program, mapping, assigned, endpoint, request, contents, now, outdated>>
  BY DEF save_mapping
<1>2. own \in [Normals -> ProgramRoomMapping \cup {NoMapping}]
  BY DEF ProgramRoomMapping
<1> HIDE DEF own
<1>3. T(s) \in ReconcileTx /\ T(s).stage = "begun" /\ ~T(s).deploys /\ T(s).open = NoTx.open
  BY <1>2, NoTxFacts DEF ReconcileTx, RoomTypeOK
<1> HIDE DEF T
<1>4. TxMayBe(w, T(s))
  BY <1>3, NoTxFacts DEF TxMayBe, Owns
<1> QED
  BY <1>1, <1>4, OneTxKeeps

LEMMA OverlaidTyped ==
    ASSUME RoomTypeOK, NEW own \in [Normals -> ProgramRoomMapping \cup {NoMapping}]
    PROVE  Overlaid(own) \in [Normals -> ProgramRoomMapping \cup {NoMapping}]
BY DEF RoomTypeOK, Overlaid

LEMMA RereadTyped ==
    ASSUME RoomTypeOK, NEW w \in Writers
    PROVE  Reread(w) \in [Sessions -> ProgramSession]
<1>1. tx[w] \in ReconcileTx /\ program \in [Sessions -> ProgramSession]
  BY DEF RoomTypeOK
<1>2. tx[w].p \in [Sessions -> ProgramSession]
  BY <1>1 DEF ReconcileTx
<1> QED
  BY <1>1, <1>2 DEF Reread

\* Reading and asking for locks change what a transaction has read only; a request that
\* had not its row gets it when nobody else has it.
LEMMA ReadsKeep ==
    ASSUME RoomInv, NEW w \in Writers, ReadMappings(w) \/ LockAssignments(w)
    PROVE  RoomInv'
<1> USE DEF RoomInv
<1> DEFINE t == tx[w]
<1>1. t \in ReconcileTx
  BY DEF RoomTypeOK
<1>2. Reread(w) \in [Sessions -> ProgramSession] /\ Overlaid(t.own) \in [Normals -> ProgramRoomMapping \cup {NoMapping}]
  <2>1. t.own \in [Normals -> ProgramRoomMapping \cup {NoMapping}]
    BY <1>1 DEF ReconcileTx
  <2> HIDE DEF t
  <2> QED
    BY <2>1, RereadTyped, OverlaidTyped
<1>3. CASE ReadMappings(w)
  <2> DEFINE n == [t EXCEPT !.stage = "read", !.m = Overlaid(t.own), !.p = Reread(w)]
  <2>1. /\ \A l \in Normals, x \in Writers \ {w} : t.own[l] # NoMapping => ~Owns(tx[x], l)
        /\ tx' = [tx EXCEPT ![w] = n]
        /\ UNCHANGED <<rooms, program, mapping, assigned, endpoint, request, contents, now, outdated>>
    BY <1>3, <1>1 DEF ReadMappings, ReconcileTx, RoomTypeOK
  <2>2. /\ n \in ReconcileTx /\ n.stage = "read" /\ n.deploys = t.deploys /\ n.own = t.own /\ n.open = t.open
    BY <1>1, <1>2 DEF ReconcileTx
  <2> HIDE DEF n
  <2>4. \A x \in Writers \ {w}, l \in Normals : Owns(n, l) => ~Owns(tx[x], l)
    BY <2>1, <2>2 DEF Owns
  <2>5. /\ \A l \in Normals : t.deploys /\ t.own[l] # NoMapping => mapping[l] = NoMapping
        /\ \A r, q \in RoomIds : t.open[r] # "" /\ t.open[r] = t.open[q] => r = q
    BY DEF TxInv
  <2> HIDE DEF t
  <2>3. TxMayBe(w, n)
    BY <2>2, <2>4, <2>5 DEF TxMayBe
  <2> QED
    BY <2>1, <2>3, OneTxKeeps
<1>4. CASE LockAssignments(w)
  <2> DEFINE N(p) == [t EXCEPT !.stage = "locking", !.p = p, !.fresh = {}]
  <2>1. PICK p \in {t.p, Reread(w)} :
        /\ t.stage = "read" /\ tx' = [tx EXCEPT ![w] = N(p)]
        /\ UNCHANGED <<rooms, program, mapping, assigned, endpoint, request, contents, now, outdated>>
    BY <1>4, <1>1 DEF LockAssignments, ReconcileTx, RoomTypeOK
  <2>2. p \in [Sessions -> ProgramSession]
    BY <1>1, <1>2 DEF ReconcileTx
  <2>3. /\ N(p) \in ReconcileTx /\ N(p).stage = "locking" /\ N(p).deploys = t.deploys
        /\ N(p).own = t.own /\ N(p).open = t.open
    BY <1>1, <2>2 DEF ReconcileTx
  <2> HIDE DEF N
  <2>4. \A l \in Normals : Owns(N(p), l) => Owns(t, l)
    BY <2>1, <2>3 DEF Owns
  <2>6. \A x \in Writers \ {w}, l \in Normals : Owns(N(p), l) => ~Owns(tx[x], l)
    BY <2>4 DEF TxInv
  <2>7. /\ \A l \in Normals : t.deploys /\ t.own[l] # NoMapping => mapping[l] = NoMapping
        /\ \A r, q \in RoomIds : t.open[r] # "" /\ t.open[r] = t.open[q] => r = q
    BY DEF TxInv
  <2> HIDE DEF t
  <2>5. TxMayBe(w, N(p))
    BY <2>3, <2>6, <2>7 DEF TxMayBe
  <2> QED
    BY <2>1, <2>5, OneTxKeeps
<1> QED
  BY <1>3, <1>4

LEMMA RollBackKeeps ==
    ASSUME RoomInv, NEW w \in Writers, RollBack(w)
    PROVE  RoomInv'
<1>1. TxMayBe(w, NoTx)
  BY NoTxFacts DEF TxMayBe, Owns
<1>2. /\ tx' = [tx EXCEPT ![w] = NoTx]
      /\ UNCHANGED <<rooms, program, mapping, assigned, endpoint, request, contents, now, outdated>>
  BY DEF RollBack
<1> QED
  BY <1>1, <1>2, OneTxKeeps

LEMMA SeenTyped ==
    ASSUME RoomTypeOK, NEW t \in ReconcileTx
    PROVE  VisibleTo(t) \in [Sessions -> RoomAssignment \cup {Unassigned}]
<1>1. /\ t.placed \in [Sessions -> RoomAssignment \cup {Unassigned}]
      /\ assigned \in [Sessions -> RoomAssignment \cup {Unassigned}]
  BY DEF ReconcileTx, RoomTypeOK
<1> QED
  BY <1>1 DEF VisibleTo

\* The other transactions at a commit keep all but the sessions they do not see.
LEMMA OthersAtCommit ==
    ASSUME RoomInv, NEW w \in Writers, NEW ins, ins \subseteq Sessions,
           tx' = [x \in Writers |-> IF x = w THEN NoTx
                                    ELSE IF tx[x].stage = "locking" THEN [tx[x] EXCEPT !.fresh = @ \cup ins]
                                    ELSE tx[x]]
    PROVE  /\ tx' \in [Writers -> ReconcileTx]
           /\ \A x \in Writers : \/ tx'[x] = NoTx
                                 \/ /\ x # w /\ tx'[x].stage = tx[x].stage /\ tx'[x].deploys = tx[x].deploys
                                    /\ tx'[x].own = tx[x].own /\ tx'[x].open = tx[x].open
<1>1. ASSUME NEW x \in Writers
      PROVE  /\ tx'[x] \in ReconcileTx
             /\ \/ tx'[x] = NoTx
                \/ /\ x # w /\ tx'[x].stage = tx[x].stage /\ tx'[x].deploys = tx[x].deploys
                   /\ tx'[x].own = tx[x].own /\ tx'[x].open = tx[x].open
  <2>1. tx[x] \in ReconcileTx
    BY DEF RoomInv, RoomTypeOK
  <2>2. CASE x = w
    BY <2>2, NoTxFacts
  <2>3. CASE x # w /\ tx[x].stage # "locking"
    BY <2>1, <2>3
  <2>4. CASE x # w /\ tx[x].stage = "locking"
    <3>1. tx'[x] = [tx[x] EXCEPT !.fresh = @ \cup ins]
      BY <2>4
    <3> QED
      BY <3>1, <2>1, <2>4 DEF ReconcileTx
  <2> QED
    BY <2>2, <2>3, <2>4
<1> QED
  BY <1>1

LEMMA CommitProgramKeeps ==
    ASSUME RoomInv, NEW w \in Writers, CommitProgram(w)
    PROVE  RoomInv'
<1> USE DEF RoomInv
<1> DEFINE t == tx[w]
<1>1. /\ t.stage = "locking"
      /\ \A r \in RoomIds : t.open[r] # "" => Exactly(t.open[r]) = {}
      /\ program' = IF t.deploys THEN t.p ELSE program
      /\ mapping' = Overlaid(t.own)
      /\ rooms' = [r \in RoomIds |-> IF t.open[r] = "" THEN rooms[r]
                                     ELSE [label |-> t.open[r], enabled |-> TRUE, archived |-> FALSE]]
      /\ assigned' = [s \in Sessions |-> IF Unseen(t, s) THEN assigned[s] ELSE ReconciledBy(t)[s]]
      /\ outdated' = Overlooked(t, program', mapping')
      /\ tx' = [x \in Writers |->
                   IF x = w THEN NoTx
                   ELSE IF tx[x].stage = "locking" THEN [tx[x] EXCEPT !.fresh = @ \cup Inserted(t)]
                   ELSE tx[x]]
      /\ UNCHANGED <<endpoint, request, contents, now>>
  BY DEF CommitProgram
<1>2. /\ t \in ReconcileTx /\ t.p \in [Sessions -> ProgramSession]
      /\ t.m \in [Normals -> ProgramRoomMapping \cup {NoMapping}]
      /\ t.own \in [Normals -> ProgramRoomMapping \cup {NoMapping}]
      /\ t.open \in [RoomIds -> Labels \cup {""}]
  <2>1. t \in ReconcileTx
    BY DEF RoomTypeOK
  <2> QED
    BY <2>1 DEF ReconcileTx
<1>3. /\ rooms' \in [RoomIds -> Room \cup {Absent}]
      /\ \A r, q \in RoomIds : rooms'[r] # Absent /\ rooms'[r].label = rooms'[q].label => r = q
      /\ \A r \in RoomIds : rooms'[r].archived => rooms[r].archived
  <2>1. \A r, q \in RoomIds : t.open[r] # "" /\ t.open[r] = t.open[q] => r = q
    BY DEF TxInv
  <2> HIDE DEF t
  <2> QED
    BY <1>1, <1>2, <2>1, AddedRooms
<1>4. mapping' \in [Normals -> ProgramRoomMapping \cup {NoMapping}]
  <2> HIDE DEF t
  <2> QED
    BY <1>1, <1>2, OverlaidTyped
<1>5. ReconciledBy(t) \in [Sessions -> RoomAssignment \cup {Unassigned}]
  <2> HIDE DEF t
  <2>1. VisibleTo(t) \in [Sessions -> RoomAssignment \cup {Unassigned}]
    BY <1>2, SeenTyped
  <2> QED
    BY <2>1, <1>2, ReconcileTyped DEF ReconciledBy
<1>6. assigned' \in [Sessions -> RoomAssignment \cup {Unassigned}]
  <2> HIDE DEF t
  <2> QED
    BY <1>1, <1>5 DEF RoomTypeOK
<1>7. program' \in [Sessions -> ProgramSession]
  BY <1>1, <1>2 DEF RoomTypeOK
<1>8. outdated' \subseteq Sessions /\ Inserted(t) \subseteq Sessions
  <2> HIDE DEF t
  <2> QED
    BY <1>1 DEF Overlooked, Inserted
<1>9. /\ tx' \in [Writers -> ReconcileTx]
      /\ \A x \in Writers : \/ tx'[x] = NoTx
                            \/ /\ x # w /\ tx'[x].stage = tx[x].stage /\ tx'[x].deploys = tx[x].deploys
                               /\ tx'[x].own = tx[x].own /\ tx'[x].open = tx[x].open
  <2> DEFINE ins == Inserted(t)
  <2>1. /\ ins \subseteq Sessions
        /\ tx' = [x \in Writers |-> IF x = w THEN NoTx
                                    ELSE IF tx[x].stage = "locking" THEN [tx[x] EXCEPT !.fresh = @ \cup ins]
                                    ELSE tx[x]]
    BY <1>1, <1>8
  <2> HIDE DEF ins
  <2> QED
    BY <2>1, OthersAtCommit
<1>10. RoomTypeOK'
  BY <1>1, <1>3, <1>4, <1>6, <1>7, <1>8, <1>9 DEF RoomTypeOK, Exists
<1>11. FollowsMapping'
  <2> HIDE DEF t
  <2>1. ASSUME NEW s \in Sessions, s \notin outdated' PROVE RowFollows(program', mapping', s, assigned'[s])
    <3>1. /\ s \notin t.fresh /\ t.p[s] = program'[s]
          /\ program'[s].location # "" =>
                t.m[Normal[program'[s].location]] = mapping'[Normal[program'[s].location]]
      BY <2>1, <1>1 DEF Overlooked
    <3>2. assigned'[s] = reconcile_program_room_assignments(t.p, t.m, VisibleTo(t))[s]
      BY <1>1, <3>1 DEF Unseen, ReconciledBy
    <3>3. RowFollows(t.p, t.m, s, assigned'[s])
      BY <3>2, ReconcileFollows
    <3> QED
      BY <3>1, <3>3 DEF RowFollows
  <2> QED
    BY <2>1 DEF FollowsMapping, RowFollows, Located, Location
<1>12. ArchivedHasNoDevice' /\ RequestsNotice'
  BY <1>1, <1>3 DEF ArchivedHasNoDevice, RequestsNotice
<1>13. TxInv'
  <2>1. \A x \in Writers : tx'[x].deploys => tx'[x].stage # "idle"
    BY <1>9, NoTxFacts DEF TxInv
  <2>2. \A x \in Writers, l \in Normals : Owns(tx'[x], l) => x # w /\ Owns(tx[x], l)
    BY <1>9, NoTxFacts DEF Owns
  <2>3. \A x, y \in Writers, l \in Normals : Owns(tx'[x], l) /\ Owns(tx'[y], l) => x = y
    BY <2>2 DEF TxInv
  <2>4. ASSUME NEW x \in Writers, NEW l \in Normals, tx'[x].deploys, tx'[x].own[l] # NoMapping
        PROVE  mapping'[l] = NoMapping
    <3>1. x # w /\ tx[x].deploys /\ tx[x].own[l] # NoMapping /\ tx[x].stage # "idle"
      BY <2>1, <2>4, <1>9, NoTxFacts
    <3>2. tx[x].stage \in {"idle", "begun", "read", "locking"}
      BY DEF RoomTypeOK, ReconcileTx
    <3>3. Owns(tx[x], l) /\ mapping[l] = NoMapping
      BY <3>1, <3>2 DEF Owns, TxInv
    <3>4. ~Owns(t, l)
      BY <3>1, <3>3 DEF TxInv
    <3>5. t.own[l] = NoMapping
      BY <3>4, <1>1 DEF Owns
    <3> HIDE DEF t
    <3> QED
      BY <3>3, <3>5, <1>1 DEF Overlaid
  <2>5. ASSUME NEW x \in Writers, NEW r \in RoomIds, NEW q \in RoomIds,
               tx'[x].open[r] # "", tx'[x].open[r] = tx'[x].open[q]
        PROVE  r = q
    <3>1. tx'[x].open = tx[x].open
      BY <2>5, <1>9, NoTxFacts
    <3>2. tx[x].open[r] # "" /\ tx[x].open[r] = tx[x].open[q]
      BY <3>1, <2>5
    <3>3. \A y \in Writers, r0, q0 \in RoomIds :
              tx[y].open[r0] # "" /\ tx[y].open[r0] = tx[y].open[q0] => r0 = q0
      BY DEF TxInv
    <3> QED
      BY <3>2, <3>3
  <2> QED
    BY <2>1, <2>3, <2>4, <2>5 DEF TxInv, Owns
<1> QED
  BY <1>10, <1>11, <1>12, <1>13

\* An edit of one room that archives nothing.
LEMMA RoomEditKeeps ==
    ASSUME RoomInv, NEW r \in RoomIds, NEW row \in Room, ~row.archived \/ rooms[r].archived,
           rooms' = [rooms EXCEPT ![r] = row],
           (row.label = rooms[r].label /\ Exists(r)) \/ Exactly(row.label) = {},
           UNCHANGED <<program, mapping, assigned, endpoint, request, contents, now, tx, outdated>>
    PROVE  RoomInv'
<1> USE DEF RoomInv
<1>1. /\ rooms' \in [RoomIds -> Room \cup {Absent}] /\ rooms'[r] = row
      /\ \A q \in RoomIds : q # r => rooms'[q] = rooms[q]
  BY DEF RoomTypeOK
<1>2. row.label \in Labels /\ row.label # ""
  BY RoomRowsAssumption DEF Room
<1>3. ASSUME NEW q \in RoomIds, q # r PROVE rooms[q].label # row.label
  <2>1. CASE row.label = rooms[r].label /\ Exists(r)
    BY <2>1, <1>3 DEF RoomTypeOK
  <2>2. CASE Exactly(row.label) = {}
    <3>1. Exists(q) => rooms[q].label # row.label
      BY <2>2 DEF Exactly
    <3>2. ~Exists(q) => rooms[q].label = ""
      BY AbsentLabel DEF Exists
    <3> QED
      BY <3>1, <3>2, <1>2
  <2> QED
    BY <2>1, <2>2
<1>4. \A q1, q2 \in RoomIds : rooms'[q1] # Absent /\ rooms'[q1].label = rooms'[q2].label => q1 = q2
  BY <1>1, <1>3 DEF RoomTypeOK, Exists
<1>5. RoomTypeOK'
  BY <1>1, <1>4 DEF RoomTypeOK, Exists
<1>6. FollowsMapping' /\ TxInv'
  BY AssignmentsUntouched
<1>7. \A q \in RoomIds : rooms'[q].archived => rooms[q].archived
  BY <1>1
<1>8. ArchivedHasNoDevice' /\ RequestsNotice'
  BY <1>7 DEF ArchivedHasNoDevice, RequestsNotice
<1> QED
  BY <1>5, <1>6, <1>8

LEMMA EditsKeep ==
    ASSUME RoomInv, NEW r \in RoomIds, NEW l \in Labels, NEW on \in BOOLEAN,
           \/ create_room(r, l) \/ rename_room(r, l) \/ enable_room(r, on) \/ restore_room(r)
    PROVE  RoomInv'
<1>1. rooms \in [RoomIds -> Room \cup {Absent}]
  BY DEF RoomInv, RoomTypeOK
<1>2. CASE create_room(r, l)
  <2> DEFINE row == [label |-> l, enabled |-> TRUE, archived |-> FALSE]
  <2>1. /\ row \in Room /\ ~row.archived /\ Exactly(row.label) = {}
        /\ rooms' = [rooms EXCEPT ![r] = row]
        /\ UNCHANGED <<program, mapping, assigned, endpoint, request, contents, now, tx, outdated>>
    BY <1>2 DEF create_room, Room
  <2> HIDE DEF row
  <2> QED
    BY <2>1, RoomEditKeeps
<1>3. CASE rename_room(r, l)
  <2> DEFINE row == [rooms[r] EXCEPT !.label = l]
  <2>1. rooms[r] \in Room /\ Exactly(l) = {}
    BY <1>1, <1>3 DEF rename_room, Exists
  <2>2. row \in Room /\ row.archived = rooms[r].archived /\ row.label = l
    BY <2>1 DEF Room
  <2>3. /\ rooms' = [rooms EXCEPT ![r] = row]
        /\ UNCHANGED <<program, mapping, assigned, endpoint, request, contents, now, tx, outdated>>
    BY <1>3 DEF rename_room
  <2>4. Exactly(row.label) = {}
    BY <2>1, <2>2
  <2> HIDE DEF row
  <2>5. ~row.archived \/ rooms[r].archived
    BY <2>2
  <2> QED
    BY <2>2, <2>3, <2>4, <2>5, RoomEditKeeps
<1>4. CASE enable_room(r, on)
  <2> DEFINE row == [rooms[r] EXCEPT !.enabled = on]
  <2>1. rooms[r] \in Room /\ Exists(r)
    BY <1>1, <1>4 DEF enable_room, Exists
  <2>2. row \in Room /\ row.archived = rooms[r].archived /\ row.label = rooms[r].label
    BY <2>1 DEF Room
  <2>3. /\ rooms' = [rooms EXCEPT ![r] = row]
        /\ UNCHANGED <<program, mapping, assigned, endpoint, request, contents, now, tx, outdated>>
    BY <1>4 DEF enable_room
  <2> HIDE DEF row
  <2>4. ~row.archived \/ rooms[r].archived
    BY <2>2
  <2> QED
    BY <2>1, <2>2, <2>3, <2>4, RoomEditKeeps
<1>5. CASE restore_room(r)
  <2> DEFINE row == [rooms[r] EXCEPT !.archived = FALSE, !.enabled = TRUE]
  <2>1. rooms[r] \in Room /\ Exists(r) /\ rooms[r].archived
    BY <1>1, <1>5 DEF restore_room, Exists
  <2>2. row \in Room /\ row.label = rooms[r].label
    BY <2>1 DEF Room
  <2>3. /\ rooms' = [rooms EXCEPT ![r] = row]
        /\ UNCHANGED <<program, mapping, assigned, endpoint, request, contents, now, tx, outdated>>
    BY <1>5 DEF restore_room
  <2> HIDE DEF row
  <2> QED
    BY <2>1, <2>2, <2>3, RoomEditKeeps
<1> QED
  BY <1>2, <1>3, <1>4, <1>5

\* Archiving ends the devices it sees and marks the requests that have looked before.
LEMMA ArchiveKeeps ==
    ASSUME RoomInv, NEW r \in RoomIds, archive_room(r)
    PROVE  RoomInv'
<1> USE DEF RoomInv
<1> DEFINE row == [rooms[r] EXCEPT !.archived = TRUE, !.enabled = FALSE]
<1>1. /\ Exists(r) /\ rooms' = [rooms EXCEPT ![r] = row]
      /\ endpoint' = [e \in RoomIds \X Roles |-> IF e[1] = r THEN NoEndpoint ELSE endpoint[e]]
      /\ request' = [q \in Requests |-> [request[q] EXCEPT !.raced = @ \/ request[q].room = r]]
      /\ UNCHANGED <<program, mapping, assigned, contents, now, tx, outdated>>
  BY DEF archive_room
<1>2. rooms[r] \in Room /\ row \in Room /\ row.label = rooms[r].label
  BY <1>1 DEF RoomTypeOK, Exists, Room
<1> HIDE DEF row
<1>3. /\ rooms' \in [RoomIds -> Room \cup {Absent}] /\ rooms'[r] = row
      /\ \A q \in RoomIds : q # r => rooms'[q] = rooms[q]
  BY <1>1, <1>2 DEF RoomTypeOK
<1>4. \A q1, q2 \in RoomIds : rooms'[q1] # Absent /\ rooms'[q1].label = rooms'[q2].label => q1 = q2
  BY <1>1, <1>2, <1>3 DEF RoomTypeOK, Exists
<1>5. endpoint' \in [RoomIds \X Roles -> [device: Devices \cup {NoDevice}, raced: BOOLEAN]]
  BY <1>1 DEF RoomTypeOK, NoEndpoint
<1>6. \A q \in Requests : /\ request'[q].room = request[q].room
                          /\ request'[q].raced = (request[q].raced \/ request[q].room = r)
                          /\ request'[q] \in [room: RoomIds \cup {NoRoom}, role: Roles,
                                 device: Devices \cup {NoDevice},
                                 current: Devices \cup {NoDevice}, raced: BOOLEAN]
  BY <1>1 DEF RoomTypeOK
<1>7. RoomTypeOK'
  BY <1>1, <1>3, <1>4, <1>5, <1>6 DEF RoomTypeOK, Exists
<1>8. FollowsMapping' /\ TxInv'
  BY <1>1, AssignmentsUntouched
<1>9. ArchivedHasNoDevice'
  <2> SUFFICES ASSUME NEW x \in RoomIds, NEW role \in Roles, rooms'[x].archived,
                      endpoint'[<<x, role>>] # NoEndpoint
               PROVE  endpoint'[<<x, role>>].raced
    BY DEF ArchivedHasNoDevice
  <2>1. <<x, role>> \in RoomIds \X Roles /\ <<x, role>>[1] = x
    OBVIOUS
  <2>2. x # r /\ endpoint'[<<x, role>>] = endpoint[<<x, role>>]
    BY <2>1, <1>1
  <2>3. rooms[x].archived
    BY <2>2, <1>3
  <2> QED
    BY <2>2, <2>3 DEF ArchivedHasNoDevice
<1>10. RequestsNotice'
  BY <1>3, <1>6 DEF RequestsNotice
<1> QED
  BY <1>7, <1>8, <1>9, <1>10

LEMMA AssignDeviceKeeps ==
    ASSUME RoomInv, NEW q \in Requests, NEW r \in RoomIds, NEW role \in Roles,
           NEW d \in Devices \cup {NoDevice}, assign_device(q, r, role, d)
    PROVE  RoomInv'
<1> USE DEF RoomInv
<1> DEFINE new == [room |-> r, role |-> role, device |-> d,
                   current |-> endpoint[<<r, role>>].device, raced |-> FALSE]
<1>1. /\ ~rooms[r].archived /\ request' = [request EXCEPT ![q] = new]
      /\ UNCHANGED <<rooms, program, mapping, assigned, endpoint, contents, now, tx, outdated>>
  BY DEF assign_device, Usable
<1>2. endpoint[<<r, role>>].device \in Devices \cup {NoDevice}
  BY DEF RoomTypeOK
<1>3. /\ new.room = r
      /\ new \in [room: RoomIds \cup {NoRoom}, role: Roles, device: Devices \cup {NoDevice},
                  current: Devices \cup {NoDevice}, raced: BOOLEAN]
  BY <1>2
<1> HIDE DEF new
<1>4. RoomTypeOK'
  BY <1>1, <1>3 DEF RoomTypeOK, Exists
<1>5. FollowsMapping' /\ TxInv'
  BY <1>1, AssignmentsUntouched
<1>6. ArchivedHasNoDevice'
  BY <1>1 DEF ArchivedHasNoDevice
<1>7. \A x \in Requests : request'[x] = IF x = q THEN new ELSE request[x]
  BY <1>1 DEF RoomTypeOK
<1>8. RequestsNotice'
  BY <1>1, <1>3, <1>7 DEF RequestsNotice
<1> QED
  BY <1>4, <1>5, <1>6, <1>8

LEMMA CommitDeviceKeeps ==
    ASSUME RoomInv, NEW q \in Requests, CommitDevice(q)
    PROVE  RoomInv'
<1> USE DEF RoomInv
<1> DEFINE e == <<request[q].room, request[q].role>>
           d == request[q].device
           current == request[q].current
           Rows == [device: Devices \cup {NoDevice}, raced: BOOLEAN]
           row == IF d = current THEN endpoint[e]
                  ELSE IF d = NoDevice THEN NoEndpoint
                  ELSE IF Busy(d) = {} /\ endpoint[e].device \in {current, NoDevice}
                       THEN [device |-> d, raced |-> request[q].raced]
                  ELSE endpoint[e]
<1>1. /\ request' = [request EXCEPT ![q] = NoRequest]
      /\ endpoint' = [endpoint EXCEPT ![e] = row]
      /\ UNCHANGED <<rooms, program, mapping, assigned, contents, now, tx, outdated>>
  BY DEF CommitDevice
<1>2. /\ request[q].raced \in BOOLEAN /\ d \in Devices \cup {NoDevice}
      /\ endpoint \in [RoomIds \X Roles -> Rows] /\ request[q].role \in Roles
  BY DEF RoomTypeOK
<1>3. e \in RoomIds \X Roles => row \in Rows
  BY <1>2 DEF NoEndpoint
<1>4. \/ row = endpoint[e] \/ row = NoEndpoint \/ row = [device |-> d, raced |-> request[q].raced]
  OBVIOUS
<1>5. \A x \in RoomIds \X Roles : endpoint'[x] = IF x = e THEN row ELSE endpoint[x]
  BY <1>1, <1>2
<1>6. endpoint' \in [RoomIds \X Roles -> Rows]
  BY <1>1, <1>2, <1>3
<1>7. request' \in [Requests -> [room: RoomIds \cup {NoRoom}, role: Roles, device: Devices \cup {NoDevice},
                                 current: Devices \cup {NoDevice}, raced: BOOLEAN]]
  BY <1>1 DEF RoomTypeOK, NoRequest, Roles
<1>8. RoomTypeOK'
  BY <1>1, <1>6, <1>7 DEF RoomTypeOK, Exists
<1>9. FollowsMapping' /\ TxInv'
  BY <1>1, AssignmentsUntouched
<1>10. ArchivedHasNoDevice'
  <2> SUFFICES ASSUME NEW x \in RoomIds, NEW role \in Roles, rooms[x].archived,
                      endpoint'[<<x, role>>] # NoEndpoint
               PROVE  endpoint'[<<x, role>>].raced
    BY <1>1 DEF ArchivedHasNoDevice
  <2>1. endpoint[<<x, role>>] # NoEndpoint => endpoint[<<x, role>>].raced
    BY DEF ArchivedHasNoDevice
  <2>2. CASE <<x, role>> # e
    BY <2>1, <2>2, <1>5
  <2>3. CASE <<x, role>> = e
    <3>1. x = request[q].room /\ request[q].raced
      BY <2>3 DEF RequestsNotice
    <3>2. endpoint'[<<x, role>>] = row
      BY <2>3, <1>5
    <3> HIDE DEF row
    <3> QED
      BY <3>1, <3>2, <2>1, <2>3, <1>4
  <2> QED
    BY <2>2, <2>3
<1>11. RequestsNotice'
  <2>1. \A x \in Requests : request'[x] = IF x = q THEN NoRequest ELSE request[x]
    BY <1>1 DEF RoomTypeOK
  <2> QED
    BY <2>1, <1>1, RoomIdsAssumption DEF RequestsNotice, NoRequest
<1> QED
  BY <1>8, <1>9, <1>10, <1>11

LEMMA RoomClockKeeps ==
    ASSUME RoomInv, RoomClock \/ \E s \in Sessions, c \in Contents : ContentsChange(s, c)
    PROVE  RoomInv'
<1> USE DEF RoomInv
<1>1. UNCHANGED <<rooms, program, mapping, assigned, endpoint, request, tx, outdated>>
  BY DEF RoomClock, ContentsChange
<1>2. now' \in Times /\ contents' \in [Sessions -> Contents]
  BY RoomIdsAssumption DEF RoomClock, ContentsChange, RoomTypeOK, Times
<1>3. RoomTypeOK'
  BY <1>1, <1>2 DEF RoomTypeOK, Exists
<1> QED
  BY <1>1, <1>3, AssignmentsUntouched, DevicesUntouched


LEMMA RoomInitHolds == RoomInit => RoomInv
<1> SUFFICES ASSUME RoomInit PROVE RoomInv
  OBVIOUS
<1> USE DEF RoomInit
<1>1. /\ rooms \in [RoomIds -> Room \cup {Absent}] /\ \A r \in RoomIds : ~Exists(r)
  BY DEF Exists
<1>2. program \in [Sessions -> ProgramSession] /\ \A s \in Sessions : ~program[s].active
  <2>1. NoTime \in Times
    BY RoomIdsAssumption DEF NoTime, Times
  <2>2. Inactive \in ProgramSession
    BY <2>1 DEF Inactive, ProgramSession
  <2>3. Inactive.active = FALSE
    BY DEF Inactive
  <2> QED
    BY <2>2, <2>3
<1>3. /\ mapping \in [Normals -> ProgramRoomMapping \cup {NoMapping}]
      /\ assigned \in [Sessions -> RoomAssignment \cup {Unassigned}]
  OBVIOUS
<1>4. endpoint \in [RoomIds \X Roles -> [device: Devices \cup {NoDevice}, raced: BOOLEAN]]
  BY DEF NoEndpoint
<1>5. request \in [Requests -> [room: RoomIds \cup {NoRoom}, role: Roles, device: Devices \cup {NoDevice},
                                current: Devices \cup {NoDevice}, raced: BOOLEAN]]
  BY DEF NoRequest, Roles
<1>6. contents \in [Sessions -> Contents] /\ now \in Times
  BY RoomContentsAssumption, RoomIdsAssumption DEF Expected, NoTime, Times
<1>7. RoomTypeOK
  <2>1. tx \in [Writers -> ReconcileTx] /\ outdated \subseteq Sessions
    BY NoTxFacts
  <2> QED
    BY <2>1, <1>1, <1>2, <1>3, <1>4, <1>5, <1>6 DEF RoomTypeOK
<1>8. FollowsMapping
  BY <1>2 DEF FollowsMapping, Located
<1>11. TxInv
  BY NoTxFacts DEF TxInv, Owns
<1>9. ArchivedHasNoDevice
  <2>1. \A r \in RoomIds, role \in Roles : <<r, role>> \in RoomIds \X Roles
    OBVIOUS
  <2> QED
    BY <2>1 DEF ArchivedHasNoDevice
<1>10. RequestsNotice
  BY RoomIdsAssumption DEF RequestsNotice, NoRequest
<1> QED
  BY <1>7, <1>8, <1>9, <1>10, <1>11 DEF RoomInv

LEMMA RoomStepKeeps == RoomInv /\ [RoomNext]_roomVars => RoomInv'
<1> SUFFICES ASSUME RoomInv, [RoomNext]_roomVars PROVE RoomInv'
  OBVIOUS
<1>1. CASE ProgramNext
  <2>1. ASSUME NEW w \in Writers, NEW x \in Snapshots, DeployProgram(w, x.program, x.central) PROVE RoomInv'
    BY <2>1, RoomSnapshotsAssumption, DeployKeeps
  <2>2. ASSUME NEW w \in Writers, NEW l \in Normals, NEW r \in RoomIds \cup {NoRoom}, save_mapping(w, l, r)
        PROVE  RoomInv'
    BY <2>2, SaveMappingKeeps
  <2>3. ASSUME NEW w \in Writers, ReadMappings(w) \/ LockAssignments(w) \/ CommitProgram(w) \/ RollBack(w)
        PROVE  RoomInv'
    BY <2>3, ReadsKeep, CommitProgramKeeps, RollBackKeeps
  <2> QED
    BY <1>1, <2>1, <2>2, <2>3, RoomClockKeeps DEF ProgramNext
<1>2. CASE EndpointNext
  BY <1>2, AssignDeviceKeeps, CommitDeviceKeeps DEF EndpointNext
<1>3. CASE EditNext
  <2>1. ASSUME NEW r \in RoomIds, NEW l \in Labels, create_room(r, l) \/ rename_room(r, l) PROVE RoomInv'
    BY <2>1, EditsKeep
  <2>2. ASSUME NEW r \in RoomIds, archive_room(r) PROVE RoomInv'
    BY <2>2, ArchiveKeeps
  <2>3. ASSUME NEW r \in RoomIds, restore_room(r) PROVE RoomInv'
    <3>1. rooms[r] \in Room
      BY <2>3 DEF RoomInv, RoomTypeOK, restore_room, Exists
    <3>2. rooms[r].label \in Labels
      BY <3>1 DEF Room
    <3> QED
      BY <3>2, <2>3, EditsKeep
  <2>4. ASSUME NEW r \in RoomIds, NEW on \in BOOLEAN, enable_room(r, on) PROVE RoomInv'
    <3>1. rooms[r] \in Room
      BY <2>4 DEF RoomInv, RoomTypeOK, enable_room, Exists
    <3>2. rooms[r].label \in Labels
      BY <3>1 DEF Room
    <3> QED
      BY <3>2, <2>4, EditsKeep
  <2> QED
    BY <1>3, <2>1, <2>2, <2>3, <2>4 DEF EditNext
<1>4. CASE \E s \in Sessions, c \in Contents : ContentsChange(s, c)
  BY <1>4, RoomClockKeeps
<1>5. CASE UNCHANGED roomVars
  <2>1. UNCHANGED <<rooms, program, mapping, assigned, endpoint, request, contents, now, tx, outdated>>
    BY <1>5 DEF roomVars
  <2>2. RoomTypeOK'
    BY <2>1 DEF RoomInv, RoomTypeOK, Exists
  <2> QED
    BY <2>1, <2>2, AssignmentsUntouched, DevicesUntouched DEF RoomInv
<1> QED
  BY <1>1, <1>2, <1>3, <1>4, <1>5 DEF RoomNext

\* The assignments follow the mappings, those of an outdated reconciliation apart, what
\* the operator is shown of locations and failures is true, and an archived room has only a device that a racing request put
\* there, for all rooms, sessions, labels and programs (materialize_program_room_mappings,
\* reconcile_program_room_assignments, program_locations, assign_device, update_room).
THEOREM RoomsAreSafe == RoomSpec => []RoomsSafe
<1>1. RoomInv => RoomsSafe
  BY LocationsAreTruthful, FailuresAreShown DEF RoomInv, RoomsSafe
<1> QED
  BY <1>1, RoomInitHolds, RoomStepKeeps, PTL DEF RoomSpec

-----------------------------------------------------------------------------
(* Rooms: what a step may not do.                                          *)

\* A deployment never overrides a mapping that exists, however its transaction overlaps
\* with the operators', for all rooms, sessions, labels and programs
\* (materialize_program_room_mappings, save_mapping).
THEOREM RoomsAreKept == RoomSpec => RoomsKept
<1> DEFINE Survive == program' # program =>
                          \A l \in Normals : mapping[l] # NoMapping => mapping'[l] = mapping[l]
<1>1. RoomInv /\ RoomNext => Survive
  <2> SUFFICES ASSUME RoomInv, RoomNext, program' # program PROVE Survive
    OBVIOUS
  <2>1. CASE ProgramNext
    <3>1. PICK w \in Writers : CommitProgram(w)
      BY <2>1 DEF ProgramNext, DeployProgram, save_mapping, ReadMappings, LockAssignments, RollBack, RoomClock
    <3> DEFINE t == tx[w]
    <3>2. t.deploys /\ mapping' = Overlaid(t.own)
      BY <3>1 DEF CommitProgram
    <3>3. \A l \in Normals : t.own[l] # NoMapping => mapping[l] = NoMapping
      BY <3>2 DEF RoomInv, TxInv
    <3> HIDE DEF t
    <3> QED
      BY <3>2, <3>3 DEF Overlaid
  <2>2. CASE EndpointNext
    BY <2>2 DEF EndpointNext, assign_device, CommitDevice
  <2>3. CASE EditNext
    BY <2>3 DEF EditNext, create_room, rename_room, archive_room, restore_room, enable_room
  <2>4. CASE \E s \in Sessions, c \in Contents : ContentsChange(s, c)
    BY <2>4 DEF ContentsChange
  <2> QED
    BY <2>1, <2>2, <2>3, <2>4 DEF RoomNext
<1>2. RoomInv /\ [RoomNext]_roomVars => [Survive]_roomVars
  BY <1>1
<1> QED
  BY <1>2, RoomInitHolds, RoomStepKeeps, PTL DEF RoomSpec, RoomsKept, MappingsSurvive

-----------------------------------------------------------------------------
(* The share: jobs.                                                        *)

ShareInv == ShareTypeOK /\ JobsHeld /\ ScanComes /\ IntakeHonest

LEMMA DropIsPair == ASSUME NEW k \in Drops PROVE k # <<>> /\ k = <<k[1], k[2]>> /\ k[1] \in Paths /\ k[2] \in Stamps
BY DEF Drops

\* A live job fails or succeeds within its attempts.
LEMMA JobSettles ==
    ASSUME NEW job \in ShareJob, job.attempts < MaxShareAttempts
    PROVE  /\ ShareFailed(job) \in ShareJob /\ ShareSucceeded(job) \in ShareJob
           /\ ShareFailed(job).status # "SUCCEEDED" /\ ~LiveShareJob(ShareSucceeded(job))
           /\ LiveShareJob(ShareFailed(job)) => ShareFailed(job).attempts < MaxShareAttempts
<1>1. job.attempts \in 0..MaxShareAttempts /\ MaxShareAttempts \in Nat
  BY ShareAssumption DEF ShareJob
<1>2. job.attempts + 1 \in 0..MaxShareAttempts
  BY <1>1
<1>3. CASE job.attempts + 1 < MaxShareAttempts
  <2>1. ShareFailed(job) = [attempts |-> job.attempts + 1, status |-> "RETRY_WAIT"]
    BY <1>3 DEF ShareFailed
  <2> QED
    BY <2>1, <1>2, <1>3 DEF ShareJob, ShareSucceeded, LiveShareJob
<1>4. CASE ~(job.attempts + 1 < MaxShareAttempts)
  <2>1. ShareFailed(job) = [attempts |-> job.attempts + 1, status |-> "EXHAUSTED"]
    BY <1>4 DEF ShareFailed
  <2> QED
    BY <2>1, <1>2 DEF ShareJob, ShareSucceeded, LiveShareJob
<1> QED
  BY <1>3, <1>4

LEMMA NewJobFacts ==
    /\ NewShareJob \in ShareJob /\ LiveShareJob(NewShareJob) /\ NewShareJob.attempts < MaxShareAttempts
    /\ NewShareJob.status # "SUCCEEDED"
BY ShareAssumption DEF NewShareJob, ShareJob, LiveShareJob

\* A process takes a state, and the others stay in theirs.
LEMMA GoesFacts ==
    ASSUME ShareTypeOK, NEW w \in ShareWorkers, NEW st \in ShareProcess, Goes(w, st)
    PROVE  /\ shareWorker' \in [ShareWorkers -> ShareProcess] /\ shareWorker'[w] = st
           /\ \A v \in ShareWorkers : v # w => shareWorker'[v] = shareWorker[v]
BY DEF ShareTypeOK, Goes

\* What the process that holds k does to the job, the retirement and the object of k
\* concerns no other process.
LEMMA JobStep ==
    ASSUME ShareInv, NEW w \in ShareWorkers, NEW k \in Drops, scans' = scans,
           \A v \in ShareWorkers \ {w} : shareWorker'[v] = shareWorker[v] /\ shareWorker[v].drop # k,
           shareWorker'[w].drop \in {k, <<>>},
           DOMAIN intakes' = DOMAIN intakes,
           \A x \in DOMAIN intakes : x # k => intakes'[x] = intakes[x],
           DOMAIN retirements \subseteq DOMAIN retirements',
           DOMAIN retirements' \subseteq DOMAIN retirements \cup {k},
           \A x \in DOMAIN retirements : x # k => retirements'[x] = retirements[x],
           \A x \in Drops : x # k => objects'[x] = objects[x],
           Holding(w)',
           k \in DOMAIN intakes =>
              /\ LiveShareJob(intakes'[k]) => intakes'[k].attempts < MaxShareAttempts
              /\ intakes'[k].status = "SUCCEEDED" => objects'[k].state = "AVAILABLE" /\ k \in DOMAIN retirements',
           k \in DOMAIN retirements' =>
              /\ objects'[k].state = "AVAILABLE"
              /\ LiveShareJob(retirements'[k]) => retirements'[k].attempts < MaxShareAttempts
    PROVE  JobsHeld' /\ IntakeHonest'
<1> USE DEF ShareInv
<1>0. DOMAIN intakes \subseteq Drops /\ DOMAIN retirements \subseteq DOMAIN intakes
      /\ \A v \in ShareWorkers : shareWorker[v].drop \in Drops \cup {<<>>}
  BY DEF ShareTypeOK, ShareProcess
<1>1. ASSUME NEW v \in ShareWorkers, v # w PROVE Holding(v)'
  <2> DEFINE d == shareWorker[v].drop
  <2>1. shareWorker'[v] = shareWorker[v] /\ d # k
    BY <1>1
  <2>2. /\ d # <<>> => \A u \in ShareWorkers \ {v} : shareWorker[u].drop # d
        /\ shareWorker[v].at \in {"down", "boot", "idle", "scan"} <=> d = <<>>
        /\ shareWorker[v].at \in {"stream", "publish", "ingested"} =>
               d \in DOMAIN intakes /\ LiveShareJob(intakes[d])
        /\ Does(v, "stream") => objects[d].state = "STAGING"
        /\ Does(v, "publish") => objects[d].state = "FINALIZING"
        /\ Does(v, "ingested") => objects[d].state = "AVAILABLE"
        /\ shareWorker[v].at \in {"complete", "unlink", "retired"} =>
               d \in DOMAIN retirements /\ LiveShareJob(retirements[d])
    BY DEF JobsHeld, Holding
  <2>3. d # <<>> => \A u \in ShareWorkers \ {v} : shareWorker'[u].drop # d
    BY <2>1, <2>2
  <2>4. /\ d # <<>> => objects'[d] = objects[d]
        /\ d \in DOMAIN intakes => d \in DOMAIN intakes' /\ intakes'[d] = intakes[d]
        /\ d \in DOMAIN retirements => d \in DOMAIN retirements' /\ retirements'[d] = retirements[d]
    BY <2>1, <1>0
  <2> HIDE DEF d
  <2>5. shareWorker'[v].drop = d /\ shareWorker'[v].at = shareWorker[v].at
    BY <2>1 DEF d
  <2> QED
    BY <2>2, <2>3, <2>4, <2>5 DEF Holding, Does
<1>2. \A v \in ShareWorkers : Holding(v)'
  BY <1>1
<1>3. \A x \in DOMAIN intakes' : LiveShareJob(intakes'[x]) => intakes'[x].attempts < MaxShareAttempts
  BY DEF JobsHeld
<1>4. \A x \in DOMAIN retirements' :
           /\ objects'[x].state = "AVAILABLE"
           /\ LiveShareJob(retirements'[x]) => retirements'[x].attempts < MaxShareAttempts
  BY <1>0 DEF JobsHeld
<1>5. JobsHeld'
  BY <1>2, <1>3, <1>4 DEF JobsHeld, LiveScans, LiveShareJob
<1>6. IntakeHonest'
  BY <1>0 DEF IntakeHonest
<1> QED
  BY <1>5, <1>6

\* A process that has nothing in hand goes elsewhere.
LEMMA RestStep ==
    ASSUME ShareInv, NEW w \in ShareWorkers, NEW st \in ShareProcess, Goes(w, st),
           st.drop = <<>>, st.at \in {"down", "boot", "idle", "scan"},
           UNCHANGED <<intakes, retirements, objects>>,
           \A i \in DOMAIN scans' : scans'[i] < MaxShareAttempts
    PROVE  JobsHeld' /\ IntakeHonest'
<1> USE DEF ShareInv
<1>1. shareWorker'[w] = st /\ \A v \in ShareWorkers : v # w => shareWorker'[v] = shareWorker[v]
  BY GoesFacts
<1>2. Holding(w)'
  BY <1>1 DEF Holding, Does
<1>3. ASSUME NEW v \in ShareWorkers, v # w PROVE Holding(v)'
  BY <1>1, <1>3 DEF JobsHeld, Holding, Does
<1>4. JobsHeld'
  BY <1>2, <1>3 DEF JobsHeld, LiveScans
<1>5. IntakeHonest'
  BY DEF IntakeHonest
<1> QED
  BY <1>4, <1>5

-----------------------------------------------------------------------------
(* The share: scans.                                                       *)

\* A step of a process that has nothing to do with scans.
LEMMA ScanKept ==
    ASSUME ShareInv, NEW w \in ShareWorkers, NEW st \in ShareProcess, Goes(w, st), st.at # "scan",
           st.at = "down" \/ ~(Does(w, "down") \/ Does(w, "boot")),
           UNCHANGED <<scans, scanExhausted, overlap>>
    PROVE  ScanComes'
<1> USE DEF ShareInv
<1>1. shareWorker'[w] = st /\ \A v \in ShareWorkers : v # w => shareWorker'[v] = shareWorker[v]
  BY GoesFacts
<1>2. CASE overlap \/ scanExhausted
  BY <1>2 DEF ScanComes
<1>3. CASE ~(overlap \/ scanExhausted)
  <2>1. \A u, v \in ShareWorkers : Does(u, "scan")' /\ Does(v, "scan")' => u = v
    BY <1>1, <1>3 DEF ScanComes, Does
  <2>2. \A u \in ShareWorkers :
           Does(u, "scan")' /\ ~shareWorker'[u].successor => LiveScans' \ {shareWorker'[u].scan} # {}
    BY <1>1, <1>3 DEF ScanComes, Does, LiveScans
  <2>3. LiveScans' # {} \/ \A u \in ShareWorkers : Does(u, "down")' \/ (Does(u, "boot")' /\ shareWorker'[u].successor)
    BY <1>1, <1>3 DEF ScanComes, Does, LiveScans
  <2> QED
    BY <2>1, <2>2, <2>3 DEF ScanComes
<1> QED
  BY <1>2, <1>3

LEMMA ScanUntouched ==
    ASSUME ShareInv, UNCHANGED <<scans, scanExhausted, overlap, shareWorker>>
    PROVE  ScanComes'
BY DEF ShareInv, ScanComes, Does, LiveScans

\* The scan rows with a new one where the process found none.
LEMMA NextScanFacts ==
    ASSUME ShareTypeOK, NEW w \in ShareWorkers, NEW rows, DOMAIN rows \subseteq DOMAIN scans,
           \A i \in DOMAIN rows : rows[i] = scans[i],
           shareWorker[w].successor => LiveScans # ScanRows
    PROVE  /\ DOMAIN rows \subseteq DOMAIN NextScan(w, rows)
           /\ DOMAIN NextScan(w, rows) \subseteq ScanRows
           /\ \A i \in DOMAIN NextScan(w, rows) : NextScan(w, rows)[i] = 0 \/ (i \in DOMAIN scans /\ NextScan(w, rows)[i] = scans[i])
           /\ shareWorker[w].successor => DOMAIN NextScan(w, rows) # {}
           /\ ~shareWorker[w].successor => NextScan(w, rows) = rows
<1>0. DOMAIN scans \subseteq ScanRows
  BY DEF ShareTypeOK
<1>1. CASE ~shareWorker[w].successor
  BY <1>0, <1>1 DEF NextScan
<1>2. CASE shareWorker[w].successor
  <2> DEFINE n == CHOOSE i \in ScanRows : i \notin LiveScans
             next == NextScan(w, rows)
  <2>1. n \in ScanRows /\ n \notin DOMAIN scans
    BY <1>0, <1>2 DEF LiveScans
  <2>2. next = [i \in DOMAIN rows \cup {n} |-> IF i \in DOMAIN rows THEN rows[i] ELSE 0]
    BY <1>2 DEF NextScan
  <2> HIDE DEF n, next
  <2>3. \A i \in DOMAIN rows \cup {n} : next[i] = IF i \in DOMAIN rows THEN rows[i] ELSE 0
    BY <2>2
  <2>4. DOMAIN next = DOMAIN rows \cup {n}
    BY <2>2
  <2> QED
    BY <2>1, <2>3, <2>4, <1>0, <1>2 DEF next
<1> QED
  BY <1>1, <1>2


-----------------------------------------------------------------------------
(* The share: the steps.                                                   *)

LEMMA StatesTyped ==
    /\ Resting \in ShareProcess /\ Resting.drop = <<>> /\ Resting.at = "idle"
    /\ [Resting EXCEPT !.at = "down"] \in ShareProcess
    /\ \A b \in BOOLEAN : [Resting EXCEPT !.at = "boot", !.successor = b] \in ShareProcess
    /\ \A i \in ScanRows, T \in SUBSET Drops, b \in BOOLEAN :
          [Resting EXCEPT !.at = "scan", !.scan = i, !.queued = T, !.successor = b] \in ShareProcess
    /\ \A k \in Drops, at \in {"stream", "ingested", "complete"} :
          [Resting EXCEPT !.at = at, !.drop = k] \in ShareProcess
BY DEF Resting, ShareProcess, NoScan

\* Processes and scans as the type invariant has them.
LEMMA ShareTyped ==
    ASSUME ShareTypeOK
    PROVE  /\ shareWorker \in [ShareWorkers -> ShareProcess]
           /\ \A w \in ShareWorkers : /\ shareWorker[w] \in ShareProcess
                                      /\ shareWorker[w].drop \in Drops \cup {<<>>}
                                      /\ shareWorker[w].queued \subseteq Drops
                                      /\ shareWorker[w].successor \in BOOLEAN
           /\ DOMAIN scans \subseteq ScanRows
           /\ DOMAIN intakes \subseteq Drops /\ \A k \in DOMAIN intakes : intakes[k] \in ShareJob
           /\ DOMAIN retirements \subseteq DOMAIN intakes
           /\ \A k \in DOMAIN retirements : retirements[k] \in ShareJob
BY DEF ShareTypeOK, ShareProcess

\* A request is left without its worker only by a process that works on a retirement.
LEMMA AbandonedTyped ==
    ASSUME ShareTypeOK, JobsHeld, NEW w \in ShareWorkers
    PROVE  /\ Abandoned(w) \in [Drops -> [checking: Nat, unlinking: Nat]]
           /\ \A k \in Drops :
                  /\ Abandoned(w)[k].checking > 0 =>
                         orphans[k].checking > 0 \/ (Does(w, "complete") /\ k = shareWorker[w].drop)
                  /\ Abandoned(w)[k].unlinking > 0 =>
                         orphans[k].unlinking > 0 \/ (Does(w, "unlink") /\ k = shareWorker[w].drop)
<1> DEFINE k == shareWorker[w].drop
           Counts == [checking: Nat, unlinking: Nat]
<1>0. orphans \in [Drops -> Counts]
  BY DEF ShareTypeOK
<1>1. Does(w, "complete") \/ Does(w, "unlink") => k \in Drops
  BY ShareTyped DEF JobsHeld, Holding, Does
<1>2. CASE Does(w, "complete")
  <2> DEFINE o == [orphans[k] EXCEPT !.checking = @ + 1]
  <2>1. o \in Counts /\ o.unlinking = orphans[k].unlinking
    BY <1>0, <1>1, <1>2
  <2>2. Abandoned(w) = [orphans EXCEPT ![k] = o]
    BY <1>2 DEF Abandoned
  <2> HIDE DEF o, k
  <2> QED
    BY <2>1, <2>2, <1>0, <1>1, <1>2 DEF k
<1>3. CASE ~Does(w, "complete") /\ Does(w, "unlink")
  <2> DEFINE o == [orphans[k] EXCEPT !.unlinking = @ + 1]
  <2>1. o \in Counts /\ o.checking = orphans[k].checking
    BY <1>0, <1>1, <1>3
  <2>2. Abandoned(w) = [orphans EXCEPT ![k] = o]
    BY <1>3 DEF Abandoned
  <2> HIDE DEF o, k
  <2> QED
    BY <2>1, <2>2, <1>0, <1>1, <1>3 DEF k
<1>4. CASE ~Does(w, "complete") /\ ~Does(w, "unlink")
  BY <1>0, <1>4 DEF Abandoned
<1> QED
  BY <1>2, <1>3, <1>4

\* A process starts.
LEMMA BootKeeps == ASSUME ShareInv, NEW w \in ShareWorkers, BootShare(w) PROVE ShareInv'
<1> USE DEF ShareInv
<1> DEFINE st == [Resting EXCEPT !.at = "boot", !.successor = LiveScans = {}]
<1>1. /\ Does(w, "down") /\ Goes(w, st)
      /\ UNCHANGED <<incoming, scans, scanExhausted, intakes, retirements, objects, dropped, shareFaults, again, overlap, orphans, exposed>>
  BY DEF BootShare
<1>2. st \in ShareProcess /\ st.drop = <<>> /\ st.at = "boot" /\ st.successor = (LiveScans = {})
  BY StatesTyped DEF Resting
<1> HIDE DEF st
<1>3. /\ shareWorker' \in [ShareWorkers -> ShareProcess] /\ shareWorker'[w] = st
      /\ \A v \in ShareWorkers : v # w => shareWorker'[v] = shareWorker[v]
  BY <1>1, <1>2, GoesFacts
<1>4. ShareTypeOK'
  BY <1>1, <1>3 DEF ShareTypeOK
<1>5. JobsHeld' /\ IntakeHonest'
  BY <1>1, <1>2, RestStep DEF JobsHeld, LiveScans
<1>6. ScanComes'
  <2>1. CASE overlap \/ scanExhausted
    BY <2>1, <1>1 DEF ScanComes
  <2>2. CASE ~(overlap \/ scanExhausted)
    BY <2>2, <1>1, <1>2, <1>3 DEF ScanComes, Does, LiveScans
  <2> QED
    BY <2>1, <2>2
<1> QED
  BY <1>4, <1>5, <1>6

LEMMA BootedKeeps == ASSUME ShareInv, NEW w \in ShareWorkers, ShareBooted(w) PROVE ShareInv'
<1> USE DEF ShareInv
<1>1. /\ Does(w, "boot") /\ Goes(w, Resting) /\ scans' = NextScan(w, scans)
      /\ shareWorker[w].successor => LiveScans # ScanRows
      /\ UNCHANGED <<incoming, scanExhausted, intakes, retirements, objects, dropped, shareFaults, again, overlap, orphans, exposed>>
  BY DEF ShareBooted
<1>2. /\ shareWorker' \in [ShareWorkers -> ShareProcess] /\ shareWorker'[w] = Resting
      /\ \A v \in ShareWorkers : v # w => shareWorker'[v] = shareWorker[v]
  BY <1>1, StatesTyped, GoesFacts
<1>3. /\ DOMAIN scans \subseteq DOMAIN scans' /\ DOMAIN scans' \subseteq ScanRows
      /\ \A i \in DOMAIN scans' : scans'[i] = 0 \/ (i \in DOMAIN scans /\ scans'[i] = scans[i])
      /\ shareWorker[w].successor => DOMAIN scans' # {}
  BY <1>1, NextScanFacts
<1>4. \A i \in DOMAIN scans' : scans'[i] < MaxShareAttempts /\ scans'[i] \in 0..MaxShareAttempts
  BY <1>3, ShareAssumption DEF JobsHeld, LiveScans, ShareTypeOK
<1>5. ShareTypeOK'
  BY <1>1, <1>2, <1>3, <1>4 DEF ShareTypeOK
<1>6. JobsHeld' /\ IntakeHonest'
  BY <1>1, <1>4, StatesTyped, RestStep
<1>7. ScanComes'
  <2>1. CASE overlap \/ scanExhausted
    BY <2>1, <1>1 DEF ScanComes
  <2>2. CASE ~(overlap \/ scanExhausted)
    <3>1. LiveScans' # {}
      BY <2>2, <1>1, <1>3 DEF ScanComes, Does, LiveScans
    <3>2. LiveScans \subseteq LiveScans'
      BY <1>3 DEF LiveScans
    <3>3. \A v \in ShareWorkers : Does(v, "scan")' => v # w /\ Does(v, "scan") /\ shareWorker'[v] = shareWorker[v]
      BY <1>2, StatesTyped DEF Does
    <3> QED
      BY <2>2, <3>1, <3>2, <3>3 DEF ScanComes
  <2> QED
    BY <2>1, <2>2
<1> QED
  BY <1>5, <1>6, <1>7

LEMMA DiesKeeps == ASSUME ShareInv, NEW w \in ShareWorkers, ShareWorkerDies(w) PROVE ShareInv'
<1> USE DEF ShareInv
<1> DEFINE st == [Resting EXCEPT !.at = "down"]
<1>1. /\ shareFaults < MaxShareFaults /\ shareFaults' = shareFaults + 1 /\ Goes(w, st)
      /\ UNCHANGED <<incoming, scans, scanExhausted, intakes, retirements, objects, dropped, again, overlap, exposed>>
      /\ orphans' = Abandoned(w)
  BY DEF ShareWorkerDies, ShareFault
<1>2. st \in ShareProcess /\ st.drop = <<>> /\ st.at = "down"
  BY StatesTyped DEF Resting
<1> HIDE DEF st
<1>3. shareWorker' \in [ShareWorkers -> ShareProcess]
  BY <1>1, <1>2, GoesFacts
<1>4. shareFaults' \in 0..MaxShareFaults
  BY <1>1, ShareAssumption DEF ShareTypeOK
<1>5. ShareTypeOK'
  BY <1>1, <1>3, <1>4, AbandonedTyped DEF ShareTypeOK
<1>6. JobsHeld' /\ IntakeHonest'
  BY <1>1, <1>2, RestStep DEF JobsHeld, LiveScans
<1>7. ScanComes'
  BY <1>1, <1>2, ScanKept
<1> QED
  BY <1>5, <1>6, <1>7

LEMMA ReadShareKeeps ==
    ASSUME ShareInv, NEW w \in ShareWorkers, NEW i \in DOMAIN scans, ReadShare(w, i)
    PROVE  ShareInv'
<1> USE DEF ShareInv
<1> DEFINE st == [Resting EXCEPT !.at = "scan", !.scan = i, !.queued = Seen \ DOMAIN intakes,
                                 !.successor = NeedsSuccessor(i)]
<1>1. /\ Does(w, "idle") /\ Goes(w, st)
      /\ overlap' = (overlap \/ \E v \in ShareWorkers : Does(v, "scan"))
      /\ UNCHANGED <<incoming, scans, scanExhausted, intakes, retirements, objects, dropped, shareFaults, again, orphans, exposed>>
  BY DEF ReadShare
<1>2. Seen \subseteq Drops
  BY DEF Seen, Drops, ShareTypeOK
<1>3. /\ st \in ShareProcess /\ st.drop = <<>> /\ st.at = "scan" /\ st.scan = i
      /\ st.successor = NeedsSuccessor(i)
  <2>1. i \in ScanRows /\ NeedsSuccessor(i) \in BOOLEAN
    BY ShareTyped DEF NeedsSuccessor
  <2>2. Seen \ DOMAIN intakes \in SUBSET Drops
    BY <1>2
  <2> QED
    BY <2>1, <2>2, StatesTyped DEF Resting
<1> HIDE DEF st
<1>4. /\ shareWorker' \in [ShareWorkers -> ShareProcess] /\ shareWorker'[w] = st
      /\ \A v \in ShareWorkers : v # w => shareWorker'[v] = shareWorker[v]
  BY <1>1, <1>3, GoesFacts
<1>5. overlap' \in BOOLEAN
  BY <1>1 DEF ShareTypeOK
<1>6. ShareTypeOK'
  BY <1>1, <1>4, <1>5 DEF ShareTypeOK
<1>7. JobsHeld' /\ IntakeHonest'
  BY <1>1, <1>3, RestStep DEF JobsHeld, LiveScans
<1>8. ScanComes'
  <2>1. CASE overlap' \/ scanExhausted
    BY <2>1, <1>1 DEF ScanComes
  <2>2. CASE ~overlap' /\ ~scanExhausted
    <3>1. \A v \in ShareWorkers : ~Does(v, "scan")
      BY <2>2, <1>1
    <3>2. \A v \in ShareWorkers : Does(v, "scan")' => v = w
      BY <3>1, <1>4 DEF Does
    <3>3. ~NeedsSuccessor(i) => LiveScans \ {i} # {}
      BY DEF NeedsSuccessor
    <3>4. LiveScans' # {} /\ LiveScans' = LiveScans
      BY <1>1 DEF LiveScans
    <3>5. shareWorker'[w].scan = i /\ shareWorker'[w].successor = NeedsSuccessor(i)
      BY <1>3, <1>4
    <3> QED
      BY <3>2, <3>3, <3>4, <3>5 DEF ScanComes
  <2> QED
    BY <2>1, <2>2
<1> QED
  BY <1>6, <1>7, <1>8

LEMMA CommitScanKeeps == ASSUME ShareInv, NEW w \in ShareWorkers, CommitShareScan(w) PROVE ShareInv'
<1> USE DEF ShareInv
<1> DEFINE down == [Resting EXCEPT !.at = "down"]
           rest == [i \in {j \in DOMAIN scans : j # shareWorker[w].scan} |-> scans[i]]
<1>1. /\ Does(w, "scan")
      /\ shareWorker[w].successor => LiveScans # ScanRows
      /\ UNCHANGED <<incoming, scanExhausted, retirements, objects, dropped, shareFaults, again, overlap, orphans, exposed>>
  BY DEF CommitShareScan
<1>2. CASE shareWorker[w].queued \cap DOMAIN intakes # {}
  <2>1. Goes(w, down) /\ UNCHANGED <<scans, intakes>>
    BY <1>2 DEF CommitShareScan
  <2>2. down \in ShareProcess /\ down.drop = <<>> /\ down.at = "down"
    BY StatesTyped DEF Resting
  <2> HIDE DEF down
  <2>3. shareWorker' \in [ShareWorkers -> ShareProcess]
    BY <2>1, <2>2, GoesFacts
  <2>4. ShareTypeOK'
    BY <1>1, <2>1, <2>3 DEF ShareTypeOK
  <2>5. JobsHeld' /\ IntakeHonest'
    BY <1>1, <2>1, <2>2, RestStep DEF JobsHeld, LiveScans
  <2>6. ScanComes'
    BY <1>1, <2>1, <2>2, ScanKept
  <2> QED
    BY <2>4, <2>5, <2>6
<1>3. CASE shareWorker[w].queued \cap DOMAIN intakes = {}
  <2>1. /\ scans' = NextScan(w, rest) /\ Goes(w, Resting)
        /\ intakes' = [k \in DOMAIN intakes \cup shareWorker[w].queued |->
                              IF k \in DOMAIN intakes THEN intakes[k] ELSE NewShareJob]
    BY <1>3 DEF CommitShareScan, RestrictDomain, Restrict
  <2>2. /\ DOMAIN rest = DOMAIN scans \ {shareWorker[w].scan} /\ DOMAIN rest \subseteq DOMAIN scans
        /\ \A i \in DOMAIN rest : rest[i] = scans[i]
    OBVIOUS
  <2> HIDE DEF rest
  <2>3. /\ DOMAIN rest \subseteq DOMAIN scans' /\ DOMAIN scans' \subseteq ScanRows
        /\ \A i \in DOMAIN scans' : scans'[i] = 0 \/ (i \in DOMAIN scans /\ scans'[i] = scans[i])
        /\ shareWorker[w].successor => DOMAIN scans' # {}
    BY <1>1, <2>1, <2>2, NextScanFacts
  <2>4. \A i \in DOMAIN scans' : scans'[i] < MaxShareAttempts /\ scans'[i] \in 0..MaxShareAttempts
    BY <2>3, ShareAssumption DEF JobsHeld, LiveScans, ShareTypeOK
  <2>5. /\ shareWorker' \in [ShareWorkers -> ShareProcess] /\ shareWorker'[w] = Resting
        /\ \A v \in ShareWorkers : v # w => shareWorker'[v] = shareWorker[v]
    BY <2>1, StatesTyped, GoesFacts
  <2>6. /\ DOMAIN intakes' = DOMAIN intakes \cup shareWorker[w].queued
        /\ \A k \in DOMAIN intakes : intakes'[k] = intakes[k]
        /\ \A k \in DOMAIN intakes' : k \notin DOMAIN intakes => intakes'[k] = NewShareJob
    BY <2>1
  <2>7. ShareTypeOK'
    <3>1. DOMAIN intakes' \subseteq Drops /\ DOMAIN retirements' \subseteq DOMAIN intakes'
      BY <1>1, <2>6, ShareTyped
    <3>2. \A k \in DOMAIN intakes' : intakes'[k] \in ShareJob
      BY <2>6, NewJobFacts, ShareTyped
    <3> QED
      BY <1>1, <2>3, <2>4, <2>5, <3>1, <3>2 DEF ShareTypeOK
  <2>8. \A v \in ShareWorkers : Holding(v)'
    <3>1. Holding(w)'
      BY <2>5, StatesTyped DEF Holding, Does
    <3>2. ASSUME NEW v \in ShareWorkers, v # w PROVE Holding(v)'
      <4>1. Holding(v) /\ shareWorker'[v] = shareWorker[v]
        BY <2>5, <3>2 DEF JobsHeld
      <4>2. shareWorker[v].drop # <<>> => \A u \in ShareWorkers \ {v} : shareWorker'[u].drop # shareWorker[v].drop
        BY <4>1, <2>5, StatesTyped DEF Holding
      <4> QED
        BY <4>1, <4>2, <1>1, <2>6 DEF Holding, Does
    <3> QED
      BY <3>1, <3>2
  <2>9. JobsHeld'
    <3>1. \A k \in DOMAIN intakes' : LiveShareJob(intakes'[k]) => intakes'[k].attempts < MaxShareAttempts
      BY <2>6, NewJobFacts DEF JobsHeld
    <3>2. \A k \in DOMAIN retirements' :
             /\ objects'[k].state = "AVAILABLE"
             /\ LiveShareJob(retirements'[k]) => retirements'[k].attempts < MaxShareAttempts
      BY <1>1 DEF JobsHeld
    <3> QED
      BY <2>4, <2>8, <3>1, <3>2 DEF JobsHeld, LiveScans, LiveShareJob
  <2>10. IntakeHonest'
    BY <1>1, <2>6, NewJobFacts DEF IntakeHonest
  <2>11. ScanComes'
    <3>1. CASE overlap \/ scanExhausted
      BY <3>1, <1>1 DEF ScanComes
    <3>2. CASE ~(overlap \/ scanExhausted)
      <4>1. \A v \in ShareWorkers : ~Does(v, "scan")'
        BY <3>2, <1>1, <2>5, StatesTyped DEF ScanComes, Does
      <4>2. LiveScans' # {}
        <5>1. CASE shareWorker[w].successor
          BY <5>1, <2>3 DEF LiveScans
        <5>2. CASE ~shareWorker[w].successor
          BY <5>2, <3>2, <1>1, <2>2, <2>3 DEF ScanComes, LiveScans
        <5> QED
          BY <5>1, <5>2
      <4> QED
        BY <4>1, <4>2 DEF ScanComes
    <3> QED
      BY <3>1, <3>2
  <2> QED
    BY <2>7, <2>9, <2>10, <2>11
<1> QED
  BY <1>2, <1>3

LEMMA ScanFailsKeeps ==
    ASSUME ShareInv, NEW w \in ShareWorkers, NEW i \in DOMAIN scans, ShareScanFails(w, i)
    PROVE  ShareInv'
<1> USE DEF ShareInv
<1>1. /\ Does(w, "idle")
      /\ UNCHANGED <<incoming, intakes, retirements, objects, shareWorker, dropped, shareFaults, again, overlap, orphans, exposed>>
  BY DEF ShareScanFails
<1>2. /\ DOMAIN scans' \subseteq DOMAIN scans
      /\ \A j \in DOMAIN scans' : scans'[j] < MaxShareAttempts /\ scans'[j] \in 0..MaxShareAttempts
      /\ (DOMAIN scans' = DOMAIN scans /\ scanExhausted' = scanExhausted) \/ scanExhausted' = TRUE
  <2>0. \A j \in DOMAIN scans : scans[j] < MaxShareAttempts /\ scans[j] \in 0..MaxShareAttempts
    BY DEF JobsHeld, LiveScans, ShareTypeOK
  <2>1. CASE scans[i] + 1 < MaxShareAttempts
    <3>1. scans' = [scans EXCEPT ![i] = @ + 1] /\ scanExhausted' = scanExhausted
      BY <2>1 DEF ShareScanFails
    <3>2. DOMAIN scans' = DOMAIN scans /\ \A j \in DOMAIN scans : scans'[j] = IF j = i THEN scans[i] + 1 ELSE scans[j]
      BY <3>1
    <3>3. scans[i] + 1 \in 0..MaxShareAttempts
      BY <2>0, ShareAssumption
    <3> QED
      BY <3>1, <3>2, <3>3, <2>0, <2>1
  <2>2. CASE ~(scans[i] + 1 < MaxShareAttempts)
    <3>1. scans' = [j \in {x \in DOMAIN scans : x # i} |-> scans[j]] /\ scanExhausted' = TRUE
      BY <2>2 DEF ShareScanFails, RestrictDomain, Restrict
    <3> QED
      BY <3>1, <2>0
  <2> QED
    BY <2>1, <2>2
<1>3. ShareTypeOK'
  <2>1. DOMAIN scans' \subseteq ScanRows /\ scanExhausted' \in BOOLEAN
    BY <1>2 DEF ShareTypeOK
  <2> QED
    BY <2>1, <1>1, <1>2 DEF ShareTypeOK
<1>4. JobsHeld'
  BY <1>1, <1>2 DEF JobsHeld, Holding, Does, LiveScans, LiveShareJob
<1>5. IntakeHonest'
  BY <1>1 DEF IntakeHonest
<1>6. ScanComes'
  BY <1>1, <1>2 DEF ScanComes, Does, LiveScans
<1> QED
  BY <1>3, <1>4, <1>5, <1>6


ObjectRows == [state: {"NONE", "STAGING", "FINALIZING", "AVAILABLE", "FAILED"}, torn: BOOLEAN]

LEMMA ObjectsTyped ==
    ASSUME ShareTypeOK, NEW k \in Drops, NEW o, objects' = [objects EXCEPT ![k] = o],
           o \in ObjectRows
    PROVE  /\ objects' \in [Drops -> ObjectRows] /\ objects'[k] = o
           /\ \A x \in Drops : x # k => objects'[x] = objects[x]
BY DEF ShareTypeOK, ObjectRows

LEMMA StateChange ==
    ASSUME ShareTypeOK, NEW k \in Drops, NEW state \in {"STAGING", "FINALIZING", "AVAILABLE", "FAILED"},
           objects' = [objects EXCEPT ![k].state = state]
    PROVE  /\ objects' \in [Drops -> ObjectRows] /\ objects'[k].state = state
           /\ \A x \in Drops : x # k => objects'[x] = objects[x]
<1> DEFINE o == [objects[k] EXCEPT !.state = state]
<1>1. o \in ObjectRows /\ o.state = state
  BY DEF ShareTypeOK, ObjectRows
<1>2. objects' = [objects EXCEPT ![k] = o]
  OBVIOUS
<1> HIDE DEF o
<1> QED
  BY <1>1, <1>2, ObjectsTyped

LEMMA FailedIntake ==
    ASSUME ShareInv, NEW k \in DOMAIN intakes, LiveShareJob(intakes[k]), FailIntake(k)
    PROVE  /\ DOMAIN intakes' = DOMAIN intakes /\ \A x \in DOMAIN intakes : x # k => intakes'[x] = intakes[x]
           /\ \A x \in DOMAIN intakes' : intakes'[x] \in ShareJob
           /\ LiveShareJob(intakes'[k]) => intakes'[k].attempts < MaxShareAttempts
           /\ intakes'[k].status # "SUCCEEDED"
<1>1. intakes[k] \in ShareJob /\ intakes[k].attempts < MaxShareAttempts
  BY ShareTyped DEF ShareInv, JobsHeld
<1>2. intakes'[k] = ShareFailed(intakes[k]) /\ DOMAIN intakes' = DOMAIN intakes
      /\ \A x \in DOMAIN intakes : x # k => intakes'[x] = intakes[x]
  BY DEF FailIntake
<1> QED
  BY <1>1, <1>2, JobSettles, ShareTyped DEF ShareInv

\* The processes other than the one that works on k, or than an idle one when k is free.
LEMMA OthersElsewhere ==
    ASSUME ShareInv, NEW w \in ShareWorkers, NEW k \in Drops, DropFree(k) \/ shareWorker[w].drop = k
    PROVE  \A v \in ShareWorkers \ {w} : shareWorker[v].drop # k
<1>1. k # <<>>
  BY DropIsPair
<1> QED
  BY <1>1 DEF DropFree, ShareInv, JobsHeld, Holding

\* ingest_async and AllocateFails, where the job fails and nothing else happens.
LEMMA IntakeFailsKeeps ==
    ASSUME ShareInv, NEW w \in ShareWorkers, NEW k \in DOMAIN intakes, IntakeDue(k), FailIntake(k),
           Does(w, "idle"), shareFaults' \in 0..MaxShareFaults,
           UNCHANGED <<incoming, scans, scanExhausted, retirements, objects, shareWorker, dropped, again, overlap, orphans, exposed>>
    PROVE  ShareInv'
<1> USE DEF ShareInv
<1>1. k \in Drops /\ LiveShareJob(intakes[k]) /\ DropFree(k)
  BY ShareTyped DEF IntakeDue
<1>2. /\ DOMAIN intakes' = DOMAIN intakes /\ \A x \in DOMAIN intakes : x # k => intakes'[x] = intakes[x]
      /\ \A x \in DOMAIN intakes' : intakes'[x] \in ShareJob
      /\ LiveShareJob(intakes'[k]) => intakes'[k].attempts < MaxShareAttempts
      /\ intakes'[k].status # "SUCCEEDED"
  BY <1>1, FailedIntake
<1>3. ShareTypeOK'
  BY <1>2 DEF ShareTypeOK
<1>4. \A v \in ShareWorkers \ {w} : shareWorker'[v] = shareWorker[v] /\ shareWorker[v].drop # k
  BY <1>1, OthersElsewhere
<1>5. shareWorker'[w].drop = <<>> /\ Holding(w)'
  BY DEF JobsHeld, Holding, Does
<1>6. k \in DOMAIN retirements' => objects'[k].state = "AVAILABLE"
                                   /\ (LiveShareJob(retirements'[k]) => retirements'[k].attempts < MaxShareAttempts)
  BY DEF JobsHeld
<1>7. JobsHeld' /\ IntakeHonest'
  BY <1>1, <1>2, <1>4, <1>5, <1>6, JobStep
<1>8. ScanComes'
  BY ScanUntouched
<1> QED
  BY <1>3, <1>7, <1>8

LEMMA IngestKeeps ==
    ASSUME ShareInv, NEW w \in ShareWorkers, NEW k \in DOMAIN intakes, ingest_async(w, k)
    PROVE  ShareInv'
<1> USE DEF ShareInv
<1>1. /\ Does(w, "idle") /\ IntakeDue(k)
      /\ UNCHANGED <<incoming, scans, scanExhausted, retirements, dropped, shareFaults, again, overlap, orphans, exposed>>
  BY DEF ingest_async
<1>2. k \in Drops /\ LiveShareJob(intakes[k]) /\ DropFree(k) /\ k # <<>>
  BY <1>1, ShareTyped, DropIsPair DEF IntakeDue
<1>3. \A v \in ShareWorkers \ {w} : shareWorker[v].drop # k
  BY <1>2, OthersElsewhere
<1>4. ~(Does(w, "down") \/ Does(w, "boot"))
  BY <1>1 DEF Does
<1>5. /\ LiveShareJob(intakes[k]) => intakes[k].attempts < MaxShareAttempts
      /\ intakes[k].status # "SUCCEEDED"
      /\ k \in DOMAIN retirements =>
            /\ objects[k].state = "AVAILABLE"
            /\ LiveShareJob(retirements[k]) => retirements[k].attempts < MaxShareAttempts
  BY <1>2 DEF JobsHeld, LiveShareJob
<1>6. CASE /\ SourceIs(k) /\ FoundRetry(k)
           /\ Goes(w, [Resting EXCEPT !.at = "ingested", !.drop = k])
           /\ UNCHANGED <<objects, intakes>>
  <2> DEFINE st == [Resting EXCEPT !.at = "ingested", !.drop = k]
  <2>1. st \in ShareProcess /\ st.at = "ingested" /\ st.drop = k
    BY <1>2, StatesTyped DEF Resting
  <2>2. Goes(w, st) /\ UNCHANGED <<objects, intakes>> /\ objects[k].state = "AVAILABLE"
    BY <1>6 DEF FoundRetry
  <2> HIDE DEF st
  <2>3. /\ shareWorker' \in [ShareWorkers -> ShareProcess] /\ shareWorker'[w] = st
        /\ \A v \in ShareWorkers : v # w => shareWorker'[v] = shareWorker[v]
    BY <2>1, <2>2, GoesFacts
  <2>4. ShareTypeOK'
    BY <1>1, <2>2, <2>3 DEF ShareTypeOK
  <2>5. Holding(w)'
    BY <1>2, <1>3, <2>1, <2>2, <2>3 DEF Holding, Does
  <2>6. JobsHeld' /\ IntakeHonest'
    BY <1>1, <1>2, <1>3, <1>5, <2>1, <2>2, <2>3, <2>5, JobStep
  <2>7. ScanComes'
    BY <1>1, <1>4, <2>1, <2>2, ScanKept
  <2> QED
    BY <2>4, <2>6, <2>7
<1>7. CASE /\ SourceIs(k) /\ objects[k].state = "NONE"
           /\ objects' = [objects EXCEPT ![k].state = "STAGING"]
           /\ Goes(w, [Resting EXCEPT !.at = "stream", !.drop = k])
           /\ UNCHANGED intakes
  <2> DEFINE st == [Resting EXCEPT !.at = "stream", !.drop = k]
  <2>1. st \in ShareProcess /\ st.at = "stream" /\ st.drop = k
    BY <1>2, StatesTyped DEF Resting
  <2>2. Goes(w, st) /\ UNCHANGED intakes /\ objects[k].state = "NONE"
    BY <1>7
  <2> HIDE DEF st
  <2>3. /\ shareWorker' \in [ShareWorkers -> ShareProcess] /\ shareWorker'[w] = st
        /\ \A v \in ShareWorkers : v # w => shareWorker'[v] = shareWorker[v]
    BY <2>1, <2>2, GoesFacts
  <2>4. /\ objects' \in [Drops -> ObjectRows] /\ objects'[k].state = "STAGING"
        /\ \A x \in Drops : x # k => objects'[x] = objects[x]
    BY <1>2, <1>7, StateChange
  <2>5. ShareTypeOK'
    BY <1>1, <2>2, <2>3, <2>4 DEF ShareTypeOK, ObjectRows
  <2>6. Holding(w)'
    BY <1>2, <1>3, <2>1, <2>2, <2>3, <2>4 DEF Holding, Does
  <2>7. JobsHeld' /\ IntakeHonest'
    BY <1>1, <1>2, <1>3, <1>5, <2>1, <2>2, <2>3, <2>4, <2>6, JobStep
  <2>8. ScanComes'
    BY <1>1, <1>4, <2>1, <2>2, ScanKept
  <2> QED
    BY <2>5, <2>7, <2>8
<1>8. CASE FailIntake(k) /\ UNCHANGED <<objects, shareWorker>>
  <2>1. shareFaults' \in 0..MaxShareFaults
    BY <1>1 DEF ShareTypeOK
  <2> QED
    BY <2>1, <1>1, <1>8, IntakeFailsKeeps
<1> QED
  BY <1>6, <1>7, <1>8 DEF ingest_async

LEMMA AllocateFailsKeeps ==
    ASSUME ShareInv, NEW w \in ShareWorkers, NEW k \in DOMAIN intakes, AllocateFails(w, k)
    PROVE  ShareInv'
<1>1. /\ Does(w, "idle") /\ IntakeDue(k) /\ FailIntake(k)
      /\ shareFaults < MaxShareFaults /\ shareFaults' = shareFaults + 1
      /\ UNCHANGED <<incoming, scans, scanExhausted, retirements, objects, shareWorker, dropped, again, overlap, orphans, exposed>>
  BY DEF AllocateFails, ShareFault
<1>2. shareFaults' \in 0..MaxShareFaults
  BY <1>1, ShareAssumption DEF ShareInv, ShareTypeOK
<1> QED
  BY <1>1, <1>2, IntakeFailsKeeps

\* A process that streams or publishes breaks off: the object is FAILED or FINALIZING.
LEMMA BreakOffKeeps ==
    ASSUME ShareInv, NEW w \in ShareWorkers, NEW k, k = shareWorker[w].drop,
           Does(w, "stream") \/ Does(w, "publish"), NEW state \in {"FAILED", "FINALIZING"},
           objects' = [objects EXCEPT ![k].state = state], FailIntake(k), Goes(w, Resting),
           shareFaults' \in 0..MaxShareFaults,
           UNCHANGED <<incoming, scans, scanExhausted, retirements, dropped, again, overlap, orphans, exposed>>
    PROVE  ShareInv'
<1> USE DEF ShareInv
<1>1. /\ k \in DOMAIN intakes /\ LiveShareJob(intakes[k]) /\ objects[k].state # "AVAILABLE"
      /\ ~(Does(w, "down") \/ Does(w, "boot"))
  BY DEF JobsHeld, Holding, Does
<1>2. k \in Drops /\ k \notin DOMAIN retirements
  BY <1>1, ShareTyped DEF JobsHeld
<1>3. /\ DOMAIN intakes' = DOMAIN intakes /\ \A x \in DOMAIN intakes : x # k => intakes'[x] = intakes[x]
      /\ \A x \in DOMAIN intakes' : intakes'[x] \in ShareJob
      /\ LiveShareJob(intakes'[k]) => intakes'[k].attempts < MaxShareAttempts
      /\ intakes'[k].status # "SUCCEEDED"
  BY <1>1, FailedIntake
<1>4. /\ objects' \in [Drops -> ObjectRows] /\ \A x \in Drops : x # k => objects'[x] = objects[x]
  BY <1>2, StateChange
<1>5. /\ shareWorker' \in [ShareWorkers -> ShareProcess] /\ shareWorker'[w] = Resting
      /\ \A v \in ShareWorkers : v # w => shareWorker'[v] = shareWorker[v]
  BY StatesTyped, GoesFacts
<1>6. ShareTypeOK'
  BY <1>3, <1>4, <1>5 DEF ShareTypeOK, ObjectRows
<1>7. \A v \in ShareWorkers \ {w} : shareWorker'[v] = shareWorker[v] /\ shareWorker[v].drop # k
  BY <1>2, <1>5, OthersElsewhere
<1>8. shareWorker'[w].drop = <<>> /\ Holding(w)'
  BY <1>5, StatesTyped DEF Holding, Does
<1>9. JobsHeld' /\ IntakeHonest'
  BY <1>2, <1>3, <1>4, <1>7, <1>8, JobStep
<1>10. ScanComes'
  BY <1>1, StatesTyped, ScanKept
<1> QED
  BY <1>6, <1>9, <1>10

\* A process that streams or publishes gets on with it.
LEMMA ObjectAdvances ==
    ASSUME ShareInv, NEW w \in ShareWorkers, NEW k, k = shareWorker[w].drop, NEW at,
           \/ Does(w, "stream") /\ at = "publish" /\ objects'[k].state = "FINALIZING"
           \/ Does(w, "publish") /\ at = "ingested" /\ objects'[k].state = "AVAILABLE",
           objects' \in [Drops -> ObjectRows], \A x \in Drops : x # k => objects'[x] = objects[x],
           Goes(w, [shareWorker[w] EXCEPT !.at = at]),
           UNCHANGED <<incoming, scans, scanExhausted, intakes, retirements, dropped, shareFaults, again, overlap, orphans, exposed>>
    PROVE  ShareInv'
<1> USE DEF ShareInv
<1> DEFINE st == [shareWorker[w] EXCEPT !.at = at]
<1>1. /\ k \in DOMAIN intakes /\ LiveShareJob(intakes[k]) /\ objects[k].state # "AVAILABLE"
      /\ ~(Does(w, "down") \/ Does(w, "boot"))
  BY DEF JobsHeld, Holding, Does
<1>2. k \in Drops /\ k \notin DOMAIN retirements /\ k # <<>>
  BY <1>1, ShareTyped, DropIsPair DEF JobsHeld
<1>3. st \in ShareProcess /\ st.at = at /\ st.drop = k /\ at \in {"publish", "ingested"}
  <2>1. shareWorker[w] \in ShareProcess
    BY ShareTyped
  <2> QED
    BY <2>1 DEF ShareProcess
<1>4. Goes(w, st)
  OBVIOUS
<1> HIDE DEF st
<1>5. /\ shareWorker' \in [ShareWorkers -> ShareProcess] /\ shareWorker'[w] = st
      /\ \A v \in ShareWorkers : v # w => shareWorker'[v] = shareWorker[v]
  BY <1>3, <1>4, GoesFacts
<1>6. ShareTypeOK'
  BY <1>5 DEF ShareTypeOK, ObjectRows
<1>7. \A v \in ShareWorkers \ {w} : shareWorker'[v] = shareWorker[v] /\ shareWorker[v].drop # k
  BY <1>2, <1>5, OthersElsewhere
<1>8. Holding(w)'
  BY <1>1, <1>2, <1>3, <1>5, <1>7 DEF Holding, Does
<1>9. /\ LiveShareJob(intakes[k]) => intakes[k].attempts < MaxShareAttempts
      /\ intakes[k].status # "SUCCEEDED"
  BY <1>1 DEF JobsHeld, LiveShareJob
<1>10. JobsHeld' /\ IntakeHonest'
  BY <1>2, <1>3, <1>5, <1>7, <1>8, <1>9, JobStep
<1>11. ScanComes'
  BY <1>1, <1>3, <1>4, ScanKept
<1> QED
  BY <1>6, <1>10, <1>11

LEMMA StreamKeeps == ASSUME ShareInv, NEW w \in ShareWorkers, StreamShare(w) PROVE ShareInv'
<1> USE DEF ShareInv
<1> DEFINE k == shareWorker[w].drop
<1>1. /\ Does(w, "stream") /\ UNCHANGED <<incoming, scans, scanExhausted, retirements, dropped, again, overlap, orphans, exposed>>
  BY DEF StreamShare
<1>2. k \in Drops
  BY <1>1, ShareTyped DEF JobsHeld, Holding, Does
<1>3. CASE /\ objects' = [objects EXCEPT ![k] = [state |-> "FINALIZING", torn |-> ~SourceIs(k)]]
           /\ Goes(w, [shareWorker[w] EXCEPT !.at = "publish"])
           /\ UNCHANGED <<intakes, shareFaults>>
  <2> DEFINE o == [state |-> "FINALIZING", torn |-> ~SourceIs(k)]
  <2>1. o \in ObjectRows /\ o.state = "FINALIZING"
    BY DEF ObjectRows
  <2>2. objects' = [objects EXCEPT ![k] = o]
    BY <1>3
  <2> HIDE DEF o
  <2>3. /\ objects' \in [Drops -> ObjectRows] /\ objects'[k].state = "FINALIZING"
        /\ \A x \in Drops : x # k => objects'[x] = objects[x]
    BY <1>2, <2>1, <2>2, ObjectsTyped
  <2> HIDE DEF k
  <2> QED
    BY <1>1, <1>3, <2>3, ObjectAdvances DEF k
<1>4. CASE /\ shareFaults' = IF SourceIs(k) THEN shareFaults + 1 ELSE shareFaults
           /\ SourceIs(k) => shareFaults < MaxShareFaults
           /\ objects' = [objects EXCEPT ![k].state = "FAILED"]
           /\ FailIntake(k) /\ Goes(w, Resting)
  <2>1. shareFaults' \in 0..MaxShareFaults
    BY <1>4, ShareAssumption DEF ShareTypeOK
  <2> QED
    BY <2>1, <1>1, <1>4, BreakOffKeeps
<1> QED
  BY <1>3, <1>4 DEF StreamShare

LEMMA PublishKeeps == ASSUME ShareInv, NEW w \in ShareWorkers, PublishShare(w) PROVE ShareInv'
<1> USE DEF ShareInv
<1> DEFINE k == shareWorker[w].drop
<1>1. /\ Does(w, "publish") /\ UNCHANGED <<incoming, scans, scanExhausted, retirements, dropped, again, overlap, orphans, exposed>>
  BY DEF PublishShare
<1>2. k \in Drops
  BY <1>1, ShareTyped DEF JobsHeld, Holding, Does
<1>3. CASE /\ objects' = [objects EXCEPT ![k].state = "AVAILABLE"]
           /\ Goes(w, [shareWorker[w] EXCEPT !.at = "ingested"])
           /\ UNCHANGED <<intakes, shareFaults>>
  <2>1. /\ objects' \in [Drops -> ObjectRows] /\ objects'[k].state = "AVAILABLE"
        /\ \A x \in Drops : x # k => objects'[x] = objects[x]
    BY <1>2, <1>3, StateChange
  <2> QED
    BY <1>1, <1>3, <2>1, ObjectAdvances
<1>4. CASE /\ ShareFault
           /\ \E state \in {"FAILED", "FINALIZING"} : objects' = [objects EXCEPT ![k].state = state]
           /\ FailIntake(k) /\ Goes(w, Resting)
  <2>1. shareFaults' \in 0..MaxShareFaults
    BY <1>4, ShareAssumption DEF ShareTypeOK, ShareFault
  <2>2. PICK state \in {"FAILED", "FINALIZING"} : objects' = [objects EXCEPT ![k].state = state]
    BY <1>4
  <2> QED
    BY <2>1, <2>2, <1>1, <1>4, BreakOffKeeps
<1> QED
  BY <1>3, <1>4 DEF PublishShare

LEMMA CommitIntakeKeeps == ASSUME ShareInv, NEW w \in ShareWorkers, CommitIntake(w) PROVE ShareInv'
<1> USE DEF ShareInv
<1> DEFINE k == shareWorker[w].drop
<1>1. /\ Does(w, "ingested") /\ Goes(w, Resting)
      /\ intakes' = [intakes EXCEPT ![k] = ShareSucceeded(@)]
      /\ retirements' = [d \in DOMAIN retirements \cup {k} |->
                              IF d = k THEN NewShareJob ELSE retirements[d]]
      /\ UNCHANGED <<incoming, scans, scanExhausted, objects, dropped, shareFaults, again, overlap, orphans, exposed>>
  BY DEF CommitIntake
<1>2. /\ k \in DOMAIN intakes /\ LiveShareJob(intakes[k]) /\ objects[k].state = "AVAILABLE"
      /\ ~(Does(w, "down") \/ Does(w, "boot"))
  BY <1>1 DEF JobsHeld, Holding, Does
<1>3. k \in Drops /\ intakes[k] \in ShareJob /\ intakes[k].attempts < MaxShareAttempts
  BY <1>2, ShareTyped DEF JobsHeld
<1> HIDE DEF k
<1>4. /\ DOMAIN intakes' = DOMAIN intakes /\ \A x \in DOMAIN intakes : x # k => intakes'[x] = intakes[x]
      /\ intakes'[k] = ShareSucceeded(intakes[k])
  BY <1>1, <1>2
<1>5. intakes'[k] \in ShareJob /\ ~LiveShareJob(intakes'[k])
  BY <1>3, <1>4, JobSettles
<1>6. /\ DOMAIN retirements' = DOMAIN retirements \cup {k} /\ retirements'[k] = NewShareJob
      /\ \A x \in DOMAIN retirements : x # k => retirements'[x] = retirements[x]
  BY <1>1
<1>7. /\ shareWorker' \in [ShareWorkers -> ShareProcess] /\ shareWorker'[w] = Resting
      /\ \A v \in ShareWorkers : v # w => shareWorker'[v] = shareWorker[v]
  BY <1>1, StatesTyped, GoesFacts
<1>8. ShareTypeOK'
  <2>1. /\ DOMAIN intakes' \subseteq Drops /\ \A x \in DOMAIN intakes' : intakes'[x] \in ShareJob
    BY <1>4, <1>5, ShareTyped
  <2>2. /\ DOMAIN retirements' \subseteq DOMAIN intakes'
        /\ \A x \in DOMAIN retirements' : retirements'[x] \in ShareJob
    BY <1>2, <1>4, <1>6, ShareTyped, NewJobFacts
  <2> QED
    BY <1>1, <1>7, <2>1, <2>2 DEF ShareTypeOK
<1>9. \A v \in ShareWorkers \ {w} : shareWorker'[v] = shareWorker[v] /\ shareWorker[v].drop # k
  BY <1>3, <1>7, OthersElsewhere DEF k
<1>10. shareWorker'[w].drop = <<>> /\ Holding(w)'
  BY <1>7, StatesTyped DEF Holding, Does
<1>11. JobsHeld' /\ IntakeHonest'
  BY <1>1, <1>2, <1>3, <1>4, <1>5, <1>6, <1>9, <1>10, NewJobFacts, JobStep
<1>12. ScanComes'
  BY <1>1, <1>2, StatesTyped, ScanKept
<1> QED
  BY <1>8, <1>11, <1>12

\* The process of a retirement asks for it, or goes on with it.
LEMMA RetireGoes ==
    ASSUME ShareInv, NEW w \in ShareWorkers, NEW k \in DOMAIN retirements, LiveShareJob(retirements[k]),
           DropFree(k) \/ shareWorker[w].drop = k, ~(Does(w, "down") \/ Does(w, "boot")),
           NEW st \in ShareProcess, Goes(w, st), st.drop = k, st.at \in {"complete", "unlink", "retired"},
           UNCHANGED <<scans, scanExhausted, intakes, retirements, objects, overlap>>
    PROVE  /\ shareWorker' \in [ShareWorkers -> ShareProcess]
           /\ JobsHeld' /\ IntakeHonest' /\ ScanComes'
<1> USE DEF ShareInv
<1>2. k \in Drops /\ k \in DOMAIN intakes /\ k # <<>>
  BY ShareTyped, DropIsPair
<1>4. /\ shareWorker' \in [ShareWorkers -> ShareProcess] /\ shareWorker'[w] = st
      /\ \A v \in ShareWorkers : v # w => shareWorker'[v] = shareWorker[v]
  BY GoesFacts
<1>7. \A v \in ShareWorkers \ {w} : shareWorker'[v] = shareWorker[v] /\ shareWorker[v].drop # k
  BY <1>2, <1>4, OthersElsewhere
<1>8. Holding(w)'
  BY <1>2, <1>4, <1>7 DEF Holding, Does
<1>9. /\ LiveShareJob(intakes[k]) => intakes[k].attempts < MaxShareAttempts
      /\ intakes[k].status = "SUCCEEDED" => objects[k].state = "AVAILABLE"
      /\ objects[k].state = "AVAILABLE"
      /\ LiveShareJob(retirements[k]) => retirements[k].attempts < MaxShareAttempts
  BY <1>2 DEF JobsHeld
<1>10. JobsHeld' /\ IntakeHonest'
  BY <1>2, <1>4, <1>7, <1>8, <1>9, JobStep
<1>11. ScanComes'
  BY ScanKept
<1> QED
  BY <1>4, <1>10, <1>11

LEMMA RetireKeeps ==
    ASSUME ShareInv, NEW w \in ShareWorkers, NEW k \in DOMAIN retirements, retire_smb(w, k)
    PROVE  ShareInv'
<1> USE DEF ShareInv
<1> DEFINE st == [Resting EXCEPT !.at = "complete", !.drop = k]
<1>1. /\ Does(w, "idle") /\ RetirementDue(k) /\ Goes(w, st)
      /\ UNCHANGED <<incoming, scans, scanExhausted, intakes, retirements, objects, dropped, shareFaults, again, overlap, orphans, exposed>>
  BY DEF retire_smb
<1>2. k \in Drops /\ LiveShareJob(retirements[k]) /\ DropFree(k) /\ ~(Does(w, "down") \/ Does(w, "boot"))
  BY <1>1, ShareTyped DEF RetirementDue, Does
<1>3. st \in ShareProcess /\ st.at = "complete" /\ st.drop = k
  BY <1>2, StatesTyped DEF Resting
<1> HIDE DEF st
<1>4. shareWorker' \in [ShareWorkers -> ShareProcess] /\ JobsHeld' /\ IntakeHonest' /\ ScanComes'
  BY <1>1, <1>2, <1>3, RetireGoes
<1>5. ShareTypeOK'
  BY <1>1, <1>4 DEF ShareTypeOK
<1> QED
  BY <1>4, <1>5

\* A process at the storage service has a retirement.
LEMMA AtService ==
    ASSUME ShareInv, NEW w \in ShareWorkers, Does(w, "complete") \/ Does(w, "unlink") \/ Does(w, "retired")
    PROVE  /\ shareWorker[w].drop \in DOMAIN retirements /\ shareWorker[w].drop \in Drops
           /\ LiveShareJob(retirements[shareWorker[w].drop]) /\ ~(Does(w, "down") \/ Does(w, "boot"))
<1>1. shareWorker[w].drop \in DOMAIN retirements /\ LiveShareJob(retirements[shareWorker[w].drop])
  BY DEF ShareInv, JobsHeld, Holding, Does
<1> QED
  BY <1>1, ShareTyped DEF ShareInv, Does

LEMMA AtTyped ==
    ASSUME ShareTypeOK, NEW w \in ShareWorkers, NEW at \in {"unlink", "retired"}
    PROVE  /\ [shareWorker[w] EXCEPT !.at = at] \in ShareProcess
           /\ [shareWorker[w] EXCEPT !.at = at].at = at
           /\ [shareWorker[w] EXCEPT !.at = at].drop = shareWorker[w].drop
<1>1. shareWorker[w] \in ShareProcess
  BY ShareTyped
<1> QED
  BY <1>1 DEF ShareProcess

LEMMA CompleteKeeps ==
    ASSUME ShareInv, NEW w \in ShareWorkers, complete_incoming(w)
    PROVE  ShareInv'
<1> USE DEF ShareInv
<1> DEFINE at == IF SameSource(shareWorker[w].drop) THEN "unlink" ELSE "retired"
           st == [shareWorker[w] EXCEPT !.at = at]
<1>1. /\ Does(w, "complete") /\ Goes(w, st)
      /\ UNCHANGED <<incoming, scans, scanExhausted, intakes, retirements, objects, dropped, shareFaults, again, overlap, orphans, exposed>>
  BY DEF complete_incoming
<1>2. at \in {"unlink", "retired"}
  OBVIOUS
<1> HIDE DEF at
<1>3. st \in ShareProcess /\ st.at = at /\ st.drop = shareWorker[w].drop
  BY <1>2, AtTyped
<1> HIDE DEF st
<1>4. shareWorker' \in [ShareWorkers -> ShareProcess] /\ JobsHeld' /\ IntakeHonest' /\ ScanComes'
  BY <1>1, <1>2, <1>3, AtService, RetireGoes
<1>5. ShareTypeOK'
  BY <1>1, <1>4 DEF ShareTypeOK
<1> QED
  BY <1>4, <1>5

LEMMA UnlinkedTyped ==
    ASSUME ShareTypeOK, NEW k \in Drops, Unlinked(k)
    PROVE  /\ incoming' \in [Paths -> Stamps \cup {NoFile}] /\ exposed' \subseteq Paths
           /\ incoming'[k[1]] = NoFile
           /\ \A p \in Paths : p # k[1] => incoming'[p] = incoming[p] /\ (p \in exposed <=> p \in exposed')
BY DropIsPair DEF Unlinked, ShareTypeOK

\* A retirement is settled, by the process that holds it or as a failure.
LEMMA RetirementSettles ==
    ASSUME ShareInv, NEW w \in ShareWorkers, NEW k \in DOMAIN retirements, LiveShareJob(retirements[k]),
           NEW job, job \in {ShareFailed(retirements[k]), ShareSucceeded(retirements[k])},
           retirements' = [retirements EXCEPT ![k] = job],
           \A v \in ShareWorkers \ {w} : shareWorker'[v] = shareWorker[v] /\ shareWorker[v].drop # k,
           shareWorker' \in [ShareWorkers -> ShareProcess], shareWorker'[w].drop = <<>>, Holding(w)',
           shareFaults' \in 0..MaxShareFaults,
           UNCHANGED <<incoming, scans, scanExhausted, intakes, objects, dropped, again, overlap, exposed>>,
           orphans' \in [Drops -> [checking: Nat, unlinking: Nat]]
    PROVE  ShareTypeOK' /\ JobsHeld' /\ IntakeHonest'
<1> USE DEF ShareInv
<1>1. /\ k \in Drops /\ k \in DOMAIN intakes
      /\ retirements[k] \in ShareJob /\ retirements[k].attempts < MaxShareAttempts
  BY ShareTyped DEF JobsHeld
<1>2. job \in ShareJob /\ (LiveShareJob(job) => job.attempts < MaxShareAttempts)
  BY <1>1, JobSettles
<1>3. /\ DOMAIN retirements' = DOMAIN retirements /\ retirements'[k] = job
      /\ \A x \in DOMAIN retirements : x # k => retirements'[x] = retirements[x]
  OBVIOUS
<1>4. ShareTypeOK'
  BY <1>2, <1>3 DEF ShareTypeOK
<1>5. /\ LiveShareJob(intakes[k]) => intakes[k].attempts < MaxShareAttempts
      /\ objects[k].state = "AVAILABLE"
  BY <1>1 DEF JobsHeld
<1>6. JobsHeld' /\ IntakeHonest'
  BY <1>1, <1>2, <1>3, <1>5, JobStep
<1> QED
  BY <1>4, <1>6

\* The process of a retirement settles it and rests.
LEMMA RetirementEnds ==
    ASSUME ShareInv, NEW w \in ShareWorkers, NEW k, k = shareWorker[w].drop,
           Does(w, "complete") \/ Does(w, "unlink") \/ Does(w, "retired"),
           NEW job, job \in {ShareFailed(retirements[k]), ShareSucceeded(retirements[k])},
           retirements' = [retirements EXCEPT ![k] = job], Goes(w, Resting),
           shareFaults' \in 0..MaxShareFaults,
           UNCHANGED <<incoming, scans, scanExhausted, intakes, objects, dropped, again, overlap, exposed>>,
           orphans' \in [Drops -> [checking: Nat, unlinking: Nat]]
    PROVE  ShareInv'
<1> USE DEF ShareInv
<1>1. k \in DOMAIN retirements /\ k \in Drops /\ LiveShareJob(retirements[k]) /\ ~(Does(w, "down") \/ Does(w, "boot"))
  BY AtService
<1>2. /\ shareWorker' \in [ShareWorkers -> ShareProcess] /\ shareWorker'[w] = Resting
      /\ \A v \in ShareWorkers : v # w => shareWorker'[v] = shareWorker[v]
  BY StatesTyped, GoesFacts
<1>3. \A v \in ShareWorkers \ {w} : shareWorker'[v] = shareWorker[v] /\ shareWorker[v].drop # k
  BY <1>1, <1>2, OthersElsewhere
<1>4. shareWorker'[w].drop = <<>> /\ Holding(w)'
  BY <1>2, StatesTyped DEF Holding, Does
<1>5. ShareTypeOK' /\ JobsHeld' /\ IntakeHonest'
  BY <1>1, <1>2, <1>3, <1>4, RetirementSettles
<1>6. ScanComes'
  BY <1>1, StatesTyped, ScanKept
<1> QED
  BY <1>5, <1>6

LEMMA CommitRetirementKeeps ==
    ASSUME ShareInv, NEW w \in ShareWorkers, CommitRetirement(w)
    PROVE  ShareInv'
<1> DEFINE k == shareWorker[w].drop
<1>1. /\ Does(w, "retired") /\ Goes(w, Resting)
      /\ retirements' = [retirements EXCEPT ![k] = ShareSucceeded(retirements[k])]
      /\ UNCHANGED <<incoming, scans, scanExhausted, intakes, objects, dropped, shareFaults, again, overlap, orphans, exposed>>
  BY DEF CommitRetirement
<1>2. shareFaults' \in 0..MaxShareFaults /\ orphans' \in [Drops -> [checking: Nat, unlinking: Nat]]
  BY <1>1 DEF ShareInv, ShareTypeOK
<1> HIDE DEF k
<1> QED
  BY <1>1, <1>2, RetirementEnds DEF k

LEMMA RetirementFailsKeeps ==
    ASSUME ShareInv, NEW w \in ShareWorkers, RetirementFails(w)
    PROVE  ShareInv'
<1> DEFINE k == shareWorker[w].drop
<1>1. /\ Does(w, "complete") \/ Does(w, "unlink")
      /\ shareFaults < MaxShareFaults /\ shareFaults' = shareFaults + 1 /\ Goes(w, Resting)
      /\ retirements' = [retirements EXCEPT ![k] = ShareFailed(retirements[k])]
      /\ orphans' = orphans \/ orphans' = Abandoned(w)
      /\ UNCHANGED <<incoming, scans, scanExhausted, intakes, objects, dropped, again, overlap, exposed>>
  BY DEF RetirementFails, ShareFault
<1>2. orphans' \in [Drops -> [checking: Nat, unlinking: Nat]]
  BY <1>1, AbandonedTyped DEF ShareInv, ShareTypeOK
<1>3. shareFaults' \in 0..MaxShareFaults
  BY <1>1, ShareAssumption DEF ShareInv, ShareTypeOK
<1> HIDE DEF k
<1> QED
  BY <1>1, <1>2, <1>3, RetirementEnds DEF k

LEMMA UnlinkKeeps ==
    ASSUME ShareInv, NEW w \in ShareWorkers, UnlinkSource(w)
    PROVE  ShareInv'
<1> USE DEF ShareInv
<1> DEFINE k == shareWorker[w].drop
           st == [shareWorker[w] EXCEPT !.at = "retired"]
<1>1. /\ Does(w, "unlink")
      /\ UNCHANGED <<scans, scanExhausted, intakes, objects, dropped, shareFaults, again, overlap, orphans>>
  BY DEF UnlinkSource
<1>2. CASE Unlinked(k) /\ Goes(w, st) /\ UNCHANGED retirements
  <2>1. st \in ShareProcess /\ st.at = "retired" /\ st.drop = k
    BY AtTyped
  <2>2. k \in DOMAIN retirements /\ k \in Drops /\ LiveShareJob(retirements[k]) /\ ~(Does(w, "down") \/ Does(w, "boot"))
    BY <1>1, AtService
  <2> HIDE DEF st
  <2>3. shareWorker' \in [ShareWorkers -> ShareProcess] /\ JobsHeld' /\ IntakeHonest' /\ ScanComes'
    BY <1>1, <1>2, <2>1, <2>2, RetireGoes
  <2>4. ShareTypeOK'
    BY <1>1, <1>2, <2>2, <2>3, UnlinkedTyped DEF ShareTypeOK
  <2> QED
    BY <2>3, <2>4
<1>3. CASE /\ retirements' = [retirements EXCEPT ![k] = ShareFailed(@)] /\ Goes(w, Resting)
           /\ UNCHANGED <<incoming, exposed>>
  <2>1. retirements' = [retirements EXCEPT ![k] = ShareFailed(retirements[k])]
    BY <1>3
  <2>2. shareFaults' \in 0..MaxShareFaults /\ orphans' \in [Drops -> [checking: Nat, unlinking: Nat]]
    BY <1>1 DEF ShareTypeOK
  <2> HIDE DEF k
  <2> QED
    BY <1>1, <1>3, <2>1, <2>2, RetirementEnds DEF k
<1> QED
  BY <1>2, <1>3 DEF UnlinkSource

\* Jobs and processes are what they were.
LEMMA WorkUntouched ==
    ASSUME ShareInv, UNCHANGED <<scans, scanExhausted, intakes, retirements, objects, shareWorker, overlap>>
    PROVE  JobsHeld' /\ IntakeHonest' /\ ScanComes'
<1>1. JobsHeld' /\ IntakeHonest'
  BY DEF ShareInv, JobsHeld, Holding, Does, LiveScans, LiveShareJob, IntakeHonest
<1> QED
  BY <1>1, ScanUntouched

\* What a request nobody waits for does to the requests.
LEMMA OrphanCounts ==
    ASSUME ShareTypeOK, NEW k \in Drops, OrphanCompletes(k)
    PROVE  /\ orphans' \in [Drops -> [checking: Nat, unlinking: Nat]]
           /\ \A x \in Drops : x # k => orphans'[x] = orphans[x]
           /\ orphans'[k].checking > 0 => orphans[k].checking > 0
           /\ orphans'[k].unlinking > 0 => orphans[k].unlinking > 0 \/ (orphans[k].checking > 0 /\ SameSource(k))
<1> DEFINE Counts == [checking: Nat, unlinking: Nat]
<1>0. orphans \in [Drops -> Counts] /\ orphans[k].checking \in Nat /\ orphans[k].unlinking \in Nat
  BY DEF ShareTypeOK
<1>1. CASE /\ orphans[k].checking > 0
           /\ orphans' = [orphans EXCEPT ![k] = [checking |-> @.checking - 1,
                               unlinking |-> IF SameSource(k) THEN @.unlinking + 1 ELSE @.unlinking]]
  <2> DEFINE n == IF SameSource(k) THEN orphans[k].unlinking + 1 ELSE orphans[k].unlinking
             o == [checking |-> orphans[k].checking - 1, unlinking |-> n]
  <2>1. n \in Nat /\ (n = orphans[k].unlinking \/ SameSource(k)) /\ orphans[k].checking - 1 \in Nat
    BY <1>0, <1>1
  <2>2. orphans' = [orphans EXCEPT ![k] = o]
    BY <1>1
  <2> HIDE DEF n
  <2>3. o \in Counts /\ o.unlinking = n
    BY <2>1
  <2> HIDE DEF o
  <2> QED
    BY <1>0, <1>1, <2>1, <2>2, <2>3
<1>2. CASE orphans[k].unlinking > 0 /\ orphans' = [orphans EXCEPT ![k].unlinking = @ - 1]
  <2> DEFINE o == [orphans[k] EXCEPT !.unlinking = @ - 1]
  <2>1. o \in Counts /\ o.checking = orphans[k].checking
    BY <1>0, <1>2
  <2>2. orphans' = [orphans EXCEPT ![k] = o]
    BY <1>2
  <2> HIDE DEF o
  <2> QED
    BY <1>0, <1>2, <2>1, <2>2
<1> QED
  BY <1>1, <1>2 DEF OrphanCompletes

LEMMA OrphanKeeps ==
    ASSUME ShareInv, NEW k \in Drops, OrphanCompletes(k)
    PROVE  ShareInv'
<1> USE DEF ShareInv
<1>1. UNCHANGED <<scans, scanExhausted, intakes, retirements, objects, shareWorker, dropped, shareFaults, again, overlap>>
  BY DEF OrphanCompletes
<1>2. incoming' \in [Paths -> Stamps \cup {NoFile}] /\ exposed' \subseteq Paths
  BY UnlinkedTyped DEF OrphanCompletes, ShareTypeOK
<1>3. ShareTypeOK'
  BY <1>1, <1>2, OrphanCounts DEF ShareTypeOK
<1> QED
  BY <1>1, <1>3, WorkUntouched

LEMMA DropKeeps ==
    ASSUME ShareInv, NEW p \in Paths, NEW s \in Stamps, DropFile(p, s)
    PROVE  ShareInv'
<1> USE DEF ShareInv
<1>1. /\ dropped < MaxDrops /\ dropped' = dropped + 1 /\ incoming' = [incoming EXCEPT ![p] = s]
      /\ again' = (IF <<p, s>> \in DOMAIN intakes THEN again \cup {<<p, s>>} ELSE again)
      /\ UNCHANGED <<scans, scanExhausted, intakes, retirements, objects, shareWorker, shareFaults, overlap, orphans>>
      /\ exposed' \subseteq exposed \cup {p}
  BY DEF DropFile
<1>2. incoming' \in [Paths -> Stamps \cup {NoFile}]
  BY <1>1 DEF ShareTypeOK
<1>3. dropped' \in 0..MaxDrops
  BY <1>1, ShareAssumption DEF ShareTypeOK
<1>4. again' \subseteq Drops
  BY <1>1 DEF ShareTypeOK, Drops
<1>5. ShareTypeOK'
  BY <1>1, <1>2, <1>3, <1>4 DEF ShareTypeOK
<1> QED
  BY <1>1, <1>5, WorkUntouched

LEMMA ShareInitHolds == ShareInit => ShareInv
<1> SUFFICES ASSUME ShareInit PROVE ShareInv
  OBVIOUS
<1> DEFINE down == [Resting EXCEPT !.at = "down"]
<1>1. /\ incoming = [p \in Paths |-> NoFile] /\ scans = <<>> /\ scanExhausted = FALSE
      /\ intakes = <<>> /\ retirements = <<>> /\ objects = [k \in Drops |-> NoObject]
      /\ shareWorker = [w \in ShareWorkers |-> down]
      /\ dropped = 0 /\ shareFaults = 0 /\ again = {} /\ overlap = FALSE /\ exposed = {}
  BY DEF ShareInit
<1>2. DOMAIN scans = {} /\ DOMAIN intakes = {} /\ DOMAIN retirements = {}
  BY <1>1
<1>3. down \in ShareProcess /\ down.drop = <<>> /\ down.at = "down"
  BY StatesTyped DEF Resting
<1> HIDE DEF down
<1>4. objects \in [Drops -> ObjectRows]
  BY <1>1 DEF NoObject, ObjectRows
<1>5. incoming \in [Paths -> Stamps \cup {NoFile}] /\ shareWorker \in [ShareWorkers -> ShareProcess]
  BY <1>1, <1>3
<1>6. dropped \in 0..MaxDrops /\ shareFaults \in 0..MaxShareFaults
  BY <1>1, ShareAssumption
<1>7. scanExhausted \in BOOLEAN /\ overlap \in BOOLEAN /\ again \subseteq Drops /\ exposed \subseteq Paths
  BY <1>1
<1>a. orphans \in [Drops -> [checking: Nat, unlinking: Nat]]
  BY DEF ShareInit
<1>8. ShareTypeOK
  BY <1>2, <1>4, <1>5, <1>6, <1>7, <1>a DEF ShareTypeOK, ObjectRows
<1>9. \A w \in ShareWorkers : shareWorker[w].drop = <<>> /\ shareWorker[w].at = "down"
  BY <1>1, <1>3
<1>10. JobsHeld /\ IntakeHonest
  BY <1>2, <1>9 DEF JobsHeld, Holding, Does, LiveScans, IntakeHonest
<1>11. ScanComes
  BY <1>9 DEF ScanComes, Does
<1> QED
  BY <1>8, <1>10, <1>11 DEF ShareInv

LEMMA ShareStepKeeps == ShareInv /\ [ShareNext]_shareVars => ShareInv'
<1> SUFFICES ASSUME ShareInv, [ShareNext]_shareVars PROVE ShareInv'
  OBVIOUS
<1>1. ASSUME NEW w \in ShareWorkers, ShareWorks(w) PROVE ShareInv'
  BY <1>1, BootKeeps, BootedKeeps, ReadShareKeeps, CommitScanKeeps, IngestKeeps, StreamKeeps, PublishKeeps,
     CommitIntakeKeeps, RetireKeeps, CompleteKeeps, UnlinkKeeps, CommitRetirementKeeps DEF ShareWorks
<1>2. ASSUME NEW w \in ShareWorkers, WorkFails(w) PROVE ShareInv'
  BY <1>2, DiesKeeps, AllocateFailsKeeps, RetirementFailsKeeps DEF WorkFails
<1>3. ASSUME NEW w \in ShareWorkers, NEW i \in DOMAIN scans, ShareScanFails(w, i) PROVE ShareInv'
  BY <1>3, ScanFailsKeeps
<1>4. CASE ShareUsers
  BY <1>4, DropKeeps DEF ShareUsers
<1>5. CASE \E k \in Drops : OrphanCompletes(k)
  BY <1>5, OrphanKeeps
<1>6. CASE UNCHANGED shareVars
  BY <1>6 DEF shareVars, ShareInv, ShareTypeOK, JobsHeld, Holding, Does, LiveScans, LiveShareJob, ScanComes,
              IntakeHonest
<1> QED
  BY <1>1, <1>2, <1>3, <1>4, <1>5, <1>6 DEF ShareNext

-----------------------------------------------------------------------------
(* The share: what is unlinked.                                            *)

\* A request nobody waits for was made for a retirement that was queued.
OrphansQueued == \A k \in Drops : orphans[k].checking > 0 => k \in DOMAIN retirements

\* What no step does to a queued retirement and its object.
ObjectsStay == DOMAIN retirements \subseteq DOMAIN retirements' /\ \A k \in DOMAIN retirements : objects'[k] = objects[k]

\* Nobody is about to unlink who was not, but for what he has just seen.
NoNewUnlink == \A k \in Drops : Unlinking(k)' => Unlinking(k) \/ (SameSource(k) /\ k \in DOMAIN retirements)

\* The path of a file that is about to be unlinked stays, is emptied or is marked.
PathsMarked == \A k \in Drops : Unlinking(k)' =>
                  \/ incoming'[k[1]] = NoFile \/ k[1] \in exposed'
                  \/ incoming'[k[1]] = incoming[k[1]] /\ k[1] \notin exposed

\* No orphan comes but from a process that works on a retirement.
NoNewOrphan == \A k \in Drops : orphans'[k].checking > 0 => orphans[k].checking > 0 \/ k \in DOMAIN retirements

LEMMA BackedStep ==
    ASSUME ShareInv, UnlinksBacked, OrphansQueued, ObjectsStay, NoNewUnlink, PathsMarked, NoNewOrphan
    PROVE  UnlinksBacked' /\ OrphansQueued'
<1>1. OrphansQueued'
  BY DEF OrphansQueued, NoNewOrphan, ObjectsStay
<1>2. ASSUME NEW k \in Drops, Unlinking(k)', incoming'[k[1]] # NoFile, k[1] \notin exposed'
      PROVE  SameSource(k)' /\ k \in DOMAIN retirements'
  <2>1. incoming'[k[1]] = incoming[k[1]] /\ k[1] \notin exposed
    BY <1>2 DEF PathsMarked
  <2>2. SameSource(k) /\ k \in DOMAIN retirements
    BY <1>2, <2>1 DEF NoNewUnlink, UnlinksBacked
  <2>3. k \in DOMAIN retirements' /\ objects'[k] = objects[k]
    BY <2>2 DEF ObjectsStay
  <2> QED
    BY <2>1, <2>2, <2>3 DEF SameSource, SourceIs
<1> QED
  BY <1>1, <1>2 DEF UnlinksBacked

\* A step that leaves the share and the requests to the service alone.
LEMMA QuietStep ==
    ASSUME ShareInv, UnlinksBacked, OrphansQueued, ObjectsStay, UNCHANGED <<incoming, orphans, exposed>>,
           \A v \in ShareWorkers : shareWorker'[v].at = "unlink" => shareWorker'[v] = shareWorker[v]
    PROVE  UnlinksBacked' /\ OrphansQueued'
<1>1. ASSUME NEW k \in Drops, Unlinking(k)' PROVE Unlinking(k)
  BY <1>1 DEF Unlinking, Does
<1>2. NoNewUnlink /\ NoNewOrphan
  BY <1>1 DEF NoNewUnlink, NoNewOrphan
<1>3. PathsMarked
  BY DEF PathsMarked
<1> QED
  BY <1>2, <1>3, BackedStep

LEMMA Elsewhere ==
    ASSUME ShareTypeOK, NEW w \in ShareWorkers, NEW st \in ShareProcess, Goes(w, st), st.at # "unlink"
    PROVE  \A v \in ShareWorkers : shareWorker'[v].at = "unlink" => v # w /\ shareWorker'[v] = shareWorker[v]
BY GoesFacts

\* The object of a queued retirement is available, and so is none that is worked on.
LEMMA RetainedWith ==
    ASSUME ShareInv, NEW k \in Drops, objects[k].state # "AVAILABLE",
           \A x \in Drops : x # k => objects'[x] = objects[x], DOMAIN retirements \subseteq DOMAIN retirements'
    PROVE  ObjectsStay
BY ShareTyped DEF ObjectsStay, ShareInv, JobsHeld

LEMMA WorksBacked ==
    ASSUME ShareInv, UnlinksBacked, OrphansQueued, NEW w \in ShareWorkers, ShareWorks(w)
    PROVE  UnlinksBacked' /\ OrphansQueued'
<1> USE DEF ShareInv
<1> DEFINE Stays == \A v \in ShareWorkers : shareWorker'[v].at = "unlink" => shareWorker'[v] = shareWorker[v]
<1>0. ASSUME Goes(w, [Resting EXCEPT !.at = "down"]) \/ Goes(w, Resting) PROVE Stays
  <2>1. Goes(w, Resting) => Stays
    BY StatesTyped, Elsewhere
  <2>2. Goes(w, [Resting EXCEPT !.at = "down"]) => Stays
    <3> DEFINE st == [Resting EXCEPT !.at = "down"]
    <3>1. st \in ShareProcess /\ st.at # "unlink"
      BY StatesTyped DEF Resting
    <3> HIDE DEF st
    <3> QED
      BY <3>1, Elsewhere DEF st
  <2> QED
    BY <1>0, <2>1, <2>2
<1>1. CASE BootShare(w)
  <2> DEFINE st == [Resting EXCEPT !.at = "boot", !.successor = LiveScans = {}]
  <2>1. st \in ShareProcess /\ st.at = "boot"
    BY StatesTyped DEF Resting
  <2>2. Goes(w, st) /\ ObjectsStay /\ UNCHANGED <<incoming, orphans, exposed>>
    BY <1>1 DEF BootShare, ObjectsStay
  <2> HIDE DEF st
  <2> QED
    BY <2>1, <2>2, Elsewhere, QuietStep
<1>2. CASE ShareBooted(w)
  <2>1. Goes(w, Resting) /\ ObjectsStay /\ UNCHANGED <<incoming, orphans, exposed>>
    BY <1>2 DEF ShareBooted, ObjectsStay
  <2> QED
    BY <2>1, <1>0, QuietStep
<1>3. ASSUME NEW i \in DOMAIN scans, ReadShare(w, i) PROVE UnlinksBacked' /\ OrphansQueued'
  <2> DEFINE st == [Resting EXCEPT !.at = "scan", !.scan = i, !.queued = Seen \ DOMAIN intakes,
                                   !.successor = NeedsSuccessor(i)]
  <2>1. Goes(w, st) /\ ObjectsStay /\ UNCHANGED <<incoming, orphans, exposed>>
    BY <1>3 DEF ReadShare, ObjectsStay
  <2>2. st \in ShareProcess /\ st.at = "scan"
    <3>1. i \in ScanRows /\ NeedsSuccessor(i) \in BOOLEAN
      BY ShareTyped DEF NeedsSuccessor
    <3>2. Seen \ DOMAIN intakes \in SUBSET Drops
      BY DEF Seen, Drops, ShareTypeOK
    <3> QED
      BY <3>1, <3>2, StatesTyped DEF Resting
  <2> HIDE DEF st
  <2> QED
    BY <2>1, <2>2, Elsewhere, QuietStep
<1>4. CASE CommitShareScan(w)
  <2>1. /\ Goes(w, [Resting EXCEPT !.at = "down"]) \/ Goes(w, Resting)
        /\ ObjectsStay /\ UNCHANGED <<incoming, orphans, exposed>>
    BY <1>4 DEF CommitShareScan, ObjectsStay
  <2> QED
    BY <2>1, <1>0, QuietStep
<1>5. ASSUME NEW k \in DOMAIN intakes, ingest_async(w, k) PROVE UnlinksBacked' /\ OrphansQueued'
  <2>0. k \in Drops /\ UNCHANGED <<incoming, retirements, orphans, exposed>>
    BY <1>5, ShareTyped DEF ingest_async
  <2>1. ObjectsStay
    <3>1. CASE UNCHANGED objects
      BY <3>1, <2>0 DEF ObjectsStay
    <3>2. CASE objects[k].state = "NONE" /\ objects' = [objects EXCEPT ![k].state = "STAGING"]
      BY <3>2, <2>0, StateChange, RetainedWith
    <3> QED
      BY <1>5, <3>1, <3>2 DEF ingest_async
  <2>2. Stays
    <3>1. CASE UNCHANGED shareWorker
      BY <3>1
    <3>2. ASSUME NEW at \in {"stream", "ingested"}, Goes(w, [Resting EXCEPT !.at = at, !.drop = k]) PROVE Stays
      <4> DEFINE st == [Resting EXCEPT !.at = at, !.drop = k]
      <4>1. st \in ShareProcess /\ st.at = at
        BY <2>0, StatesTyped DEF Resting
      <4>2. Goes(w, st)
        BY <3>2
      <4> HIDE DEF st
      <4> QED
        BY <4>1, <4>2, Elsewhere
    <3> QED
      BY <1>5, <3>1, <3>2 DEF ingest_async
  <2> QED
    BY <2>0, <2>1, <2>2, QuietStep
<1>6. CASE StreamShare(w) \/ PublishShare(w)
  <2> DEFINE k == shareWorker[w].drop
  <2>0. UNCHANGED <<incoming, retirements, orphans, exposed>>
    BY <1>6 DEF StreamShare, PublishShare
  <2>1. k \in Drops /\ objects[k].state # "AVAILABLE"
    BY <1>6, ShareTyped DEF StreamShare, PublishShare, JobsHeld, Holding, Does
  <2>2. \A x \in Drops : x # k => objects'[x] = objects[x]
    BY <1>6 DEF StreamShare, PublishShare, ShareTypeOK
  <2>3. ObjectsStay
    BY <2>0, <2>1, <2>2, RetainedWith
  <2>4. \/ Goes(w, Resting)
        \/ \E at \in {"publish", "ingested"} : Goes(w, [shareWorker[w] EXCEPT !.at = at])
    BY <1>6 DEF StreamShare, PublishShare
  <2>5. ASSUME NEW at \in {"publish", "ingested"}, Goes(w, [shareWorker[w] EXCEPT !.at = at]) PROVE Stays
    <3> DEFINE st == [shareWorker[w] EXCEPT !.at = at]
    <3>1. shareWorker[w] \in ShareProcess
      BY ShareTyped
    <3>2. st \in ShareProcess /\ st.at = at
      BY <3>1 DEF ShareProcess
    <3>3. Goes(w, st)
      BY <2>5
    <3> HIDE DEF st
    <3> QED
      BY <3>2, <3>3, Elsewhere
  <2>6. Stays
    BY <2>4, <2>5, <1>0
  <2> QED
    BY <2>0, <2>3, <2>6, QuietStep
<1>7. CASE CommitIntake(w) \/ CommitRetirement(w)
  <2>1. Goes(w, Resting) /\ UNCHANGED <<incoming, objects, orphans, exposed>> /\ DOMAIN retirements \subseteq DOMAIN retirements'
    BY <1>7 DEF CommitIntake, CommitRetirement
  <2>2. ObjectsStay
    BY <2>1 DEF ObjectsStay
  <2> QED
    BY <2>1, <2>2, <1>0, QuietStep
<1>8. ASSUME NEW k \in DOMAIN retirements, retire_smb(w, k) PROVE UnlinksBacked' /\ OrphansQueued'
  <2> DEFINE st == [Resting EXCEPT !.at = "complete", !.drop = k]
  <2>1. st \in ShareProcess /\ st.at = "complete"
    BY ShareTyped, StatesTyped DEF Resting
  <2>2. Goes(w, st) /\ ObjectsStay /\ UNCHANGED <<incoming, orphans, exposed>>
    BY <1>8 DEF retire_smb, ObjectsStay
  <2> HIDE DEF st
  <2> QED
    BY <2>1, <2>2, Elsewhere, QuietStep
<1>9. CASE complete_incoming(w)
  <2> DEFINE k == shareWorker[w].drop
             at == IF SameSource(k) THEN "unlink" ELSE "retired"
             st == [shareWorker[w] EXCEPT !.at = at]
  <2>1. Does(w, "complete") /\ Goes(w, st) /\ ObjectsStay /\ UNCHANGED <<incoming, orphans, exposed>>
    BY <1>9 DEF complete_incoming, ObjectsStay
  <2>2. at \in {"unlink", "retired"} /\ (at = "unlink" => SameSource(k))
    OBVIOUS
  <2> HIDE DEF at
  <2>3. st \in ShareProcess /\ st.at = at /\ st.drop = k
    BY <2>2, AtTyped
  <2>4. k \in DOMAIN retirements
    BY <2>1, AtService
  <2> HIDE DEF st
  <2>5. shareWorker'[w] = st /\ \A v \in ShareWorkers : v # w => shareWorker'[v] = shareWorker[v]
    BY <2>1, <2>3, GoesFacts
  <2>6. ASSUME NEW x \in Drops, Unlinking(x)' PROVE Unlinking(x) \/ (SameSource(x) /\ x \in DOMAIN retirements)
    <3>1. CASE orphans'[x].unlinking > 0
      BY <3>1, <2>1 DEF Unlinking
    <3>2. ASSUME NEW v \in ShareWorkers, shareWorker'[v].at = "unlink", shareWorker'[v].drop = x
          PROVE  Unlinking(x) \/ (SameSource(x) /\ x \in DOMAIN retirements)
      <4> HIDE DEF k
      <4>1. CASE v = w
        BY <4>1, <3>2, <2>2, <2>3, <2>4, <2>5
      <4>2. CASE v # w
        BY <4>2, <3>2, <2>5 DEF Unlinking, Does
      <4> QED
        BY <4>1, <4>2
    <3> QED
      BY <2>6, <3>1, <3>2 DEF Unlinking, Does
  <2>7. NoNewUnlink /\ NoNewOrphan /\ PathsMarked
    BY <2>1, <2>6 DEF NoNewUnlink, NoNewOrphan, PathsMarked
  <2> QED
    BY <2>1, <2>7, BackedStep
<1>10. CASE UnlinkSource(w)
  <2> DEFINE k == shareWorker[w].drop
  <2>0. Does(w, "unlink") /\ UNCHANGED <<orphans, objects>> /\ k \in Drops
    BY <1>10, AtService DEF UnlinkSource
  <2>1. CASE Unlinked(k) /\ Goes(w, [shareWorker[w] EXCEPT !.at = "retired"]) /\ UNCHANGED retirements
    <3> DEFINE st == [shareWorker[w] EXCEPT !.at = "retired"]
    <3>1. st \in ShareProcess /\ st.at = "retired"
      BY AtTyped
    <3>2. Goes(w, st)
      BY <2>1
    <3> HIDE DEF st
    <3>3. Stays
      BY <3>1, <3>2, Elsewhere
    <3>4. ASSUME NEW x \in Drops, Unlinking(x)' PROVE Unlinking(x)
      BY <2>0, <3>3, <3>4 DEF Unlinking, Does
    <3>5. NoNewUnlink /\ NoNewOrphan
      BY <2>0, <3>4 DEF NoNewUnlink, NoNewOrphan
    <3>6. PathsMarked
      <4> HIDE DEF k
      <4> QED
        BY <2>0, <2>1, UnlinkedTyped, DropIsPair DEF PathsMarked
    <3>7. ObjectsStay
      BY <2>0, <2>1 DEF ObjectsStay
    <3> QED
      BY <3>5, <3>6, <3>7, BackedStep
  <2>2. CASE /\ retirements' = [retirements EXCEPT ![k] = ShareFailed(@)] /\ Goes(w, Resting)
             /\ UNCHANGED <<incoming, exposed>>
    <3>1. ObjectsStay
      BY <2>0, <2>2 DEF ObjectsStay
    <3> QED
      BY <2>0, <2>2, <3>1, <1>0, QuietStep
  <2> QED
    BY <1>10, <2>1, <2>2 DEF UnlinkSource
<1> QED
  BY <1>1, <1>2, <1>3, <1>4, <1>5, <1>6, <1>7, <1>8, <1>9, <1>10 DEF ShareWorks

\* A process leaves its request behind, or takes it back.
LEMMA LeavesBacked ==
    ASSUME ShareInv, UnlinksBacked, OrphansQueued, NEW w \in ShareWorkers, NEW st \in ShareProcess,
           Goes(w, st), st.at # "unlink", ObjectsStay, UNCHANGED <<incoming, exposed>>,
           orphans' = orphans \/ orphans' = Abandoned(w)
    PROVE  UnlinksBacked' /\ OrphansQueued'
<1> USE DEF ShareInv
<1>1. \A v \in ShareWorkers : shareWorker'[v].at = "unlink" => shareWorker'[v] = shareWorker[v]
  BY Elsewhere
<1>2. \A k \in Drops :
         /\ orphans'[k].checking > 0 => orphans[k].checking > 0 \/ (Does(w, "complete") /\ k = shareWorker[w].drop)
         /\ orphans'[k].unlinking > 0 => orphans[k].unlinking > 0 \/ (Does(w, "unlink") /\ k = shareWorker[w].drop)
  BY AbandonedTyped
<1>3. NoNewOrphan
  BY <1>2, AtService DEF NoNewOrphan
<1>4. ASSUME NEW k \in Drops, Unlinking(k)' PROVE Unlinking(k)
  BY <1>1, <1>2, <1>4 DEF Unlinking, Does
<1>5. NoNewUnlink /\ PathsMarked
  BY <1>4 DEF NoNewUnlink, PathsMarked
<1> QED
  BY <1>3, <1>5, BackedStep

LEMMA FailuresBacked ==
    ASSUME ShareInv, UnlinksBacked, OrphansQueued, NEW w \in ShareWorkers,
           WorkFails(w) \/ \E i \in DOMAIN scans : ShareScanFails(w, i)
    PROVE  UnlinksBacked' /\ OrphansQueued'
<1>1. CASE ShareWorkerDies(w)
  <2> DEFINE st == [Resting EXCEPT !.at = "down"]
  <2>1. st \in ShareProcess /\ st.at = "down"
    BY StatesTyped DEF Resting
  <2>2. Goes(w, st) /\ ObjectsStay /\ UNCHANGED <<incoming, exposed>> /\ orphans' = Abandoned(w)
    BY <1>1 DEF ShareWorkerDies, ObjectsStay
  <2> HIDE DEF st
  <2> QED
    BY <2>1, <2>2, LeavesBacked
<1>2. CASE RetirementFails(w)
  <2>1. /\ Goes(w, Resting) /\ UNCHANGED <<incoming, objects, exposed>> /\ DOMAIN retirements' = DOMAIN retirements
        /\ orphans' = orphans \/ orphans' = Abandoned(w)
    BY <1>2 DEF RetirementFails
  <2>2. ObjectsStay
    BY <2>1 DEF ObjectsStay
  <2> QED
    BY <2>1, <2>2, StatesTyped, LeavesBacked
<1>3. CASE \/ \E k \in DOMAIN intakes : AllocateFails(w, k)
           \/ \E i \in DOMAIN scans : ShareScanFails(w, i)
  <2>1. UNCHANGED <<incoming, retirements, objects, shareWorker, orphans, exposed>>
    BY <1>3 DEF AllocateFails, ShareScanFails
  <2> QED
    BY <2>1, QuietStep DEF ObjectsStay
<1> QED
  BY <1>1, <1>2, <1>3 DEF WorkFails

LEMMA OrphansBacked ==
    ASSUME ShareInv, UnlinksBacked, OrphansQueued, NEW k \in Drops, OrphanCompletes(k)
    PROVE  UnlinksBacked' /\ OrphansQueued'
<1> USE DEF ShareInv
<1>0. ObjectsStay /\ UNCHANGED shareWorker
  BY DEF OrphanCompletes, ObjectsStay
<1>1. /\ \A x \in Drops : x # k => orphans'[x] = orphans[x]
      /\ orphans'[k].checking > 0 => orphans[k].checking > 0
      /\ orphans'[k].unlinking > 0 => orphans[k].unlinking > 0 \/ (orphans[k].checking > 0 /\ SameSource(k))
  BY OrphanCounts
<1>2. NoNewOrphan
  BY <1>1 DEF NoNewOrphan
<1>3. ASSUME NEW x \in Drops, Unlinking(x)' PROVE Unlinking(x) \/ (SameSource(x) /\ x \in DOMAIN retirements)
  BY <1>0, <1>1, <1>3 DEF Unlinking, Does, OrphansQueued
<1>4. NoNewUnlink
  BY <1>3 DEF NoNewUnlink
<1>5. PathsMarked
  <2>1. CASE UNCHANGED <<incoming, exposed>>
    BY <2>1 DEF PathsMarked
  <2>2. CASE Unlinked(k)
    BY <2>2, UnlinkedTyped, DropIsPair DEF PathsMarked
  <2> QED
    BY <2>1, <2>2 DEF OrphanCompletes
<1> QED
  BY <1>0, <1>2, <1>4, <1>5, BackedStep

LEMMA DropsBacked ==
    ASSUME ShareInv, UnlinksBacked, OrphansQueued, NEW p \in Paths, NEW s \in Stamps, DropFile(p, s)
    PROVE  UnlinksBacked' /\ OrphansQueued'
<1> USE DEF ShareInv
<1>0. /\ ObjectsStay /\ UNCHANGED <<shareWorker, orphans>> /\ incoming' = [incoming EXCEPT ![p] = s]
      /\ exposed' = IF \E k \in Drops : k[1] = p /\ Unlinking(k) THEN exposed \cup {p} ELSE exposed \ {p}
  BY DEF DropFile, ObjectsStay
<1>1. ASSUME NEW x \in Drops, Unlinking(x)' PROVE Unlinking(x)
  BY <1>0, <1>1 DEF Unlinking, Does
<1>2. NoNewUnlink /\ NoNewOrphan
  BY <1>0, <1>1 DEF NoNewUnlink, NoNewOrphan
<1>3. \A q \in Paths : q # p => incoming'[q] = incoming[q] /\ (q \in exposed <=> q \in exposed')
  BY <1>0 DEF ShareTypeOK
<1>4. ASSUME NEW x \in Drops, Unlinking(x)'
      PROVE  x[1] \in exposed' \/ (incoming'[x[1]] = incoming[x[1]] /\ x[1] \notin exposed)
  <2>1. Unlinking(x) /\ x[1] \in Paths
    BY <1>1, <1>4, DropIsPair
  <2>2. CASE x[1] = p
    BY <2>1, <2>2, <1>0
  <2>3. CASE x[1] # p
    BY <2>1, <2>3, <1>3
  <2> QED
    BY <2>2, <2>3
<1>5. PathsMarked
  BY <1>4 DEF PathsMarked
<1> QED
  BY <1>0, <1>2, <1>5, BackedStep

ShareFacts == ShareInv /\ UnlinksBacked /\ OrphansQueued

LEMMA ShareFactsHold == ShareInit => ShareFacts
<1> SUFFICES ASSUME ShareInit PROVE ShareFacts
  OBVIOUS
<1>1. \A k \in Drops : orphans[k].checking = 0 /\ orphans[k].unlinking = 0
  BY DEF ShareInit
<1>2. \A w \in ShareWorkers : ~Does(w, "unlink")
  BY DEF ShareInit, Does, Resting
<1>3. UnlinksBacked /\ OrphansQueued
  BY <1>1, <1>2 DEF UnlinksBacked, OrphansQueued, Unlinking
<1> QED
  BY <1>3, ShareInitHolds DEF ShareFacts

LEMMA ShareFactsKept == ShareFacts /\ [ShareNext]_shareVars => ShareFacts'
<1> SUFFICES ASSUME ShareFacts, [ShareNext]_shareVars PROVE UnlinksBacked' /\ OrphansQueued'
  BY ShareStepKeeps DEF ShareFacts
<1> USE DEF ShareFacts
<1>1. CASE ShareNext
  BY <1>1, WorksBacked, FailuresBacked, OrphansBacked, DropsBacked DEF ShareNext, ShareUsers
<1>2. CASE UNCHANGED shareVars
  <2>1. UNCHANGED <<incoming, retirements, objects, shareWorker, orphans, exposed>>
    BY <1>2 DEF shareVars
  <2> QED
    BY <2>1, QuietStep DEF ObjectsStay
<1> QED
  BY <1>1, <1>2

\* A finished ingest has its object and its retirement, there is always a scan to come
\* but for the named exceptions, and a path that is about to be unlinked holds what the
\* Site has unless a file was put there since, for any number of processes, paths,
\* attempts, failures, requests and changes of files (reconcile, ingest,
\* enqueue_retirement, complete_incoming).
THEOREM ShareIsSafe == ShareSpec => []ShareSafe
<1>1. ShareFacts => ScanningGoesOn
  BY ShareAssumption DEF ShareFacts, ShareInv, ScanComes, ScanningGoesOn, Does
<1>2. ShareFacts => ShareSafe
  BY <1>1 DEF ShareFacts, ShareInv, ShareSafe
<1> QED
  BY <1>2, ShareFactsHold, ShareFactsKept, PTL DEF ShareSpec

\* A file leaves the share only when the Site has an available object with exactly that
\* content, or when it was put there after the last look of a request that had not yet
\* unlinked what it saw, whenever files are replaced and processes die
\* (complete_incoming, retire).
THEOREM SourcesAreKept == ShareSpec => SourceKept
<1> DEFINE Keeps == \A p \in Paths : (incoming[p] # NoFile /\ incoming'[p] = NoFile) =>
                        \/ objects[<<p, incoming[p]>>] = [state |-> "AVAILABLE", torn |-> FALSE]
                        \/ p \in exposed
<1>1. ASSUME ShareFacts, ShareNext PROVE Keeps
  <2> USE <1>1 DEF ShareFacts, ShareInv
  <2>1. CASE incoming' = incoming
    BY <2>1
  <2>2. ASSUME NEW k \in Drops, Unlinking(k), Unlinked(k) PROVE Keeps
    <3>1. \A p \in Paths : p # k[1] => incoming'[p] = incoming[p]
      BY <2>2, UnlinkedTyped
    <3>2. CASE incoming[k[1]] # NoFile /\ k[1] \notin exposed
      <4>1. SameSource(k) /\ k \in DOMAIN retirements
        BY <2>2, <3>2 DEF UnlinksBacked
      <4>2. objects[k].state = "AVAILABLE" /\ objects[k] \in ObjectRows /\ ~objects[k].torn
        BY <2>2, <4>1 DEF JobsHeld, SameSource, ShareTypeOK, ObjectRows
      <4>3. objects[k] = [state |-> "AVAILABLE", torn |-> FALSE]
        BY <4>2 DEF ObjectRows
      <4>4. k = <<k[1], incoming[k[1]]>>
        BY <4>1, DropIsPair DEF SameSource, SourceIs
      <4> QED
        BY <3>1, <4>3, <4>4
    <3>3. CASE incoming[k[1]] = NoFile \/ k[1] \in exposed
      BY <3>1, <3>3
    <3> QED
      BY <3>2, <3>3
  <2>3. ASSUME NEW p \in Paths, NEW s \in Stamps, DropFile(p, s) PROVE Keeps
    <3>1. s # NoFile
      BY DEF Stamps, NoFile
    <3> QED
      BY <3>1, <2>3 DEF DropFile, ShareTypeOK
  <2>4. ASSUME NEW w \in ShareWorkers, ShareWorks(w), incoming' # incoming PROVE Keeps
    <3>1. UnlinkSource(w)
      BY <2>4 DEF ShareWorks, BootShare, ShareBooted, ReadShare, CommitShareScan, ingest_async, StreamShare,
                  PublishShare, CommitIntake, retire_smb, complete_incoming, CommitRetirement
    <3>2. Does(w, "unlink") /\ Unlinked(shareWorker[w].drop)
      BY <2>4, <3>1 DEF UnlinkSource
    <3>3. shareWorker[w].drop \in Drops /\ Unlinking(shareWorker[w].drop)
      BY <3>2, AtService DEF Unlinking
    <3> QED
      BY <2>2, <3>2, <3>3
  <2>5. ASSUME NEW w \in ShareWorkers, WorkFails(w) \/ \E i \in DOMAIN scans : ShareScanFails(w, i)
        PROVE  incoming' = incoming
    BY <2>5 DEF WorkFails, ShareWorkerDies, AllocateFails, RetirementFails, ShareScanFails
  <2>6. ASSUME NEW k \in Drops, OrphanCompletes(k), incoming' # incoming PROVE Keeps
    <3>1. Unlinked(k) /\ Unlinking(k)
      BY <2>6 DEF OrphanCompletes, Unlinking
    <3> QED
      BY <2>2, <3>1
  <2> QED
    BY <1>1, <2>1, <2>3, <2>4, <2>5, <2>6 DEF ShareNext, ShareUsers
<1>2. ShareFacts /\ [ShareNext]_shareVars => [Keeps]_shareVars
  BY <1>1
<1> QED
  BY <1>2, ShareFactsHold, ShareFactsKept, PTL DEF ShareSpec, SourceKept

-----------------------------------------------------------------------------
(* Deletions: types and frames.                                            *)

\* What a row of an operation is.
LEMMA OperationTyped ==
    ASSUME LifecycleTypeOK, NEW t \in Targets
    PROVE  /\ operation[t].status \in DeletionStatus \cup {"none"}
           /\ operation[t].attempts \in 0..MaxAttempts
           /\ operation[t].ids \in SUBSET Individuals
           /\ operation[t] = NoOperation <=> operation[t].status = "none"
           /\ operation[t] = [status |-> operation[t].status, attempts |-> operation[t].attempts,
                              ids |-> operation[t].ids]
<1>1. operation[t] \in [status: DeletionStatus, attempts: 0..MaxAttempts, ids: SUBSET Individuals]
                       \cup {NoOperation}
  BY DEF LifecycleTypeOK
<1>2. CASE operation[t] = NoOperation
  BY <1>2, LifecycleAssumption DEF NoOperation
<1>3. CASE operation[t] \in [status: DeletionStatus, attempts: 0..MaxAttempts, ids: SUBSET Individuals]
  <2>1. operation[t].status # "none"
    BY <1>3 DEF DeletionStatus
  <2> QED
    BY <1>3, <2>1 DEF NoOperation
<1> QED
  BY <1>1, <1>2, <1>3

LEMMA RunTyped ==
    ASSUME LifecycleTypeOK
    PROVE  /\ run.affected \subseteq Occasions /\ run.members \subseteq Individuals
           /\ run.sites \subseteq Sites /\ run.cleaned \subseteq Participations
           /\ run.removed \subseteq Sites /\ run.phase \in {"none", "read", "cleaned", "told"}
           /\ run.late \subseteq Occasions
           /\ run = NoRun <=> run.phase = "none"
           /\ run # NoRun => /\ run.target \in Targets /\ Unfinished(run.target)
           /\ run = NoRun => run.target = NoTarget
BY DEF LifecycleTypeOK, NoRun, Unfinished

LEMMA PushTyped ==
    ASSUME LifecycleTypeOK
    PROVE  /\ push.people \subseteq Individuals
           /\ push # NoPush => push.event \in Occasions /\ push.site \in Sites
           /\ push = NoPush => push.event \notin Occasions
BY LifecycleAssumption DEF LifecycleTypeOK, NoPush

LEMMA TargetsApart ==
    /\ NoTarget \notin Targets
    /\ \A t \in Individuals : t \notin Occasions /\ t \notin Sweeps
    /\ \A t \in Occasions : t \notin Individuals /\ t \notin Sweeps
    /\ \A t \in Sweeps : t \notin Individuals /\ t \notin Occasions
BY LifecycleAssumption DEF Targets

LEMMA RevisedTyped == Revised \in Nat /\ MaxPushes \in Nat /\ MaxPushes <= Revised
<1>1. Cardinality(Sweeps) \in Nat
  BY LifecycleAssumption, FS_CardinalityType
<1> QED
  BY <1>1, LifecycleAssumption DEF Revised

\* Sweeps are counted within the bound.
LEMMA SweptBounded ==
    /\ IsFiniteSet(Swept) /\ Cardinality(Swept) \in Nat
    /\ MaxPushes + Cardinality(Swept) <= Revised
<1>1. Swept \subseteq Sweeps
  BY DEF Swept
<1>2. IsFiniteSet(Swept) /\ Cardinality(Swept) <= Cardinality(Sweeps)
  BY <1>1, LifecycleAssumption, FS_Subset
<1>3. Cardinality(Swept) \in Nat /\ Cardinality(Sweeps) \in Nat
  BY <1>2, LifecycleAssumption, FS_CardinalityType
<1> QED
  BY <1>2, <1>3, LifecycleAssumption DEF Revised

LEMMA DeploymentTyped ==
    ASSUME LifecycleTypeOK, NEW e \in Occasions, NEW s \in Sites
    PROVE  /\ deployment[<<e, s>>].status \in {"none", "live", "failed"}
           /\ deployment[<<e, s>>].revision \in 0..Revised
           /\ deployment[<<e, s>>].revision \in Nat
           /\ deployment[<<e, s>>].people \in SUBSET Individuals
BY RevisedTyped DEF LifecycleTypeOK

\* What a new message is.
LEMMA MessageTyped ==
    /\ \A e \in Occasions, ids \in SUBSET Individuals, rev \in 1..Revised :
          Snapshot(e, ids, rev) \in Message
    /\ \A ids \in SUBSET Individuals : [kind |-> "people", people |-> ids] \in Message
    /\ \A e \in Occasions : [kind |-> "event", event |-> e] \in Message
BY DEF Message, Snapshot

-----------------------------------------------------------------------------
(* Deletions: type correctness.                                            *)

LEMMA LifecycleInitTyped == LifecycleInit => LifecycleTypeOK
<1> SUFFICES ASSUME LifecycleInit PROVE LifecycleTypeOK
  OBVIOUS
<1>1. alive \subseteq Individuals \cup Occasions
  BY LifecycleAssumption DEF LifecycleInit
<1>2. deployment \in [Occasions \X Sites -> [status: {"none", "live", "failed"}, revision: 0..Revised,
                                            people: SUBSET Individuals]]
  BY RevisedTyped DEF LifecycleInit, NoDeployment
<1>3. feed \in [Sites -> Seq(Message)] /\ projected \in [Sites -> SUBSET Participations]
  BY DEF LifecycleInit
<1> QED
  BY <1>1, <1>2, <1>3, LifecycleAssumption DEF LifecycleInit, LifecycleTypeOK, Participations, NoRun, NoPush

LEMMA StatusTyped ==
    ASSUME LifecycleTypeOK, NEW d \in Occasions \X Sites, NEW status \in {"none", "live", "failed"}
    PROVE  [deployment EXCEPT ![d].status = status] \in
               [Occasions \X Sites -> [status: {"none", "live", "failed"}, revision: 0..Revised,
                                      people: SUBSET Individuals]]
<1> DEFINE R == [status: {"none", "live", "failed"}, revision: 0..Revised, people: SUBSET Individuals]
<1>1. deployment \in [Occasions \X Sites -> R]
  BY DEF LifecycleTypeOK
<1>2. [deployment[d] EXCEPT !.status = status] \in R
  BY <1>1
<1> HIDE DEF R
<1>3. [deployment EXCEPT ![d].status = status] \in [Occasions \X Sites -> R]
  BY <1>1, <1>2
<1> QED
  BY <1>3 DEF R

LEMMA DeployTyped ==
    ASSUME LifecycleTypeOK, TransactionsHold, RevisionsCounted, DeployNext
    PROVE  LifecycleTypeOK'
<1> USE DEF ProgramUnchanged, SitesUnchanged, OperationsUnchanged
<1>1. ASSUME NEW p \in Individuals, AddPerson(p) PROVE LifecycleTypeOK'
  BY <1>1 DEF LifecycleTypeOK, AddPerson
<1>2. ASSUME NEW p \in Individuals, NEW e \in Occasions, AddParticipation(p, e) PROVE LifecycleTypeOK'
  BY <1>2 DEF LifecycleTypeOK, AddParticipation, Participations
<1>3. ASSUME NEW e \in Occasions, NEW s \in Sites, BeginPush(e, s) PROVE LifecycleTypeOK'
  BY <1>3 DEF LifecycleTypeOK, BeginPush, PeopleOf
<1>4. ASSUME NEW e \in Occasions, NEW s \in Sites, ResendSnapshot(e, s) PROVE LifecycleTypeOK'
  <2> DEFINE d == deployment[<<e, s>>]
  <2>1. d.revision \in 1..Revised /\ d.people \in SUBSET Individuals
    <3>1. Has(e, s)
      BY <1>4 DEF ResendSnapshot, Has
    <3>2. d.revision # 0
      BY <3>1 DEF RevisionsCounted
    <3> QED
      BY <3>2, DeploymentTyped, RevisedTyped
  <2>2. feed' \in [Sites -> Seq(Message)]
    BY <1>4, <2>1, MessageTyped DEF ResendSnapshot, LifecycleTypeOK
  <2>3. deployment' \in [Occasions \X Sites -> [status: {"none", "live", "failed"}, revision: 0..Revised,
                                            people: SUBSET Individuals]]
    BY <1>4, StatusTyped DEF ResendSnapshot
  <2>4. excused' \subseteq Participations
    BY <1>4, <2>1 DEF ResendSnapshot, LifecycleTypeOK, Gone, Participations
  <2> QED
    BY <1>4, <2>2, <2>3, <2>4 DEF ResendSnapshot, LifecycleTypeOK
<1>5. ASSUME FinishPush PROVE LifecycleTypeOK'
  <2> DEFINE e == push.event
             s == push.site
             rev == deployment[<<e, s>>].revision + 1
  <2>1. e \in Occasions /\ s \in Sites /\ push.people \in SUBSET Individuals
    BY <1>5, PushTyped DEF FinishPush
  <2>2. rev \in 1..Revised
    BY <1>5, <2>1, DeploymentTyped, RevisedTyped DEF FinishPush, TransactionsHold
  <2>3. feed' \in [Sites -> Seq(Message)]
    BY <1>5, <2>1, <2>2, MessageTyped DEF FinishPush, LifecycleTypeOK
  <2>4. deployment' \in [Occasions \X Sites -> [status: {"none", "live", "failed"}, revision: 0..Revised,
                                            people: SUBSET Individuals]]
    BY <1>5, <2>1, <2>2, RevisedTyped DEF FinishPush, LifecycleTypeOK
  <2>5. excused' \subseteq Participations
    BY <1>5, <2>1 DEF FinishPush, LifecycleTypeOK, Gone, Participations
  <2>6. run' = NoRun \/ /\ run' \in [target: Targets, phase: {"read", "cleaned", "told"},
                                     affected: SUBSET Occasions, members: SUBSET Individuals,
                                     sites: SUBSET Sites, cleaned: SUBSET Participations,
                                     removed: SUBSET Sites, late: SUBSET Occasions]
                          /\ operation'[run'.target].status \in {"pending", "retry_wait"}
    <3>1. MarkLate(e, s) /\ UNCHANGED operation
      BY <1>5 DEF FinishPush
    <3>2. CASE run' = run
      BY <3>1, <3>2 DEF LifecycleTypeOK
    <3>3. CASE run.phase = "told" /\ run' = [run EXCEPT !.late = @ \cup {e}]
      <4>1. run # NoRun
        BY <3>3 DEF NoRun
      <4> QED
        BY <2>1, <3>1, <3>3, <4>1 DEF LifecycleTypeOK
    <3> QED
      BY <3>1, <3>2, <3>3 DEF MarkLate
  <2> QED
    BY <1>5, <2>3, <2>4, <2>5, <2>6 DEF FinishPush, LifecycleTypeOK
<1>6. ASSUME AbortPush PROVE LifecycleTypeOK'
  BY <1>6 DEF LifecycleTypeOK, AbortPush
<1> QED
  BY <1>1, <1>2, <1>3, <1>4, <1>5, <1>6 DEF DeployNext

\* The head of a feed.
LEMMA HeadTyped ==
    ASSUME LifecycleTypeOK, NEW s \in Sites, feed[s] # <<>>
    PROVE  /\ feed[s] \in Seq(Message) /\ Len(feed[s]) \in Nat /\ 1 <= Len(feed[s])
           /\ Head(feed[s]) = feed[s][1] /\ Head(feed[s]) \in Message
           /\ Tail(feed[s]) \in Seq(Message) /\ Len(Tail(feed[s])) = Len(feed[s]) - 1
           /\ \A i \in 1..(Len(feed[s]) - 1) : Tail(feed[s])[i] = feed[s][i + 1]
BY DEF LifecycleTypeOK

LEMMA SnapshotMessage ==
    ASSUME NEW x \in Message, x.kind = "snapshot"
    PROVE  x.event \in Occasions /\ x.people \in SUBSET Individuals
BY DEF Message

LEMMA SiteTyped ==
    ASSUME LifecycleTypeOK, SiteApplies
    PROVE  LifecycleTypeOK'
<1> USE DEF ProgramUnchanged, OperationsUnchanged, Receives, Consume
<1> PICK s \in Sites : ApplySnapshot(s) \/ RejectSnapshot(s) \/ apply_people_deletion(s) \/ apply_event_deletion(s)
  BY DEF SiteApplies
<1>1. feed[s] # <<>> /\ feed' \in [Sites -> Seq(Message)]
  <2>1. feed[s] # <<>> /\ feed' = [feed EXCEPT ![s] = Tail(@)]
    BY DEF ApplySnapshot, RejectSnapshot, apply_people_deletion, apply_event_deletion
  <2>2. Tail(feed[s]) \in Seq(Message) /\ feed \in [Sites -> Seq(Message)]
    BY <2>1, HeadTyped DEF LifecycleTypeOK
  <2> QED
    BY <2>1, <2>2
<1>2. CASE ApplySnapshot(s)
  <2>1. Head(feed[s]).people \X {Head(feed[s]).event} \subseteq Participations
    BY <1>1, <1>2, HeadTyped, SnapshotMessage DEF ApplySnapshot, Participations
  <2>2. projected' \in [Sites -> SUBSET Participations]
    BY <1>2, <2>1 DEF ApplySnapshot, LifecycleTypeOK
  <2> QED
    BY <1>1, <1>2, <2>2 DEF ApplySnapshot, LifecycleTypeOK
<1>3. CASE RejectSnapshot(s)
  <2>1. deployment' \in [Occasions \X Sites -> [status: {"none", "live", "failed"}, revision: 0..Revised,
                                            people: SUBSET Individuals]]
    <3> DEFINE d == <<Head(feed[s]).event, s>>
    <3>1. d \in Occasions \X Sites
      BY <1>1, <1>3, HeadTyped, SnapshotMessage DEF RejectSnapshot
    <3>2. [deployment EXCEPT ![d].status = "failed"] \in
              [Occasions \X Sites -> [status: {"none", "live", "failed"}, revision: 0..Revised,
                                            people: SUBSET Individuals]]
      BY <3>1, StatusTyped
    <3> QED
      BY <1>3, <3>2 DEF RejectSnapshot, LifecycleTypeOK
  <2> QED
    BY <1>1, <1>3, <2>1 DEF RejectSnapshot, LifecycleTypeOK
<1>4. CASE apply_people_deletion(s)
  <2>1. projected' \in [Sites -> SUBSET Participations]
    BY <1>4 DEF apply_people_deletion, LifecycleTypeOK
  <2> QED
    BY <1>1, <1>4, <2>1 DEF apply_people_deletion, LifecycleTypeOK
<1>5. CASE apply_event_deletion(s)
  <2>1. projected' \in [Sites -> SUBSET Participations]
    BY <1>5 DEF apply_event_deletion, LifecycleTypeOK
  <2> QED
    BY <1>1, <1>5, <2>1 DEF apply_event_deletion, LifecycleTypeOK
<1> QED
  BY <1>2, <1>3, <1>4, <1>5

\* A row of an operation that is queued, fails or is completed.
LEMMA OperationRow ==
    ASSUME LifecycleTypeOK, NEW t \in Targets, NEW status \in DeletionStatus,
           NEW n \in 0..MaxAttempts, NEW ids \in SUBSET Individuals
    PROVE  [operation EXCEPT ![t] = [status |-> status, attempts |-> n, ids |-> ids]] \in
               [Targets -> [status: DeletionStatus, attempts: 0..MaxAttempts,
                            ids: SUBSET Individuals] \cup {NoOperation}]
<1> DEFINE R == [status: DeletionStatus, attempts: 0..MaxAttempts, ids: SUBSET Individuals] \cup {NoOperation}
           o == [status |-> status, attempts |-> n, ids |-> ids]
<1>1. o \in R /\ operation \in [Targets -> R]
  BY DEF LifecycleTypeOK
<1> HIDE DEF R, o
<1>2. [operation EXCEPT ![t] = o] \in [Targets -> R]
  BY <1>1
<1> QED
  BY <1>2 DEF R, o

\* The worker's writing of an outcome is a row with one more attempt.
LEMMA OutcomeIsRow ==
    ASSUME LifecycleTypeOK, NEW t \in Targets, NEW status,
           operation' = [operation EXCEPT ![t].status = status, ![t].attempts = @ + 1]
    PROVE  /\ operation' = [operation EXCEPT ![t] = [status |-> status, ids |-> operation[t].ids,
                                                    attempts |-> operation[t].attempts + 1]]
           /\ operation'[t].status = status /\ operation'[t].ids = operation[t].ids
           /\ operation'[t].attempts = operation[t].attempts + 1
           /\ \A u \in Targets : u # t => operation'[u] = operation[u]
<1>1. operation[t] = [status |-> operation[t].status, attempts |-> operation[t].attempts,
                      ids |-> operation[t].ids]
  BY OperationTyped
<1> DEFINE f == [operation EXCEPT ![t].status = status]
           g == [f EXCEPT ![t].attempts = @ + 1]
           o == [status |-> status, attempts |-> operation[t].attempts + 1, ids |-> operation[t].ids]
<1>2. DOMAIN operation = Targets
  BY DEF LifecycleTypeOK
<1>3. f[t] = [status |-> status, attempts |-> operation[t].attempts, ids |-> operation[t].ids]
  BY <1>1, <1>2
<1>4. DOMAIN f = Targets /\ \A u \in Targets : u # t => f[u] = operation[u]
  BY <1>2
<1>5. g[t] = o /\ DOMAIN g = Targets /\ \A u \in Targets : u # t => g[u] = operation[u]
  <2> HIDE DEF f
  <2> QED
    BY <1>3, <1>4
<1>6. operation' = g
  OBVIOUS
<1> HIDE DEF o, g
<1>7. g = [operation EXCEPT ![t] = o]
  <2>1. g = [u \in Targets |-> g[u]]
    BY <1>5 DEF g
  <2> QED
    BY <1>2, <1>5, <2>1
<1> QED
  BY <1>5, <1>6, <1>7 DEF o

LEMMA RequestTyped ==
    ASSUME LifecycleTypeOK, RequestNext(Targets)
    PROVE  LifecycleTypeOK'
<1> USE DEF ProgramUnchanged, SitesUnchanged, RequestsUnchanged
<1> DEFINE O == [Targets -> [status: DeletionStatus, attempts: 0..MaxAttempts,
                             ids: SUBSET Individuals] \cup {NoOperation}]
<1>0. 0 \in 0..MaxAttempts /\ "pending" \in DeletionStatus
  BY LifecycleAssumption DEF DeletionStatus
<1>1. ASSUME NEW t \in Targets, NEW ids \in SUBSET Individuals,
             operation' = [operation EXCEPT ![t] = Queued(ids)],
             requeues' \in 0..MaxRequeues, RequestsUnchanged
      PROVE  LifecycleTypeOK'
  <2>1. operation' \in O
    BY <1>0, <1>1, OperationRow DEF Queued
  <2>2. run # NoRun => operation'[run.target].status \in {"pending", "retry_wait"}
    BY <1>1 DEF LifecycleTypeOK, Queued
  <2> QED
    BY <1>1, <2>1, <2>2 DEF LifecycleTypeOK
<1>2. ASSUME NEW t \in Targets, request_deletion(t) PROVE LifecycleTypeOK'
  <2> DEFINE ids == {t} \cap Individuals
  <2>1. ids \in SUBSET Individuals /\ requeues' \in 0..MaxRequeues
    BY <1>2 DEF request_deletion, LifecycleTypeOK
  <2>2. operation' = [operation EXCEPT ![t] = Queued(ids)] /\ RequestsUnchanged
    BY <1>2 DEF request_deletion
  <2> HIDE DEF ids
  <2> QED
    BY <1>1, <2>1, <2>2
<1>3. ASSUME NEW t \in Targets, request_bulk_people_deletion(t) PROVE LifecycleTypeOK'
  <2> DEFINE ids == alive \cap Individuals
  <2>1. ids \in SUBSET Individuals /\ requeues' \in 0..MaxRequeues
    BY <1>3 DEF request_bulk_people_deletion, LifecycleTypeOK
  <2>2. operation' = [operation EXCEPT ![t] = Queued(ids)] /\ RequestsUnchanged
    BY <1>3 DEF request_bulk_people_deletion
  <2> HIDE DEF ids
  <2> QED
    BY <1>1, <2>1, <2>2
<1>4. ASSUME NEW t \in Targets, retry_deletion(t) PROVE LifecycleTypeOK'
  <2>1. operation[t].ids \in SUBSET Individuals
    BY OperationTyped
  <2>2. requeues' \in 0..MaxRequeues
    BY <1>4, LifecycleAssumption DEF retry_deletion, LifecycleTypeOK
  <2>3. operation' = [operation EXCEPT ![t] = Queued(operation[t].ids)]
    BY <1>4 DEF retry_deletion, LifecycleTypeOK
  <2> QED
    BY <1>1, <1>4, <2>1, <2>2, <2>3 DEF retry_deletion
<1> QED
  BY <1>2, <1>3, <1>4 DEF RequestNext, Targets

\* An outcome of the worker.
LEMMA OutcomeTyped ==
    ASSUME LifecycleTypeOK, OperationsStand, run # NoRun, NEW status \in DeletionStatus,
           operation' = [operation EXCEPT ![run.target].status = status,
                                          ![run.target].attempts = @ + 1]
    PROVE  operation' \in [Targets -> [status: DeletionStatus, attempts: 0..MaxAttempts,
                                       ids: SUBSET Individuals] \cup {NoOperation}]
<1> DEFINE t == run.target
<1>1. t \in Targets /\ Unfinished(t)
  BY RunTyped
<1>2. operation[t] # NoOperation /\ operation[t].attempts < MaxAttempts
  BY <1>1 DEF OperationsStand, Unfinished, NoOperation
<1>3. operation[t].attempts + 1 \in 0..MaxAttempts /\ operation[t].ids \in SUBSET Individuals
  <2>1. operation[t].attempts \in 0..MaxAttempts /\ operation[t].ids \in SUBSET Individuals
    BY <1>1, OperationTyped
  <2> QED
    BY <2>1, <1>2, LifecycleAssumption
<1> QED
  <2>1. operation' = [operation EXCEPT ![t] = [status |-> status, ids |-> operation[t].ids,
                                               attempts |-> operation[t].attempts + 1]]
    BY <1>1, OutcomeIsRow
  <2> DEFINE R == [status: DeletionStatus, attempts: 0..MaxAttempts, ids: SUBSET Individuals] \cup {NoOperation}
             o == [status |-> status, ids |-> operation[t].ids, attempts |-> operation[t].attempts + 1]
  <2>2. o \in R /\ operation \in [Targets -> R]
    BY <1>3 DEF LifecycleTypeOK
  <2> HIDE DEF R, o, t
  <2>3. operation' \in [Targets -> R]
    BY <1>1, <2>1, <2>2 DEF o
  <2> QED
    BY <2>3 DEF R

LEMMA SetToSeqTyped ==
    ASSUME NEW S, IsFiniteSet(S)
    PROVE  /\ SetToSeq(S) \in [1..Cardinality(S) -> S]
           /\ Cardinality(S) \in Nat
<1>1. Cardinality(S) \in Nat /\ ExistsBijection(1..Cardinality(S), S)
  BY FS_CardinalityType
<1>2. \E f \in [1..Cardinality(S) -> S] : IsInjective(f)
  BY <1>1 DEF ExistsBijection, Bijection, Injection, IsInjective
<1> QED
  BY <1>1, <1>2 DEF SetToSeq

\* A sweep that is carried out has not been counted, and counts from now on.
LEMMA SweepCounted ==
    ASSUME LifecycleTypeOK, run # NoRun, run.target \in Sweeps, Complete
    PROVE  Cardinality(Swept') = Cardinality(Swept) + 1 /\ Swept' \subseteq Sweeps
<1>1. run.target \notin Swept
  BY RunTyped DEF Swept, Unfinished
<1>2. run.target \in Targets
  BY RunTyped
<1>3. /\ operation'[run.target].status = "completed"
      /\ \A u \in Targets : u # run.target => operation'[u] = operation[u]
  BY <1>2, OutcomeIsRow DEF Complete
<1>4. Swept' = Swept \cup {run.target}
  BY <1>3 DEF Swept, Targets
<1> QED
  BY <1>1, <1>4, SweptBounded, FS_AddElement DEF Swept

LEMMA SweepRevision ==
    ASSUME LifecycleTypeOK, RevisionsCounted, run # NoRun, run.target \in Sweeps, Complete,
           NEW e \in Occasions, NEW s \in Sites
    PROVE  /\ deployment[<<e, s>>].revision + 1 \in 1..Revised
           /\ deployment[<<e, s>>].revision + 1 <= MaxPushes + Cardinality(Swept')
<1>1. Cardinality(Swept') = Cardinality(Swept) + 1 /\ Swept' \subseteq Sweeps
  BY SweepCounted
<1>2. Cardinality(Swept') <= Cardinality(Sweeps) /\ Cardinality(Sweeps) \in Nat
  BY <1>1, LifecycleAssumption, FS_Subset, FS_CardinalityType
<1>3. Cardinality(Swept) \in Nat
  BY SweptBounded
<1>4. /\ deployment[<<e, s>>].revision \in Nat
      /\ deployment[<<e, s>>].revision <= MaxPushes + Cardinality(Swept)
  BY DeploymentTyped DEF RevisionsCounted
<1> QED
  BY <1>1, <1>2, <1>3, <1>4, LifecycleAssumption DEF Revised

LEMMA WorkerTyped ==
    ASSUME LifecycleTypeOK, OperationsStand, RevisionsCounted, WorkerNext
    PROVE  LifecycleTypeOK'
<1> USE DEF ProgramUnchanged, WorkerUnchanged
<1>1. ASSUME NEW t \in Targets, ClaimDeletion(t) PROVE LifecycleTypeOK'
  <2>1. EventsOf(operation[t].ids) \subseteq Occasions /\ PeopleOf(t) \subseteq Individuals
        /\ SitesOf({t}) \subseteq Sites
    BY DEF EventsOf, PeopleOf, SitesOf
  <2>2. /\ run' \in [target: Targets, phase: {"read", "cleaned", "told"},
                  affected: SUBSET Occasions, members: SUBSET Individuals,
                  sites: SUBSET Sites, cleaned: SUBSET Participations, removed: SUBSET Sites,
                  late: SUBSET Occasions]
        /\ run'.target = t
    BY <1>1, <2>1 DEF ClaimDeletion, NoRun
  <2>3. operation'[run'.target].status \in {"pending", "retry_wait"}
    BY <1>1, <2>2 DEF ClaimDeletion, Unfinished
  <2> QED
    BY <1>1, <2>2, <2>3 DEF ClaimDeletion, LifecycleTypeOK
<1>2. ASSUME CleanUp PROVE LifecycleTypeOK'
  <2>1. Dependent(run.target) \subseteq Participations /\ Deployed(run.target) \subseteq Sites
    BY DEF Dependent, Deployed, LifecycleTypeOK
  <2>2. run # NoRun
    BY <1>2 DEF CleanUp, NoRun
  <2>3. run' \in [target: Targets, phase: {"read", "cleaned", "told"},
                  affected: SUBSET Occasions, members: SUBSET Individuals,
                  sites: SUBSET Sites, cleaned: SUBSET Participations, removed: SUBSET Sites,
                  late: SUBSET Occasions]
        /\ run'.target = run.target
    BY <1>2, <2>1, <2>2 DEF CleanUp, LifecycleTypeOK
  <2> QED
    BY <1>2, <2>2, <2>3 DEF CleanUp, LifecycleTypeOK
<1>3. ASSUME NEW status \in DeletionStatus, run # NoRun, Fail(status) PROVE LifecycleTypeOK'
  BY <1>3, OutcomeTyped DEF Fail, LifecycleTypeOK
<1>4. ASSUME IntegrityError PROVE LifecycleTypeOK'
  BY <1>3, <1>4, RunTyped DEF IntegrityError, DeletionStatus
<1>5. ASSUME TransientError PROVE LifecycleTypeOK'
  BY <1>3, <1>5 DEF TransientError, DeletionStatus
<1>6. ASSUME Complete, run.phase \in {"cleaned", "told"}
      PROVE  /\ operation' \in [Targets -> [status: DeletionStatus, attempts: 0..MaxAttempts,
                                            ids: SUBSET Individuals] \cup {NoOperation}]
             /\ run' = NoRun /\ UNCHANGED <<push, projected, requeues>>
             /\ run # NoRun /\ run.target \in Targets
             /\ operation[run.target].ids \in SUBSET Individuals
  <2>1. run # NoRun /\ run.target \in Targets
    BY <1>6, RunTyped
  <2> QED
    BY <1>6, <2>1, OutcomeTyped, OperationTyped DEF Complete, DeletionStatus
<1>7. ASSUME _delete_event PROVE LifecycleTypeOK'
  <2> DEFINE t == run.target
  <2>1. Complete /\ run.phase = "cleaned" /\ t \in Occasions
    BY <1>7 DEF _delete_event
  <2>2. feed' \in [Sites -> Seq(Message)]
    BY <1>7, <2>1, MessageTyped DEF _delete_event, LifecycleTypeOK
  <2>3. deployment' \in [Occasions \X Sites -> [status: {"none", "live", "failed"}, revision: 0..Revised,
                                            people: SUBSET Individuals]]
    BY <1>7, RevisedTyped DEF _delete_event, LifecycleTypeOK, NoDeployment
  <2>4. history' \subseteq Participations /\ excused' \subseteq Participations
    BY <1>7, <2>1, RunTyped DEF _delete_event, LifecycleTypeOK, Retained, Participations
  <2>5. alive' \subseteq Individuals \cup Occasions /\ member' \subseteq Participations
    BY <1>7 DEF _delete_event, LifecycleTypeOK
  <2> QED
    BY <1>6, <2>1, <2>2, <2>3, <2>4, <2>5 DEF LifecycleTypeOK
<1>8. ASSUME NEW ids, _delete_person(ids)
      PROVE  /\ alive' \subseteq Individuals \cup Occasions /\ member' \subseteq Participations
             /\ history' \subseteq Participations /\ excused' \subseteq Participations
  BY <1>8, RunTyped DEF _delete_person, LifecycleTypeOK
<1>9. ASSUME NEW ids \in SUBSET Individuals, NEW s \in Sites
      PROVE  Tombstones(ids)[s] \in Seq(Message)
  BY MessageTyped DEF Tombstones, LifecycleTypeOK
<1>10. ASSUME run_deletion PROVE LifecycleTypeOK'
  <2> DEFINE ids == operation[run.target].ids
  <2>1. Complete /\ run.phase = "told" /\ _delete_person(ids)
    BY <1>10 DEF run_deletion
  <2>2. ids \in SUBSET Individuals
    BY <1>6, <2>1
  <2>3. feed' \in [Sites -> Seq(Message)]
    BY <1>9, <1>10, <2>2 DEF run_deletion, Tombstones
  <2>4. UNCHANGED deployment
    BY <1>10 DEF run_deletion
  <2> QED
    BY <1>6, <1>8, <2>1, <2>3, <2>4 DEF LifecycleTypeOK
<1>11. ASSUME run_bulk_people_deletion PROVE LifecycleTypeOK'
  <2> DEFINE ids == operation[run.target].ids
             Left(e) == PeopleOf(e) \ ids
             rev(e, s) == deployment[<<e, s>>].revision + 1
             Again(s) == {e \in run.affected : Has(e, s)}
             pushed(s) == SetToSeq(Again(s))
             copies(s) == [i \in DOMAIN pushed(s) |->
                              Snapshot(pushed(s)[i], Left(pushed(s)[i]), rev(pushed(s)[i], s))]
  <2>1. Complete /\ run.phase = "told" /\ _delete_person(ids) /\ run.target \in Sweeps
    BY <1>11 DEF run_bulk_people_deletion
  <2>2. ids \in SUBSET Individuals /\ run # NoRun
    BY <1>6, <2>1
  <2>3. ASSUME NEW e \in Occasions, NEW s \in Sites PROVE rev(e, s) \in 1..Revised
    BY <2>1, <2>2, SweepRevision
  <2>4. ASSUME NEW s \in Sites PROVE copies(s) \in Seq(Message)
    <3>1. Again(s) \subseteq Occasions
      BY RunTyped
    <3>2. IsFiniteSet(Again(s))
      BY <3>1, LifecycleAssumption, FS_Subset
    <3>3. pushed(s) \in [1..Cardinality(Again(s)) -> Again(s)] /\ Cardinality(Again(s)) \in Nat
      BY <3>2, SetToSeqTyped
    <3> HIDE DEF Again, pushed, rev
    <3>4. ASSUME NEW e \in Occasions PROVE Snapshot(e, Left(e), rev(e, s)) \in Message
      <4>1. Left(e) \in SUBSET Individuals
        BY DEF PeopleOf
      <4> QED
        BY <2>3, <4>1, MessageTyped
    <3> HIDE DEF Left
    <3>5. copies(s) \in [1..Cardinality(Again(s)) -> Message]
      BY <3>1, <3>3, <3>4
    <3> QED
      BY <3>3, <3>5
  <2>5. feed' \in [Sites -> Seq(Message)]
    <3>1. feed' = [s \in Sites |-> Tombstones(ids)[s] \o copies(s)]
      BY <1>11 DEF run_bulk_people_deletion
    <3> HIDE DEF copies
    <3>2. ASSUME NEW s \in Sites PROVE Tombstones(ids)[s] \o copies(s) \in Seq(Message)
      BY <1>9, <2>2, <2>4
    <3> QED
      BY <3>1, <3>2
  <2>6. deployment' \in [Occasions \X Sites -> [status: {"none", "live", "failed"}, revision: 0..Revised,
                                                people: SUBSET Individuals]]
    <3>1. deployment' = [d \in Occasions \X Sites |->
                             IF d[1] \in run.affected /\ Has(d[1], d[2])
                             THEN [status |-> "live", revision |-> rev(d[1], d[2]), people |-> Left(d[1])]
                             ELSE deployment[d]]
      BY <1>11 DEF run_bulk_people_deletion
    <3>2. ASSUME NEW e PROVE Left(e) \in SUBSET Individuals
      BY DEF PeopleOf
    <3>3. ASSUME NEW e \in Occasions, NEW s \in Sites PROVE rev(e, s) \in 0..Revised
      BY <2>3, RevisedTyped
    <3> HIDE DEF rev, Left
    <3> QED
      BY <3>1, <3>2, <3>3 DEF LifecycleTypeOK
  <2> QED
    BY <1>6, <1>8, <2>1, <2>5, <2>6 DEF LifecycleTypeOK
<1>12. ASSUME _publish_people_deletion PROVE LifecycleTypeOK'
  <2>1. SitesOf(run.affected) \subseteq Sites /\ run # NoRun
    BY <1>12 DEF SitesOf, _publish_people_deletion, NoRun
  <2>2. run' \in [target: Targets, phase: {"read", "cleaned", "told"},
                  affected: SUBSET Occasions, members: SUBSET Individuals,
                  sites: SUBSET Sites, cleaned: SUBSET Participations, removed: SUBSET Sites,
                  late: SUBSET Occasions]
        /\ run'.target = run.target
    BY <1>12, <2>1 DEF _publish_people_deletion, LifecycleTypeOK
  <2> QED
    BY <1>12, <2>1, <2>2 DEF _publish_people_deletion, LifecycleTypeOK
<1> QED
  BY <1>1, <1>2, <1>4, <1>5, <1>7, <1>10, <1>11, <1>12 DEF WorkerNext

-----------------------------------------------------------------------------
(* Deletions: operations, transactions and revisions.                      *)

\* A new or repeated request writes the row of an operation that is neither under way nor
\* completed, and leaves everything else alone.
LEMMA RequestSteps ==
    ASSUME LifecycleTypeOK, RequestNext(Targets)
    PROVE  /\ UNCHANGED <<alive, member, history, deployment, run, push, feed, projected, excused>>
           /\ \E t \in Targets, ids \in SUBSET Individuals :
                  /\ operation[t] = NoOperation \/ (operation[t].status = "failed" /\ ids = operation[t].ids)
                  /\ operation' = [operation EXCEPT ![t] = Queued(ids)]
                  /\ operation[t] = NoOperation /\ t \notin Sweeps => ids = {t} \cap Individuals
<1> USE DEF RequestsUnchanged, ProgramUnchanged, SitesUnchanged
<1> DEFINE Q(t, ids) ==
              /\ operation[t] = NoOperation \/ (operation[t].status = "failed" /\ ids = operation[t].ids)
              /\ operation' = [operation EXCEPT ![t] = Queued(ids)]
              /\ operation[t] = NoOperation /\ t \notin Sweeps => ids = {t} \cap Individuals
<1>1. ASSUME NEW t \in Targets \ Sweeps, request_deletion(t) PROVE Q(t, {t} \cap Individuals)
  <2>1. operation[t] = NoOperation
    BY <1>1 DEF request_deletion
  <2>2. operation' = [operation EXCEPT ![t] = Queued({t} \cap Individuals)]
    BY <1>1 DEF request_deletion
  <2> QED
    BY <2>1, <2>2
<1>2. ASSUME NEW t \in Targets \cap Sweeps, request_bulk_people_deletion(t) PROVE Q(t, alive \cap Individuals)
  <2>1. operation[t] = NoOperation
    BY <1>2 DEF request_bulk_people_deletion
  <2>2. operation' = [operation EXCEPT ![t] = Queued(alive \cap Individuals)]
    BY <1>2 DEF request_bulk_people_deletion
  <2> QED
    BY <2>1, <2>2
<1>3. ASSUME NEW t \in Targets, retry_deletion(t)
      PROVE  Q(t, operation[t].ids) /\ operation[t].ids \in SUBSET Individuals
  BY <1>3, OperationTyped DEF retry_deletion, LifecycleTypeOK, NoOperation
<1>4. UNCHANGED <<alive, member, history, deployment, run, push, feed, projected, excused>>
  BY DEF RequestNext, request_deletion, request_bulk_people_deletion, retry_deletion
<1>5. \/ \E t \in Targets \ Sweeps : request_deletion(t)
      \/ \E t \in Targets \cap Sweeps : request_bulk_people_deletion(t)
      \/ \E t \in Targets : retry_deletion(t)
  BY DEF RequestNext
<1>6. \A T : T \cap Individuals \in SUBSET Individuals
  OBVIOUS
<1> HIDE DEF Q
<1>7. \E t \in Targets, ids \in SUBSET Individuals : Q(t, ids)
  BY <1>1, <1>2, <1>3, <1>5, <1>6
<1> QED
  BY <1>4, <1>7 DEF Q

\* A Site's step changes no row of Central but the status of a deployment it has refused.
LEMMA SiteSteps ==
    ASSUME LifecycleTypeOK, SiteApplies
    PROVE  /\ UNCHANGED <<alive, member, history, operation, run, push, excused, requeues>>
           /\ \A d \in Occasions \X Sites :
                 /\ deployment'[d].revision = deployment[d].revision
                 /\ deployment'[d].people = deployment[d].people
                 /\ deployment'[d].status = "none" <=> deployment[d].status = "none"
<1> USE DEF ProgramUnchanged, OperationsUnchanged
<1>1. UNCHANGED <<alive, member, history, operation, run, push, excused, requeues>>
  BY DEF SiteApplies, ApplySnapshot, RejectSnapshot, apply_people_deletion, apply_event_deletion
<1>2. \/ UNCHANGED deployment
      \/ \E c : deployment[c].status # "none" /\ deployment' = [deployment EXCEPT ![c].status = "failed"]
  <2> PICK s \in Sites : ApplySnapshot(s) \/ RejectSnapshot(s) \/ apply_people_deletion(s) \/ apply_event_deletion(s)
    BY DEF SiteApplies
  <2>1. CASE RejectSnapshot(s)
    BY <2>1 DEF RejectSnapshot
  <2> QED
    BY <2>1 DEF ApplySnapshot, apply_people_deletion, apply_event_deletion
<1>3. ASSUME NEW d \in Occasions \X Sites
      PROVE  /\ deployment'[d].revision = deployment[d].revision
             /\ deployment'[d].people = deployment[d].people
             /\ deployment'[d].status = "none" <=> deployment[d].status = "none"
  <2>1. deployment[d] \in [status: {"none", "live", "failed"}, revision: 0..Revised, people: SUBSET Individuals]
    BY DEF LifecycleTypeOK
  <2>2. DOMAIN deployment = Occasions \X Sites
    BY DEF LifecycleTypeOK
  <2> QED
    BY <1>2, <2>1, <2>2
<1> QED
  BY <1>1, <1>3

LEMMA DeployStays ==
    ASSUME DeployNext \/ SiteApplies
    PROVE  UNCHANGED <<operation, history>>
BY DEF DeployNext, SiteApplies, AddPerson, AddParticipation, BeginPush, ResendSnapshot, FinishPush, AbortPush,
       ApplySnapshot, RejectSnapshot, apply_people_deletion, apply_event_deletion, OperationsUnchanged,
       ProgramUnchanged

\* What the worker writes to the operation it has claimed.
LEMMA WorkerSteps ==
    ASSUME WorkerNext
    PROVE  \/ UNCHANGED operation
           \/ \E status \in DeletionStatus :
                 /\ operation' = [operation EXCEPT ![run.target].status = status,
                                                   ![run.target].attempts = @ + 1]
                 /\ run # NoRun /\ run' = NoRun
                 /\ status \in {"pending", "retry_wait"} =>
                        operation[run.target].attempts + 1 < MaxAttempts
<1>1. ASSUME NEW t \in Targets, ClaimDeletion(t) PROVE UNCHANGED operation
  BY <1>1 DEF ClaimDeletion
<1>2. ASSUME CleanUp PROVE UNCHANGED operation
  BY <1>2 DEF CleanUp
<1>3. ASSUME run.phase \in {"cleaned", "told"} PROVE run # NoRun
  BY <1>3 DEF NoRun
<1>4. CASE IntegrityError
  BY <1>3, <1>4 DEF IntegrityError, Fail, DeletionStatus
<1>5. CASE TransientError
  BY <1>5 DEF TransientError, Fail, DeletionStatus
<1>6. CASE _delete_event
  BY <1>3, <1>6 DEF _delete_event, Complete, DeletionStatus
<1>7. CASE run_deletion
  BY <1>3, <1>7 DEF run_deletion, Complete, DeletionStatus
<1>8. CASE run_bulk_people_deletion
  BY <1>3, <1>8 DEF run_bulk_people_deletion, Complete, DeletionStatus
<1>9. ASSUME _publish_people_deletion PROVE UNCHANGED operation
  BY <1>9 DEF _publish_people_deletion
<1> QED
  BY <1>1, <1>2, <1>4, <1>5, <1>6, <1>7, <1>8, <1>9 DEF WorkerNext

\* Operations are never forgotten, keep the people they are about, and stay completed.
LEMMA OperationsStay ==
    ASSUME LifecycleTypeOK, LifecycleNext(Targets), NEW t \in Targets
    PROVE  /\ operation[t] # NoOperation =>
                  operation'[t] # NoOperation /\ operation'[t].ids = operation[t].ids
           /\ operation[t].status = "completed" => operation'[t].status = "completed"
<1>1. CASE UNCHANGED operation
  BY <1>1
<1>2. CASE RequestNext(Targets)
  <2>1. PICK u \in Targets, ids \in SUBSET Individuals :
                  /\ operation[u] = NoOperation \/ (operation[u].status = "failed" /\ ids = operation[u].ids)
                  /\ operation' = [operation EXCEPT ![u] = Queued(ids)]
    BY <1>2, RequestSteps
  <2>2. CASE t = u
    BY <2>1, <2>2 DEF Queued, NoOperation, LifecycleTypeOK
  <2>3. CASE t # u
    BY <2>1, <2>3 DEF LifecycleTypeOK
  <2> QED
    BY <2>2, <2>3
<1>3. CASE WorkerNext /\ operation' # operation
  <2>1. PICK status \in DeletionStatus :
                 /\ operation' = [operation EXCEPT ![run.target].status = status,
                                                   ![run.target].attempts = @ + 1]
                 /\ run # NoRun
    BY <1>3, WorkerSteps
  <2>2. run.target \in Targets /\ Unfinished(run.target)
    BY <2>1, RunTyped
  <2>3. /\ operation'[run.target].status = status /\ operation'[run.target].ids = operation[run.target].ids
        /\ \A u \in Targets : u # run.target => operation'[u] = operation[u]
    BY <2>1, <2>2, OutcomeIsRow
  <2>4. operation'[run.target] # NoOperation
    BY <2>3 DEF NoOperation, DeletionStatus
  <2> QED
    BY <2>2, <2>3, <2>4 DEF Unfinished
<1> QED
  BY <1>1, <1>2, <1>3, DeployStays DEF LifecycleNext

LEMMA StandKept ==
    ASSUME LifecycleTypeOK, OperationsStand, LifecycleNext(Targets)
    PROVE  OperationsStand'
<1>1. CASE UNCHANGED operation
  BY <1>1 DEF OperationsStand, Unfinished
<1>2. CASE RequestNext(Targets)
  <2>1. PICK u \in Targets, ids \in SUBSET Individuals :
                  /\ operation[u] = NoOperation \/ (operation[u].status = "failed" /\ ids = operation[u].ids)
                  /\ operation' = [operation EXCEPT ![u] = Queued(ids)]
                  /\ operation[u] = NoOperation /\ u \notin Sweeps => ids = {u} \cap Individuals
    BY <1>2, RequestSteps
  <2>2. operation'[u] = [status |-> "pending", attempts |-> 0, ids |-> ids]
    BY <2>1 DEF Queued, LifecycleTypeOK
  <2>3. u \notin Sweeps => ids = {u} \cap Individuals
    BY <2>1 DEF OperationsStand, NoOperation
  <2>4. \A t \in Targets : t # u => operation'[t] = operation[t]
    BY <2>1 DEF LifecycleTypeOK
  <2> QED
    BY <2>2, <2>3, <2>4, LifecycleAssumption DEF OperationsStand, Unfinished
<1>3. CASE WorkerNext /\ operation' # operation
  <2>1. PICK status \in DeletionStatus :
                 /\ operation' = [operation EXCEPT ![run.target].status = status,
                                                   ![run.target].attempts = @ + 1]
                 /\ run # NoRun
                 /\ status \in {"pending", "retry_wait"} =>
                        operation[run.target].attempts + 1 < MaxAttempts
    BY <1>3, WorkerSteps
  <2>2. run.target \in Targets /\ Unfinished(run.target)
    BY <2>1, RunTyped
  <2>3. /\ operation'[run.target].status = status /\ operation'[run.target].ids = operation[run.target].ids
        /\ operation'[run.target].attempts = operation[run.target].attempts + 1
        /\ \A u \in Targets : u # run.target => operation'[u] = operation[u]
    BY <2>1, <2>2, OutcomeIsRow
  <2>4. operation[run.target] # NoOperation
    BY <2>2 DEF NoOperation, Unfinished
  <2> QED
    BY <2>1, <2>2, <2>3, <2>4 DEF OperationsStand, Unfinished
<1> QED
  BY <1>1, <1>2, <1>3, DeployStays DEF LifecycleNext

LEMMA HoldKept ==
    ASSUME LifecycleTypeOK, TransactionsHold, OperationsStand, DeletionComplete, LifecycleNext(Targets)
    PROVE  TransactionsHold'
<1> USE DEF ProgramUnchanged, SitesUnchanged, OperationsUnchanged, WorkerUnchanged
<1>1. CASE DeployNext
  <2>1. ASSUME NEW p \in Individuals, AddPerson(p) PROVE TransactionsHold'
    BY <2>1 DEF TransactionsHold, AddPerson
  <2>2. ASSUME NEW p \in Individuals, NEW e \in Occasions, AddParticipation(p, e) PROVE TransactionsHold'
    BY <2>2 DEF TransactionsHold, AddParticipation
  <2>3. ASSUME NEW e \in Occasions, NEW s \in Sites, BeginPush(e, s) PROVE TransactionsHold'
    BY <2>3 DEF TransactionsHold, BeginPush
  <2>4. ASSUME NEW e \in Occasions, NEW s \in Sites, ResendSnapshot(e, s) PROVE TransactionsHold'
    BY <2>4 DEF TransactionsHold, ResendSnapshot
  <2>5. ASSUME FinishPush PROVE TransactionsHold'
    <3>1. run'.members = run.members
      BY <2>5 DEF FinishPush, MarkLate, LifecycleTypeOK, NoRun
    <3> QED
      BY <2>5, <3>1 DEF TransactionsHold, FinishPush
  <2>6. ASSUME AbortPush PROVE TransactionsHold'
    BY <2>6 DEF TransactionsHold, AbortPush
  <2> QED
    BY <1>1, <2>1, <2>2, <2>3, <2>4, <2>5, <2>6 DEF DeployNext
<1>2. CASE SiteApplies
  BY <1>2, SiteSteps, PushTyped DEF TransactionsHold
<1>3. CASE RequestNext(Targets)
  BY <1>3, RequestSteps DEF TransactionsHold
<1>4. ASSUME NEW t \in Targets, ClaimDeletion(t) PROVE TransactionsHold'
  <2>1. PeopleOf(t) \subseteq alive
    BY DEF PeopleOf, DeletionComplete
  <2>2. run'.members \subseteq alive
    BY <1>4, <2>1 DEF ClaimDeletion, NoRun
  <2> QED
    BY <1>4, <2>2 DEF ClaimDeletion, TransactionsHold
<1>5. CASE CleanUp
  <2>1. run'.members = run.members
    BY <1>5 DEF CleanUp, LifecycleTypeOK, NoRun
  <2> QED
    BY <1>5, <2>1 DEF CleanUp, TransactionsHold
<1>6. ASSUME NEW status, Fail(status) PROVE TransactionsHold'
  BY <1>6 DEF Fail, TransactionsHold, NoRun
<1>7. CASE _delete_event
  <2>1. run'.members = {} /\ UNCHANGED push
    BY <1>7 DEF _delete_event, Complete, NoRun
  <2>2. push # NoPush => push.event # run.target
    BY <1>7 DEF _delete_event, Free
  <2>3. push # NoPush => push.event \in alive'
    BY <1>7, <2>2 DEF _delete_event, TransactionsHold
  <2>4. push # NoPush => deployment'[<<push.event, push.site>>] = deployment[<<push.event, push.site>>]
    BY <1>7, <2>2, PushTyped DEF _delete_event
  <2> QED
    BY <2>1, <2>3, <2>4 DEF TransactionsHold
<1>8. ASSUME NEW ids, _delete_person(ids), ids \subseteq Individuals, push # NoPush
      PROVE  push.event \in alive'
  BY <1>8, PushTyped, TargetsApart DEF _delete_person, TransactionsHold
<1>9. ASSUME run.phase = "told" PROVE operation[run.target].ids \subseteq Individuals
  BY <1>9, RunTyped, OperationTyped
<1>10. CASE run_deletion
  BY <1>8, <1>9, <1>10 DEF run_deletion, Complete, NoRun, TransactionsHold
<1>11. CASE run_bulk_people_deletion
  <2>1. run'.members = {} /\ UNCHANGED push
    BY <1>11 DEF run_bulk_people_deletion, Complete, NoRun
  <2>2. push # NoPush => push.event \notin run.affected
    BY <1>11 DEF run_bulk_people_deletion, Free
  <2>3. push # NoPush => push.event \in alive'
    BY <1>8, <1>9, <1>11 DEF run_bulk_people_deletion
  <2>4. push # NoPush => deployment'[<<push.event, push.site>>] = deployment[<<push.event, push.site>>]
    BY <1>11, <2>2, PushTyped DEF run_bulk_people_deletion
  <2> QED
    BY <2>1, <2>3, <2>4 DEF TransactionsHold
<1>12. CASE _publish_people_deletion
  <2>1. run'.members = run.members
    BY <1>12 DEF _publish_people_deletion, LifecycleTypeOK, NoRun
  <2> QED
    BY <1>12, <2>1 DEF _publish_people_deletion, TransactionsHold
<1> QED
  BY <1>1, <1>2, <1>3, <1>4, <1>5, <1>6, <1>7, <1>10, <1>11, <1>12
     DEF LifecycleNext, WorkerNext, IntegrityError, TransientError

LEMMA SweptGrows ==
    ASSUME LifecycleTypeOK, LifecycleNext(Targets)
    PROVE  /\ Cardinality(Swept) \in Nat /\ Cardinality(Swept') \in Nat
           /\ Cardinality(Swept) <= Cardinality(Swept')
<1>1. Swept \subseteq Swept' /\ Swept' \subseteq Sweeps
  BY OperationsStay DEF Swept, Targets
<1>2. IsFiniteSet(Swept')
  BY <1>1, LifecycleAssumption, FS_Subset
<1> QED
  BY <1>1, <1>2, FS_Subset, FS_CardinalityType

LEMMA RevisionsKept ==
    ASSUME LifecycleTypeOK, TransactionsHold, RevisionsCounted, LifecycleNext(Targets)
    PROVE  RevisionsCounted'
<1> DEFINE N == Cardinality(Swept)
           Ok(d) == d.revision <= MaxPushes + Cardinality(Swept') /\ (d.status # "none" => d.revision # 0)
<1>1. N \in Nat /\ Cardinality(Swept') \in Nat /\ N <= Cardinality(Swept') /\ MaxPushes \in Nat
  BY SweptGrows, LifecycleAssumption
<1>2. SUFFICES ASSUME NEW e \in Occasions, NEW s \in Sites PROVE Ok(deployment'[<<e, s>>])
  BY DEF RevisionsCounted, Has
<1> DEFINE d == deployment[<<e, s>>]
<1>3. d.revision \in Nat /\ d.revision <= MaxPushes + N /\ (d.status # "none" => d.revision # 0)
  BY DeploymentTyped DEF RevisionsCounted, Has
<1>4. ASSUME deployment'[<<e, s>>].revision = d.revision,
             deployment'[<<e, s>>].status = "none" <=> d.status = "none"
      PROVE  Ok(deployment'[<<e, s>>])
  BY <1>1, <1>3, <1>4
<1>5. CASE UNCHANGED deployment
  BY <1>4, <1>5
<1>6. CASE SiteApplies
  BY <1>4, <1>6, SiteSteps
<1>7. ASSUME NEW x \in Occasions, NEW y \in Sites, ResendSnapshot(x, y) PROVE Ok(deployment'[<<e, s>>])
  <2>1. /\ deployment[<<x, y>>].status = "failed"
        /\ deployment' = [deployment EXCEPT ![<<x, y>>].status = "live"]
    BY <1>7 DEF ResendSnapshot
  <2>2. /\ deployment'[<<e, s>>].revision = d.revision
        /\ deployment'[<<e, s>>].status = "none" <=> d.status = "none"
    <3>1. d \in [status: {"none", "live", "failed"}, revision: 0..Revised, people: SUBSET Individuals]
      BY DEF LifecycleTypeOK
    <3>2. DOMAIN deployment = Occasions \X Sites
      BY DEF LifecycleTypeOK
    <3> QED
      BY <2>1, <3>1, <3>2
  <2> QED
    BY <1>4, <2>2
<1>8. CASE FinishPush
  <2>1. CASE <<e, s>> = <<push.event, push.site>>
    <3>1. deployment'[<<e, s>>] = [status |-> "live", revision |-> d.revision + 1, people |-> push.people]
      BY <1>8, <2>1 DEF FinishPush, LifecycleTypeOK
    <3>2. d.revision < MaxPushes
      BY <1>8, <2>1 DEF FinishPush, TransactionsHold
    <3> QED
      BY <1>1, <1>3, <3>1, <3>2
  <2>2. CASE <<e, s>> # <<push.event, push.site>>
    BY <1>4, <1>8, <2>2 DEF FinishPush, LifecycleTypeOK
  <2> QED
    BY <2>1, <2>2
<1>9. CASE _delete_event
  <2>1. CASE e = run.target
    <3>1. deployment'[<<e, s>>] = NoDeployment
      BY <1>9, <2>1 DEF _delete_event
    <3> QED
      BY <1>1, <3>1 DEF NoDeployment
  <2>2. CASE e # run.target
    BY <1>4, <1>9, <2>2 DEF _delete_event
  <2> QED
    BY <2>1, <2>2
<1>10. CASE run_bulk_people_deletion
  <2>1. Complete /\ run # NoRun /\ run.target \in Sweeps
    BY <1>10 DEF run_bulk_people_deletion, NoRun
  <2>2. d.revision + 1 <= MaxPushes + Cardinality(Swept')
    BY <2>1, SweepRevision
  <2>3. \/ deployment'[<<e, s>>] = d
        \/ /\ deployment'[<<e, s>>].revision = d.revision + 1
           /\ deployment'[<<e, s>>].status = "live"
    BY <1>10 DEF run_bulk_people_deletion
  <2> QED
    BY <1>3, <1>4, <2>2, <2>3
<1>11. CASE DeployNext
  BY <1>5, <1>7, <1>8, <1>11 DEF DeployNext, AddPerson, AddParticipation, BeginPush, AbortPush
<1>12. CASE RequestNext(Targets)
  BY <1>5, <1>12, RequestSteps
<1>13. CASE WorkerNext
  BY <1>5, <1>9, <1>10, <1>13
     DEF WorkerNext, ClaimDeletion, CleanUp, _publish_people_deletion, IntegrityError, TransientError, Fail, run_deletion
<1> QED
  BY <1>6, <1>11, <1>12, <1>13 DEF LifecycleNext

-----------------------------------------------------------------------------
(* Deletions: complete.                                                    *)

\* What is to be deleted and what depends on it, when a transaction writes.
LEMMA Deletable ==
    ASSUME LifecycleTypeOK, OperationsStand, SitesTold, run.phase \in {"cleaned", "told"},
           run.phase = "cleaned" => ~Violated
    PROVE  /\ run # NoRun /\ run.target \in Targets /\ Unfinished(run.target)
           /\ run.cleaned = Dependent(run.target) /\ run.removed = Deployed(run.target)
           /\ operation[run.target].ids \subseteq Individuals
           /\ run.target \in Individuals => operation[run.target].ids = {run.target}
           /\ run.target \in Occasions => operation[run.target].ids = {}
<1>1. run # NoRun /\ run.target \in Targets /\ Unfinished(run.target)
  BY RunTyped
<1>2. operation[run.target] # NoOperation
  BY <1>1 DEF Unfinished, NoOperation
<1>3. run.target \notin Sweeps => operation[run.target].ids = {run.target} \cap Individuals
  BY <1>1, <1>2 DEF OperationsStand
<1>4. operation[run.target].ids \subseteq Individuals
  BY <1>1, OperationTyped
<1>5. run.cleaned = Dependent(run.target) /\ run.removed = Deployed(run.target)
  BY DEF Violated, SitesTold
<1> QED
  BY <1>1, <1>3, <1>4, <1>5, TargetsApart

\* Which deletions are complete, as a set of targets and what they took.
LEMMA CompletedSteps ==
    ASSUME LifecycleTypeOK, LifecycleNext(Targets), NEW t \in Targets,
           operation'[t].status = "completed", operation[t].status # "completed"
    PROVE  /\ t = run.target /\ operation'[t].ids = operation[t].ids
           /\ _delete_event \/ run_deletion \/ run_bulk_people_deletion
<1>1. CASE UNCHANGED operation
  BY <1>1
<1>2. CASE RequestNext(Targets)
  BY <1>2, RequestSteps DEF Queued, LifecycleTypeOK
<1>3. CASE WorkerNext /\ operation' # operation
  <2>1. PICK status \in DeletionStatus :
                 /\ operation' = [operation EXCEPT ![run.target].status = status,
                                                   ![run.target].attempts = @ + 1]
                 /\ run # NoRun
    BY <1>3, WorkerSteps
  <2>2. run.target \in Targets
    BY <2>1, RunTyped
  <2>3. /\ operation'[run.target].status = status /\ operation'[run.target].ids = operation[run.target].ids
        /\ \A u \in Targets : u # run.target => operation'[u] = operation[u]
    BY <2>1, <2>2, OutcomeIsRow
  <2>4. t = run.target
    BY <2>3
  <2>5. ASSUME NEW x, Fail(x) PROVE operation'[t].status = x
    BY <2>2, <2>4, <2>5, OutcomeIsRow DEF Fail
  <2>6. ~IntegrityError /\ ~TransientError
    BY <2>5 DEF IntegrityError, TransientError
  <2>7. ~CleanUp /\ ~_publish_people_deletion /\ ~\E u \in Targets : ClaimDeletion(u)
    BY <1>3 DEF CleanUp, _publish_people_deletion, ClaimDeletion
  <2> QED
    BY <1>3, <2>3, <2>4, <2>6, <2>7 DEF WorkerNext
<1> QED
  BY <1>1, <1>2, <1>3, DeployStays DEF LifecycleNext

\* Nothing that was deleted is made again.
LEMMA DeletedStay ==
    ASSUME LifecycleTypeOK, OperationsStand, LifecycleNext(Targets), NEW x \in alive' \ alive
    PROVE  /\ x \in Individuals /\ operation[x] = NoOperation
           /\ \A t \in Targets : x \notin operation[t].ids
           /\ UNCHANGED <<operation, member, history, deployment, push, feed, projected, excused>>
<1>1. PICK p \in Individuals : AddPerson(p)
  <2>1. ~WorkerNext
    <3>1. WorkerNext => alive' \subseteq alive
      BY DEF WorkerNext, ClaimDeletion, CleanUp, _publish_people_deletion, IntegrityError, TransientError, Fail, _delete_event,
             run_deletion, run_bulk_people_deletion, _delete_person, ProgramUnchanged
    <3> QED
      BY <3>1
  <2>2. ~SiteApplies /\ ~RequestNext(Targets)
    BY SiteSteps, RequestSteps
  <2> QED
    BY <2>1, <2>2 DEF LifecycleNext, DeployNext, AddParticipation, BeginPush, ResendSnapshot, FinishPush,
                      AbortPush, ProgramUnchanged
<1>2. x = p /\ operation[p] = NoOperation /\ \A t \in Sweeps : p \notin operation[t].ids
  BY <1>1 DEF AddPerson
<1>3. ASSUME NEW t \in Targets PROVE x \notin operation[t].ids
  <2>1. CASE t \in Sweeps
    BY <1>2, <2>1
  <2>2. CASE operation[t] = NoOperation
    BY <2>2 DEF NoOperation
  <2>3. CASE t \notin Sweeps /\ operation[t] # NoOperation
    BY <1>2, <2>3 DEF OperationsStand
  <2> QED
    BY <2>1, <2>2, <2>3
<1> QED
  BY <1>1, <1>2, <1>3 DEF AddPerson, SitesUnchanged, OperationsUnchanged

\* From the deletion of the people to the commit no row is made that refers to them, and a Site
\* that gets an affected event then gets it late.
LEMMA ToldKept ==
    ASSUME LifecycleTypeOK, OperationsStand, SitesTold, LifecycleNext(Targets)
    PROVE  SitesTold'
<1> SUFFICES ASSUME run'.phase = "told" PROVE SitesTold'
  BY DEF SitesTold
<1> DEFINE Told == \A e \in run.affected, s \in Sites : Has(e, s) => s \in run.sites \/ e \in run.late
<1>1. ASSUME run.phase = "told"
      PROVE  /\ run # NoRun /\ run.target \in Targets /\ operation[run.target] # NoOperation
             /\ run.target \notin Occasions /\ run.removed = {} /\ Told
             /\ run.cleaned = {m \in member : m[1] \in operation[run.target].ids}
  <2>1. run # NoRun /\ run.target \in Targets /\ Unfinished(run.target)
    BY <1>1, RunTyped
  <2>2. operation[run.target] # NoOperation
    BY <2>1 DEF Unfinished, NoOperation
  <2>3. run.target \notin Occasions /\ ~Violated /\ Told
    BY <1>1 DEF SitesTold
  <2>4. \A m \in member : m[2] # run.target
    BY <2>3 DEF LifecycleTypeOK, Participations
  <2> QED
    BY <2>1, <2>2, <2>3, <2>4 DEF Violated, Dependent, Deployed
<1>2. ASSUME run.phase = "told", run'.target = run.target, run'.removed = run.removed,
             run'.cleaned = run.cleaned, run'.affected = run.affected, run'.sites = run.sites,
             run.late \subseteq run'.late,
             member' \subseteq Participations,
             {m \in member' : m[1] \in operation[run.target].ids} =
                 {m \in member : m[1] \in operation[run.target].ids},
             \A e \in Occasions, s \in Sites :
                 deployment'[<<e, s>>].status # "none" => Has(e, s) \/ e \in run'.late
      PROVE  SitesTold'
  <2>1. operation'[run.target].ids = operation[run.target].ids
    BY <1>1, <1>2, OperationsStay
  <2>2. run.target \notin Occasions /\ run.removed = {} /\ run.affected \subseteq Occasions /\ Told
    BY <1>1, <1>2, RunTyped
  <2>3. Dependent(run.target)' = run.cleaned
    <3>1. \A m \in member' : m[2] # run.target
      BY <1>2, <2>2 DEF Participations
    <3> QED
      BY <1>1, <1>2, <2>1, <3>1 DEF Dependent
  <2>4. Deployed(run.target)' = {}
    BY <1>2, <2>2 DEF Deployed
  <2>5. ~Violated'
    BY <1>2, <2>2, <2>3, <2>4 DEF Violated, Dependent, Deployed
  <2>6. ASSUME NEW e \in run.affected, NEW s \in Sites, Has(e, s)' PROVE s \in run.sites \/ e \in run'.late
    BY <1>2, <2>2, <2>6 DEF Has
  <2> QED
    BY <1>2, <2>2, <2>5, <2>6 DEF SitesTold
<1>3. ASSUME run' = run, UNCHANGED member,
             \A e \in Occasions, s \in Sites : deployment'[<<e, s>>].status # "none" => Has(e, s)
      PROVE  SitesTold'
  <2>1. member' \subseteq Participations
    BY <1>3 DEF LifecycleTypeOK
  <2> QED
    BY <1>2, <1>3, <2>1
<1>4. CASE SiteApplies
  BY <1>3, <1>4, SiteSteps DEF Has
<1>5. CASE RequestNext(Targets)
  BY <1>3, <1>5, RequestSteps DEF Has
<1>6. CASE DeployNext
  <2> USE DEF ProgramUnchanged, SitesUnchanged, OperationsUnchanged
  <2>1. ASSUME NEW p \in Individuals, NEW e \in Occasions, AddParticipation(p, e) PROVE SitesTold'
    <3>1. run' = run /\ UNCHANGED deployment /\ run.phase = "told" /\ p \notin operation[run.target].ids
          /\ member' = member \cup {<<p, e>>}
      BY <2>1 DEF AddParticipation
    <3>2. member' \subseteq Participations
      BY <3>1 DEF LifecycleTypeOK, Participations
    <3>3. {m \in member' : m[1] \in operation[run.target].ids} = {m \in member : m[1] \in operation[run.target].ids}
      BY <3>1
    <3> QED
      BY <1>2, <3>1, <3>2, <3>3 DEF Has
  <2>2. ASSUME NEW e \in Occasions, NEW s \in Sites, ResendSnapshot(e, s) PROVE SitesTold'
    <3>1. ASSUME NEW x \in Occasions, NEW z \in Sites, deployment'[<<x, z>>].status # "none" PROVE Has(x, z)
      <4>1. CASE <<x, z>> = <<e, s>>
        BY <2>2, <4>1 DEF ResendSnapshot, Has
      <4>2. CASE <<x, z>> # <<e, s>>
        BY <2>2, <3>1, <4>2 DEF ResendSnapshot, Has, LifecycleTypeOK
      <4> QED
        BY <4>1, <4>2
    <3> QED
      BY <1>3, <2>2, <3>1 DEF ResendSnapshot
  <2>3. ASSUME FinishPush PROVE SitesTold'
    <3> DEFINE e == push.event
               s == push.site
    <3>1. MarkLate(e, s) /\ UNCHANGED member /\ push # NoPush
      BY <2>3 DEF FinishPush
    <3>2. e \in Occasions /\ s \in Sites
      BY <3>1, PushTyped
    <3>3. ASSUME NEW x \in Occasions, NEW z \in Sites, <<x, z>> # <<e, s>>
          PROVE  deployment'[<<x, z>>] = deployment[<<x, z>>]
      BY <2>3, <3>3 DEF FinishPush, LifecycleTypeOK
    <3>4. CASE Has(e, s)
      <4>1. run' = run
        BY <3>1, <3>4 DEF MarkLate
      <4> QED
        BY <1>3, <3>1, <3>3, <3>4, <4>1 DEF Has
    <3>5. CASE ~Has(e, s)
      <4>1. run.phase = "told"
        BY <3>1 DEF MarkLate
      <4>2. run' = [run EXCEPT !.late = @ \cup {e}] /\ run # NoRun
        BY <1>1, <3>1, <3>5, <4>1 DEF MarkLate
      <4>3. /\ run'.target = run.target /\ run'.removed = run.removed /\ run'.cleaned = run.cleaned
            /\ run'.affected = run.affected /\ run'.sites = run.sites /\ run'.late = run.late \cup {e}
        BY <4>2 DEF LifecycleTypeOK
      <4>4. member' \subseteq Participations
        BY <3>1 DEF LifecycleTypeOK
      <4> HIDE DEF e, s
      <4> QED
        BY <1>2, <3>1, <3>3, <4>1, <4>3, <4>4 DEF Has
    <3> QED
      BY <3>4, <3>5
  <2> QED
    BY <1>3, <1>6, <2>1, <2>2, <2>3 DEF DeployNext, AddPerson, BeginPush, AbortPush, Has
<1>7. CASE _publish_people_deletion
  <2>1. /\ run.phase = "cleaned" /\ run.target \notin Occasions /\ ~Violated
        /\ run' = [run EXCEPT !.phase = "told", !.sites = SitesOf(run.affected)]
        /\ UNCHANGED <<operation, deployment, member>>
    BY <1>7 DEF _publish_people_deletion, ProgramUnchanged
  <2>2. /\ run'.target = run.target /\ run'.removed = run.removed /\ run'.cleaned = run.cleaned
        /\ run'.affected = run.affected /\ run'.sites = SitesOf(run.affected)
    BY <2>1 DEF LifecycleTypeOK, NoRun
  <2>3. ~Violated'
    BY <2>1, <2>2 DEF Violated, Dependent, Deployed, Has
  <2> QED
    BY <2>1, <2>2, <2>3 DEF SitesTold, SitesOf, Has
<1>8. CASE WorkerNext /\ ~_publish_people_deletion
  <2>1. run' = NoRun \/ run'.phase # "told"
    BY <1>8 DEF WorkerNext, ClaimDeletion, CleanUp, IntegrityError, TransientError, Fail, _delete_event,
                run_deletion, run_bulk_people_deletion, Complete, LifecycleTypeOK, NoRun
  <2> QED
    BY <2>1 DEF NoRun
<1> QED
  BY <1>4, <1>5, <1>6, <1>7, <1>8 DEF LifecycleNext

LEMMA CompleteKept ==
    ASSUME LifecycleTypeOK, OperationsStand, SitesTold, TransactionsHold, DeletionComplete, LifecycleNext(Targets)
    PROVE  DeletionComplete'
<1> USE DEF ProgramUnchanged
<1>1. \A m \in member' \cup history' : m[1] \in alive'
  <2>1. ASSUME UNCHANGED <<member, history>>, alive \subseteq alive' PROVE \A m \in member' \cup history' : m[1] \in alive'
    BY <2>1 DEF DeletionComplete
  <2>2. ASSUME NEW p \in Individuals, NEW e \in Occasions, AddParticipation(p, e)
        PROVE  \A m \in member' \cup history' : m[1] \in alive'
    BY <2>2 DEF AddParticipation, DeletionComplete
  <2>3. ASSUME _delete_event PROVE \A m \in member' \cup history' : m[1] \in alive'
    <3>1. ASSUME NEW m \in member' \cup history' PROVE m[1] \in alive /\ m[1] \in Individuals
      BY <2>3, <3>1, RunTyped DEF _delete_event, Retained, DeletionComplete, TransactionsHold, LifecycleTypeOK,
                                  Participations
    <3> QED
      BY <2>3, <3>1, TargetsApart DEF _delete_event
  <2>4. ASSUME NEW ids, ids = operation[run.target].ids, _delete_person(ids), run.phase = "told"
        PROVE  \A m \in member' \cup history' : m[1] \in alive'
    <3>1. run.cleaned = Dependent(run.target)
      BY <2>4, Deletable
    <3> QED
      BY <2>4, <3>1 DEF _delete_person, Dependent, DeletionComplete
  <2>5. CASE run_deletion \/ run_bulk_people_deletion
    BY <2>4, <2>5 DEF run_deletion, run_bulk_people_deletion
  <2>6. CASE SiteApplies \/ RequestNext(Targets)
    BY <2>1, <2>6, SiteSteps, RequestSteps
  <2>7. CASE DeployNext
    BY <2>1, <2>2, <2>7 DEF DeployNext, AddPerson, BeginPush, ResendSnapshot, FinishPush, AbortPush
  <2>8. CASE WorkerNext
    BY <2>1, <2>3, <2>5, <2>8 DEF WorkerNext, ClaimDeletion, CleanUp, _publish_people_deletion, IntegrityError, TransientError, Fail
  <2> QED
    BY <2>6, <2>7, <2>8 DEF LifecycleNext
<1>2. \A m \in member' : m[2] \in alive'
  <2>1. ASSUME UNCHANGED member, alive \subseteq alive' PROVE \A m \in member' : m[2] \in alive'
    BY <2>1 DEF DeletionComplete
  <2>2. ASSUME NEW p \in Individuals, NEW e \in Occasions, AddParticipation(p, e)
        PROVE  \A m \in member' : m[2] \in alive'
    BY <2>2 DEF AddParticipation, DeletionComplete
  <2>3. ASSUME _delete_event PROVE \A m \in member' : m[2] \in alive'
    <3>1. run.cleaned = Dependent(run.target)
      BY <2>3, Deletable DEF _delete_event
    <3> QED
      BY <2>3, <3>1 DEF _delete_event, Dependent, DeletionComplete
  <2>4. ASSUME NEW ids, ids = operation[run.target].ids, _delete_person(ids), run.phase = "told"
        PROVE  \A m \in member' : m[2] \in alive'
    <3>1. ids \subseteq Individuals
      BY <2>4, Deletable
    <3>2. \A m \in member : m[2] \in Occasions
      BY DEF LifecycleTypeOK, Participations
    <3> QED
      BY <2>4, <3>1, <3>2, TargetsApart DEF _delete_person, DeletionComplete
  <2>5. CASE run_deletion \/ run_bulk_people_deletion
    BY <2>4, <2>5 DEF run_deletion, run_bulk_people_deletion
  <2>6. CASE SiteApplies \/ RequestNext(Targets)
    BY <2>1, <2>6, SiteSteps, RequestSteps
  <2>7. CASE DeployNext
    BY <2>1, <2>2, <2>7 DEF DeployNext, AddPerson, BeginPush, ResendSnapshot, FinishPush, AbortPush
  <2>8. CASE WorkerNext
    BY <2>1, <2>3, <2>5, <2>8 DEF WorkerNext, ClaimDeletion, CleanUp, _publish_people_deletion, IntegrityError, TransientError, Fail
  <2> QED
    BY <2>6, <2>7, <2>8 DEF LifecycleNext
<1>3. ASSUME NEW e \in Occasions, NEW s \in Sites, deployment'[<<e, s>>].status # "none" PROVE e \in alive'
  <2>1. deployment[<<e, s>>].status # "none" => e \in alive
    BY DEF DeletionComplete, Has
  <2>2. CASE UNCHANGED deployment /\ alive \subseteq alive'
    BY <1>3, <2>1, <2>2
  <2>3. CASE SiteApplies
    BY <1>3, <2>1, <2>3, SiteSteps
  <2>4. ASSUME NEW x \in Occasions, NEW y \in Sites, ResendSnapshot(x, y) PROVE e \in alive'
    <3>1. CASE <<x, y>> = <<e, s>>
      BY <2>1, <2>4, <3>1 DEF ResendSnapshot
    <3>2. CASE <<x, y>> # <<e, s>>
      BY <1>3, <2>1, <2>4, <3>2 DEF ResendSnapshot, LifecycleTypeOK
    <3> QED
      BY <3>1, <3>2
  <2>5. CASE FinishPush
    <3>1. CASE <<push.event, push.site>> = <<e, s>>
      BY <2>5, <3>1 DEF FinishPush, TransactionsHold
    <3>2. CASE <<push.event, push.site>> # <<e, s>>
      BY <1>3, <2>1, <2>5, <3>2 DEF FinishPush, LifecycleTypeOK
    <3> QED
      BY <3>1, <3>2
  <2>6. CASE _delete_event
    <3>1. CASE e = run.target
      BY <1>3, <2>6, <3>1 DEF _delete_event, NoDeployment
    <3>2. CASE e # run.target
      BY <1>3, <2>1, <2>6, <3>2 DEF _delete_event
    <3> QED
      BY <3>1, <3>2
  <2>7. ASSUME run_deletion \/ run_bulk_people_deletion PROVE e \in alive'
    <3>1. operation[run.target].ids \subseteq Individuals
      BY <2>7, Deletable DEF run_deletion, run_bulk_people_deletion
    <3>2. e \in alive
      BY <1>3, <2>1, <2>7 DEF run_deletion, run_bulk_people_deletion, Has
    <3> QED
      BY <2>7, <3>1, <3>2, TargetsApart DEF run_deletion, run_bulk_people_deletion, _delete_person
  <2>8. CASE RequestNext(Targets)
    BY <2>2, <2>8, RequestSteps
  <2>9. CASE DeployNext
    BY <2>2, <2>4, <2>5, <2>9 DEF DeployNext, AddPerson, AddParticipation, BeginPush, AbortPush
  <2>10. CASE WorkerNext
    BY <2>2, <2>6, <2>7, <2>10 DEF WorkerNext, ClaimDeletion, CleanUp, _publish_people_deletion, IntegrityError, TransientError, Fail
  <2> QED
    BY <2>3, <2>8, <2>9, <2>10 DEF LifecycleNext
<1>4. ASSUME NEW t \in Targets, operation'[t].status = "completed"
      PROVE  alive' \cap (operation'[t].ids \cup {t}) = {}
  <2>1. CASE operation[t].status = "completed"
    <3>1. operation[t] # NoOperation /\ alive \cap (operation[t].ids \cup {t}) = {}
      BY <2>1 DEF DeletionComplete, NoOperation
    <3>2. operation'[t].ids = operation[t].ids
      BY <3>1, OperationsStay
    <3> QED
      BY <3>1, <3>2, DeletedStay
  <2>2. CASE operation[t].status # "completed"
    <3>1. t = run.target /\ operation'[t].ids = operation[t].ids
      BY <1>4, <2>2, CompletedSteps
    <3>2. CASE _delete_event
      <4>1. operation[t].ids = {} /\ t \notin alive'
        BY <2>2, <3>1, <3>2, Deletable DEF _delete_event
      <4> QED
        BY <3>1, <4>1
    <3>3. CASE run_deletion
      <4>1. operation[t].ids = {t} /\ alive' = alive \ operation[t].ids
        BY <2>2, <3>1, <3>3, Deletable DEF run_deletion, _delete_person
      <4> QED
        BY <3>1, <4>1
    <3>4. CASE run_bulk_people_deletion
      <4>1. alive' = alive \ operation[t].ids /\ t \in Sweeps
        BY <2>2, <3>1, <3>4 DEF run_bulk_people_deletion, _delete_person
      <4>2. t \notin alive
        BY <4>1, TargetsApart DEF LifecycleTypeOK
      <4> QED
        BY <3>1, <4>1, <4>2
    <3> QED
      BY <1>4, <2>2, <3>2, <3>3, <3>4, CompletedSteps
  <2> QED
    BY <2>1, <2>2
<1> QED
  BY <1>1, <1>2, <1>3, <1>4 DEF DeletionComplete, Has

-----------------------------------------------------------------------------
(* Deletions: the feeds.                                                   *)

\* A feed that is written keeps what is in it.
Extends(s) ==
    /\ Len(feed[s]) \in Nat /\ Len(feed'[s]) \in Nat
    /\ Len(feed[s]) <= Len(feed'[s])
    /\ \A i \in 1..Len(feed[s]) : feed'[s][i] = feed[s][i]

Pushing(m) == push.event = m[2] /\ m[1] \in push.people

\* Whoever a new message brings is in a stored snapshot, in the push, or takes part.
Brings(s, m) ==
    /\ deployment'[<<m[2], s>>].status # "none"
    /\ m[2] \in alive' /\ (m[1] \in alive' \/ m \in excused')
    /\ Stored(s, m) \/ Pushing(m) \/ m \in member

LEMMA FeedTyped ==
    ASSUME LifecycleTypeOK, NEW s \in Sites
    PROVE  feed[s] \in Seq(Message) /\ Len(feed[s]) \in Nat
BY DEF LifecycleTypeOK

\* One message is written.
LEMMA OneWritten ==
    ASSUME LifecycleTypeOK, NEW s \in Sites, NEW x \in Message, feed'[s] = Append(feed[s], x)
    PROVE  /\ Extends(s) /\ Len(feed'[s]) = Len(feed[s]) + 1
           /\ feed'[s][Len(feed[s]) + 1] = x
BY FeedTyped DEF Extends

LEMMA NoneWritten ==
    ASSUME LifecycleTypeOK, NEW s \in Sites, feed'[s] = feed[s]
    PROVE  Extends(s) /\ \A j \in (Len(feed[s]) + 1)..Len(feed'[s]) : FALSE
BY FeedTyped DEF Extends

\* The tombstones and the new snapshots of a sweep, behind each other.
LEMMA SweepWrites ==
    ASSUME LifecycleTypeOK, OperationsStand, SitesTold, RevisionsCounted, run_bulk_people_deletion, NEW s \in Sites
    PROVE  LET ids == operation[run.target].ids
           IN  /\ Extends(s)
               /\ s \in run.sites =>
                      /\ Len(feed[s]) < Len(feed'[s])
                      /\ feed'[s][Len(feed[s]) + 1] = [kind |-> "people", people |-> ids]
               /\ \A j \in (Len(feed[s]) + 1)..Len(feed'[s]) :
                      \/ feed'[s][j] = [kind |-> "people", people |-> ids]
                      \/ \E e \in run.affected, rev \in Nat :
                            Has(e, s) /\ feed'[s][j] = Snapshot(e, PeopleOf(e) \ ids, rev)
<1> DEFINE ids == operation[run.target].ids
           Left(e) == PeopleOf(e) \ ids
           rev(e) == deployment[<<e, s>>].revision + 1
           Again == {e \in run.affected : Has(e, s)}
           pushed == SetToSeq(Again)
           copies == [i \in DOMAIN pushed |-> Snapshot(pushed[i], Left(pushed[i]), rev(pushed[i]))]
           tomb == [kind |-> "people", people |-> ids]
           P == IF s \in run.sites THEN Append(feed[s], tomb) ELSE feed[s]
<1>1. feed'[s] = P \o copies
  BY DEF run_bulk_people_deletion, Tombstones
<1>2. Again \subseteq Occasions /\ IsFiniteSet(Again)
  <2>1. Again \subseteq Occasions
    BY RunTyped
  <2> QED
    BY <2>1, LifecycleAssumption, FS_Subset
<1>3. pushed \in [1..Cardinality(Again) -> Again] /\ Cardinality(Again) \in Nat
  BY <1>2, SetToSeqTyped
<1>4. tomb \in Message
  <2>1. ids \in SUBSET Individuals
    BY Deletable DEF run_bulk_people_deletion
  <2> QED
    BY <2>1, MessageTyped
<1>5. ASSUME NEW e \in Again PROVE e \in run.affected /\ Has(e, s) /\ rev(e) \in Nat
  BY <1>2, <1>5, DeploymentTyped
<1> HIDE DEF Again, pushed
<1>6. /\ DOMAIN copies = 1..Cardinality(Again)
      /\ \A i \in 1..Cardinality(Again) : \E e \in Again : copies[i] = Snapshot(e, Left(e), rev(e))
  BY <1>3
<1>7. feed[s] \in Seq(Message) /\ P \in Seq(Message)
  BY <1>4, FeedTyped
<1>8. /\ Len(P) \in Nat /\ Len(feed[s]) \in Nat /\ Len(feed[s]) <= Len(P) /\ Len(P) <= Len(feed[s]) + 1
      /\ \A i \in 1..Len(feed[s]) : P[i] = feed[s][i]
      /\ s \in run.sites => Len(P) = Len(feed[s]) + 1
      /\ Len(P) = Len(feed[s]) + 1 => P[Len(feed[s]) + 1] = tomb
  <2> HIDE DEF tomb
  <2> QED
    BY <1>4, <1>7
<1>9. copies = [i \in 1..Cardinality(Again) |-> copies[i]]
  BY <1>6
<1> HIDE DEF copies, P
<1>10. /\ Len(copies) = Cardinality(Again) /\ copies \in Seq({copies[i] : i \in 1..Cardinality(Again)})
  BY <1>3, <1>9
<1>11. /\ Len(P \o copies) = Len(P) + Len(copies)
       /\ \A i \in 1..(Len(P) + Len(copies)) :
             (P \o copies)[i] = IF i <= Len(P) THEN P[i] ELSE copies[i - Len(P)]
  BY <1>7, <1>10
<1>12. Extends(s)
  BY <1>1, <1>3, <1>8, <1>10, <1>11 DEF Extends
<1>13. s \in run.sites =>
          Len(feed[s]) < Len(feed'[s]) /\ feed'[s][Len(feed[s]) + 1] = tomb
  <2> HIDE DEF tomb
  <2> QED
    BY <1>1, <1>3, <1>8, <1>10, <1>11
<1>14. ASSUME NEW j \in (Len(feed[s]) + 1)..Len(feed'[s])
       PROVE  \/ feed'[s][j] = tomb
              \/ \E e \in run.affected, n \in Nat : Has(e, s) /\ feed'[s][j] = Snapshot(e, Left(e), n)
  <2>1. CASE j <= Len(P)
    <3> HIDE DEF tomb
    <3> QED
      BY <1>1, <1>3, <1>8, <1>10, <1>11, <2>1
  <2>2. CASE ~(j <= Len(P))
    <3>1. j - Len(P) \in 1..Cardinality(Again) /\ feed'[s][j] = copies[j - Len(P)]
      BY <1>1, <1>3, <1>8, <1>10, <1>11, <2>2
    <3>2. PICK e \in Again : feed'[s][j] = Snapshot(e, Left(e), rev(e))
      BY <1>6, <3>1
    <3>3. e \in run.affected /\ rev(e) \in Nat /\ Has(e, s)
      BY <1>5
    <3> HIDE DEF rev, Left
    <3> QED
      BY <3>2, <3>3
  <2> QED
    BY <2>1, <2>2
<1> QED
  BY <1>12, <1>13, <1>14

LEMMA CentralWrites ==
    ASSUME LifecycleTypeOK, OperationsStand, SitesTold, TransactionsHold, RevisionsCounted, DeletionComplete,
           DeployNext \/ RequestNext(Targets) \/ WorkerNext, NEW s \in Sites
    PROVE  /\ Extends(s) /\ projected' = projected
           /\ \A j \in (Len(feed[s]) + 1)..Len(feed'[s]), m \in Participations :
                  Carries(feed'[s][j], m) => Brings(s, m)
<1> USE DEF ProgramUnchanged, SitesUnchanged, WorkerUnchanged
<1> DEFINE Ok == /\ Extends(s) /\ projected' = projected
                 /\ \A j \in (Len(feed[s]) + 1)..Len(feed'[s]), m \in Participations :
                        Carries(feed'[s][j], m) => Brings(s, m)
<1>1. CASE UNCHANGED <<feed, projected>>
  BY <1>1, NoneWritten
<1>2. ASSUME NEW e \in Occasions, NEW z \in Sites, ResendSnapshot(e, z) PROVE Ok
  <2> DEFINE d == deployment[<<e, z>>]
             x == Snapshot(e, d.people, d.revision)
  <2>1. feed' = [feed EXCEPT ![z] = Append(@, x)] /\ projected' = projected /\ UNCHANGED alive
        /\ d.status = "failed" /\ excused' = excused \cup Gone(d.people, e)
        /\ deployment' = [deployment EXCEPT ![<<e, z>>].status = "live"]
    BY <1>2 DEF ResendSnapshot
  <2>2. CASE z # s
    <3>1. feed'[s] = feed[s]
      BY <2>1, <2>2 DEF LifecycleTypeOK
    <3> QED
      BY <2>1, <3>1, NoneWritten
  <2>3. CASE z = s
    <3>1. feed'[s] = Append(feed[s], x)
      BY <2>1, <2>3 DEF LifecycleTypeOK
    <3>2. e \in alive /\ d.revision \in 1..Revised /\ d.people \in SUBSET Individuals
      <4>1. Has(e, z)
        BY <2>1 DEF Has
      <4>2. e \in alive /\ d.revision # 0
        BY <4>1 DEF DeletionComplete, RevisionsCounted
      <4> QED
        BY <4>2, DeploymentTyped, RevisedTyped
    <3>3. x \in Message
      BY <3>2, MessageTyped
    <3>4. Extends(s) /\ Len(feed'[s]) = Len(feed[s]) + 1 /\ feed'[s][Len(feed[s]) + 1] = x
      <4> HIDE DEF x
      <4> QED
        BY <3>1, <3>3, OneWritten
    <3>5. deployment'[<<e, s>>].status = "live"
      BY <2>1, <2>3 DEF LifecycleTypeOK
    <3>6. ASSUME NEW m \in Participations, Carries(x, m) PROVE Brings(s, m)
      <4>1. m[2] = e /\ m[1] \in d.people /\ m = <<m[1], m[2]>>
        BY <3>6 DEF Carries, Snapshot, Participations
      <4>2. m[1] \in alive' \/ m \in excused'
        BY <2>1, <4>1 DEF Gone
      <4> QED
        BY <2>1, <2>3, <3>2, <3>5, <4>1, <4>2 DEF Brings, Stored
    <3>7. \A j \in (Len(feed[s]) + 1)..Len(feed'[s]) : feed'[s][j] = x
      BY <3>4, FeedTyped
    <3> HIDE DEF x
    <3> QED
      BY <2>1, <3>4, <3>6, <3>7
  <2> QED
    BY <2>2, <2>3
<1>3. CASE FinishPush
  <2> DEFINE e == push.event
             z == push.site
             rev == deployment[<<e, z>>].revision + 1
             x == Snapshot(e, push.people, rev)
  <2>1. feed' = [feed EXCEPT ![z] = Append(@, x)] /\ projected' = projected /\ UNCHANGED alive
        /\ push # NoPush /\ excused' = excused \cup Gone(push.people, e)
        /\ deployment' = [deployment EXCEPT ![<<e, z>>] = [status |-> "live", revision |-> rev, people |-> push.people]]
    BY <1>3 DEF FinishPush
  <2>2. e \in Occasions /\ z \in Sites /\ push.people \in SUBSET Individuals
    BY <2>1, PushTyped
  <2>3. CASE z # s
    <3>1. feed'[s] = feed[s]
      BY <2>1, <2>3 DEF LifecycleTypeOK
    <3> QED
      BY <2>1, <3>1, NoneWritten
  <2>4. CASE z = s
    <3>1. feed'[s] = Append(feed[s], x)
      BY <2>1, <2>4 DEF LifecycleTypeOK
    <3>2. e \in alive /\ rev \in 1..Revised
      BY <2>1, <2>2, DeploymentTyped, RevisedTyped DEF TransactionsHold
    <3>3. x \in Message
      BY <2>2, <3>2, MessageTyped
    <3>4. Extends(s) /\ Len(feed'[s]) = Len(feed[s]) + 1 /\ feed'[s][Len(feed[s]) + 1] = x
      <4> HIDE DEF x
      <4> QED
        BY <3>1, <3>3, OneWritten
    <3>5. deployment'[<<e, s>>].status = "live"
      BY <2>1, <2>2, <2>4 DEF LifecycleTypeOK
    <3>6. ASSUME NEW m \in Participations, Carries(x, m) PROVE Brings(s, m)
      <4>1. m[2] = e /\ m[1] \in push.people /\ m = <<m[1], m[2]>>
        BY <3>6 DEF Carries, Snapshot, Participations
      <4>2. m[1] \in alive' \/ m \in excused'
        BY <2>1, <4>1 DEF Gone
      <4> QED
        BY <2>1, <3>2, <3>5, <4>1, <4>2 DEF Brings, Pushing
    <3>7. \A j \in (Len(feed[s]) + 1)..Len(feed'[s]) : feed'[s][j] = x
      BY <3>4, FeedTyped
    <3> HIDE DEF x
    <3> QED
      BY <2>1, <3>4, <3>6, <3>7
  <2> QED
    BY <2>3, <2>4
<1>4. ASSUME NEW x \in Message, x.kind # "snapshot", projected' = projected,
             feed'[s] = feed[s] \/ feed'[s] = Append(feed[s], x)
      PROVE  Ok
  <2>1. CASE feed'[s] = feed[s]
    BY <1>4, <2>1, NoneWritten
  <2>2. CASE feed'[s] = Append(feed[s], x)
    <3>1. Extends(s) /\ Len(feed'[s]) = Len(feed[s]) + 1 /\ feed'[s][Len(feed[s]) + 1] = x
      BY <2>2, OneWritten
    <3>2. \A j \in (Len(feed[s]) + 1)..Len(feed'[s]) : feed'[s][j] = x
      BY <3>1, FeedTyped
    <3> QED
      BY <1>4, <3>1, <3>2 DEF Carries
  <2> QED
    BY <1>4, <2>1, <2>2
<1>5. CASE _delete_event
  <2> DEFINE x == [kind |-> "event", event |-> run.target]
  <2>1. x \in Message /\ x.kind # "snapshot"
    BY <1>5, MessageTyped DEF _delete_event
  <2>2. projected' = projected /\ (feed'[s] = feed[s] \/ feed'[s] = Append(feed[s], x))
    BY <1>5 DEF _delete_event, Complete
  <2> HIDE DEF x
  <2> QED
    BY <1>4, <2>1, <2>2
<1>6. CASE run_deletion
  <2> DEFINE x == [kind |-> "people", people |-> operation[run.target].ids]
  <2>1. operation[run.target].ids \in SUBSET Individuals
    BY <1>6, Deletable DEF run_deletion
  <2>2. x \in Message /\ x.kind # "snapshot"
    BY <2>1, MessageTyped
  <2>3. projected' = projected /\ (feed'[s] = feed[s] \/ feed'[s] = Append(feed[s], x))
    BY <1>6 DEF run_deletion, Complete, Tombstones
  <2> HIDE DEF x
  <2> QED
    BY <1>4, <2>2, <2>3
<1>7. CASE run_bulk_people_deletion
  <2> DEFINE ids == operation[run.target].ids
  <2>1. projected' = projected /\ _delete_person(ids)
    BY <1>7 DEF run_bulk_people_deletion, Complete
  <2>2. Extends(s)
    BY <1>7, SweepWrites
  <2>3. ASSUME NEW j \in (Len(feed[s]) + 1)..Len(feed'[s]), NEW m \in Participations, Carries(feed'[s][j], m)
        PROVE  Brings(s, m)
    <3>1. feed'[s][j] # [kind |-> "people", people |-> ids]
      BY <2>3 DEF Carries
    <3>2. PICK e \in run.affected, rev \in Nat : Has(e, s) /\ feed'[s][j] = Snapshot(e, PeopleOf(e) \ ids, rev)
      BY <1>7, <3>1, SweepWrites
    <3>3. m[2] = e /\ m[1] \in PeopleOf(e) /\ m[1] \notin ids /\ m = <<m[1], m[2]>> /\ e \in Occasions
      BY <2>3, <3>2, RunTyped DEF Carries, Snapshot, Participations
    <3>4. m \in member /\ m[1] \in alive /\ m[2] \in alive
      BY <3>3 DEF PeopleOf, DeletionComplete
    <3>5. ids \subseteq Individuals
      BY <1>7, Deletable DEF run_bulk_people_deletion
    <3>6. m[1] \in alive' /\ m[2] \in alive'
      BY <2>1, <3>3, <3>4, <3>5, TargetsApart DEF _delete_person
    <3>7. deployment'[<<e, s>>].status = "live"
      BY <1>7, <3>2, <3>3 DEF run_bulk_people_deletion
    <3> QED
      BY <3>3, <3>4, <3>6, <3>7 DEF Brings
  <2> QED
    BY <2>1, <2>2, <2>3
<1>8. CASE DeployNext
  BY <1>1, <1>2, <1>3, <1>8 DEF DeployNext, AddPerson, AddParticipation, BeginPush, AbortPush
<1>9. CASE RequestNext(Targets)
  BY <1>1, <1>9, RequestSteps
<1>10. CASE WorkerNext
  BY <1>1, <1>5, <1>6, <1>7, <1>10 DEF WorkerNext, ClaimDeletion, CleanUp, _publish_people_deletion, IntegrityError, TransientError, Fail
<1> QED
  BY <1>8, <1>9, <1>10

\* A Site that consumes the head of its feed has of a participation no more than it had or was sent.
LEMMA SiteConsumes ==
    ASSUME LifecycleTypeOK, SiteApplies
    PROVE  \E z \in Sites :
             /\ feed[z] # <<>> /\ feed'[z] = Tail(feed[z])
             /\ \A s \in Sites : s # z => feed'[s] = feed[s] /\ projected'[s] = projected[s]
             /\ \A m \in Participations : m \in projected'[z] =>
                    /\ m \in projected[z] \/ Carries(Head(feed[z]), m)
                    /\ ~Removes(Head(feed[z]), m)
<1> USE DEF Receives, Consume
<1> PICK z \in Sites : ApplySnapshot(z) \/ RejectSnapshot(z) \/ apply_people_deletion(z) \/ apply_event_deletion(z)
  BY DEF SiteApplies
<1>1. /\ feed[z] # <<>> /\ feed'[z] = Tail(feed[z])
      /\ \A s \in Sites : s # z => feed'[s] = feed[s] /\ projected'[s] = projected[s]
  BY DEF ApplySnapshot, RejectSnapshot, apply_people_deletion, apply_event_deletion, LifecycleTypeOK
<1>2. ASSUME NEW m \in Participations, m \in projected'[z]
      PROVE  /\ m \in projected[z] \/ Carries(Head(feed[z]), m)
             /\ ~Removes(Head(feed[z]), m)
  <2>1. m = <<m[1], m[2]>>
    BY DEF Participations
  <2>2. CASE ApplySnapshot(z)
    BY <1>2, <2>1, <2>2 DEF ApplySnapshot, Carries, Removes, LifecycleTypeOK
  <2>3. CASE RejectSnapshot(z)
    BY <1>2, <2>3 DEF RejectSnapshot, Removes
  <2>4. CASE apply_people_deletion(z)
    BY <1>2, <2>4 DEF apply_people_deletion, Removes, LifecycleTypeOK
  <2>5. CASE apply_event_deletion(z)
    BY <1>2, <2>5 DEF apply_event_deletion, Removes, LifecycleTypeOK
  <2> QED
    BY <2>2, <2>3, <2>4, <2>5
<1> QED
  BY <1>1, <1>2

\* What reaches a Site after a step did before, or comes from a deployment that stands.
LEMMA ReachedBefore ==
    ASSUME LifecycleTypeOK, OperationsStand, SitesTold, TransactionsHold, RevisionsCounted, DeletionComplete,
           LifecycleNext(Targets), NEW s \in Sites, NEW m \in Participations, Reaches(s, m)'
    PROVE  Reaches(s, m) \/ Brings(s, m)
<1>1. CASE SiteApplies
  <2>1. PICK z \in Sites :
             /\ feed[z] # <<>> /\ feed'[z] = Tail(feed[z])
             /\ \A y \in Sites : y # z => feed'[y] = feed[y] /\ projected'[y] = projected[y]
             /\ \A x \in Participations : x \in projected'[z] =>
                    x \in projected[z] \/ Carries(Head(feed[z]), x)
    BY <1>1, SiteConsumes
  <2>2. CASE s # z
    BY <2>1, <2>2 DEF Reaches
  <2>3. CASE s = z
    <3>1. /\ Len(feed[s]) \in Nat /\ 1 <= Len(feed[s]) /\ Head(feed[s]) = feed[s][1]
          /\ Len(feed'[s]) = Len(feed[s]) - 1
          /\ \A i \in 1..(Len(feed[s]) - 1) : feed'[s][i] = feed[s][i + 1]
      BY <2>1, <2>3, HeadTyped
    <3>2. CASE m \in projected'[s]
      BY <2>1, <2>3, <3>1, <3>2 DEF Reaches
    <3>3. CASE \E i \in 1..Len(feed'[s]) : Carries(feed'[s][i], m)
      <4>1. PICK i \in 1..Len(feed'[s]) : Carries(feed'[s][i], m)
        BY <3>3
      <4>2. i + 1 \in 1..Len(feed[s]) /\ feed'[s][i] = feed[s][i + 1]
        BY <3>1
      <4> QED
        BY <4>1, <4>2 DEF Reaches
    <3> QED
      BY <3>2, <3>3 DEF Reaches
  <2> QED
    BY <2>2, <2>3
<1>2. CASE DeployNext \/ RequestNext(Targets) \/ WorkerNext
  <2>1. /\ Extends(s) /\ projected' = projected
        /\ \A j \in (Len(feed[s]) + 1)..Len(feed'[s]) : Carries(feed'[s][j], m) => Brings(s, m)
    BY <1>2, CentralWrites
  <2>2. CASE m \in projected'[s]
    BY <2>1, <2>2 DEF Reaches
  <2>3. ASSUME NEW j \in 1..Len(feed'[s]), Carries(feed'[s][j], m) PROVE Reaches(s, m) \/ Brings(s, m)
    <3>1. CASE j <= Len(feed[s])
      <4>1. j \in 1..Len(feed[s]) /\ feed'[s][j] = feed[s][j]
        BY <2>1, <3>1 DEF Extends
      <4> QED
        BY <2>3, <4>1 DEF Reaches
    <3>2. CASE ~(j <= Len(feed[s]))
      <4>1. j \in (Len(feed[s]) + 1)..Len(feed'[s])
        BY <2>1, <3>2 DEF Extends
      <4> QED
        BY <2>1, <2>3, <4>1
    <3> QED
      BY <3>1, <3>2
  <2> QED
    BY <2>2, <2>3 DEF Reaches
<1> QED
  BY <1>1, <1>2 DEF LifecycleNext

\* A deployment stands as long as its event.
LEMMA DeploymentsStand ==
    ASSUME LifecycleTypeOK, LifecycleNext(Targets), NEW e \in Occasions, NEW s \in Sites, Has(e, s)
    PROVE  deployment'[<<e, s>>].status # "none" \/ e \notin alive'
<1>1. CASE UNCHANGED deployment
  BY <1>1 DEF Has
<1>2. CASE SiteApplies
  BY <1>2, SiteSteps DEF Has
<1>3. ASSUME NEW x \in Occasions, NEW z \in Sites, ResendSnapshot(x, z)
      PROVE  deployment'[<<e, s>>].status # "none"
  <2>1. CASE <<e, s>> = <<x, z>>
    BY <1>3, <2>1 DEF ResendSnapshot, LifecycleTypeOK
  <2>2. CASE <<e, s>> # <<x, z>>
    BY <1>3, <2>2 DEF ResendSnapshot, LifecycleTypeOK, Has
  <2> QED
    BY <2>1, <2>2
<1>4. CASE FinishPush
  <2>1. CASE <<e, s>> = <<push.event, push.site>>
    BY <1>4, <2>1 DEF FinishPush, LifecycleTypeOK
  <2>2. CASE <<e, s>> # <<push.event, push.site>>
    BY <1>4, <2>2 DEF FinishPush, LifecycleTypeOK, Has
  <2> QED
    BY <2>1, <2>2
<1>5. CASE _delete_event
  BY <1>5 DEF _delete_event, Has
<1>6. CASE run_bulk_people_deletion
  BY <1>6 DEF run_bulk_people_deletion, Has
<1>7. CASE DeployNext
  BY <1>1, <1>3, <1>4, <1>7 DEF DeployNext, AddPerson, AddParticipation, BeginPush, AbortPush
<1>8. CASE RequestNext(Targets)
  BY <1>1, <1>8, RequestSteps
<1>9. CASE WorkerNext
  BY <1>1, <1>5, <1>6, <1>9 DEF WorkerNext, ClaimDeletion, CleanUp, _publish_people_deletion, IntegrityError, TransientError, Fail, run_deletion
<1> QED
  BY <1>2, <1>7, <1>8, <1>9 DEF LifecycleNext

\* A participation ends with its person or its event, and neither comes back.
LEMMA EndsForGood ==
    ASSUME LifecycleTypeOK, OperationsStand, SitesTold, LifecycleNext(Targets), NEW m \in Participations,
           m \in member \/ m[2] \notin alive \/ Dead(m[1])
    PROVE  m \in member' \/ m[2] \notin alive' \/ Dead(m[1])'
<1>0. m[1] \in Individuals /\ m[2] \in Occasions
  BY DEF Participations
<1>1. CASE m[2] \notin alive
  BY <1>0, <1>1, DeletedStay, TargetsApart
<1>2. CASE Dead(m[1])
  <2>1. m[1] \notin alive
    BY <1>2 DEF Dead
  <2>2. CASE operation[m[1]] # NoOperation
    <3>1. operation'[m[1]] # NoOperation
      BY <1>0, <2>2, OperationsStay DEF Targets
    <3>2. m[1] \notin alive'
      BY <2>1, <2>2, DeletedStay
    <3> QED
      BY <3>1, <3>2 DEF Dead
  <2>3. CASE \E t \in Sweeps : m[1] \in operation[t].ids
    <3>1. PICK t \in Sweeps : m[1] \in operation[t].ids
      BY <2>3
    <3>2. t \in Targets /\ operation[t] # NoOperation
      BY <3>1 DEF Targets, NoOperation
    <3>3. m[1] \in operation'[t].ids
      BY <3>1, <3>2, OperationsStay
    <3>4. m[1] \notin alive'
      BY <2>1, <3>1, <3>2, DeletedStay
    <3> QED
      BY <3>3, <3>4 DEF Dead
  <2> QED
    BY <1>2, <2>2, <2>3 DEF Dead
<1>3. CASE m \in member /\ m \notin member'
  <2>1. CASE _delete_event
    <3>1. m \in Dependent(run.target) /\ operation[run.target].ids = {} /\ run.target \notin alive'
      BY <1>3, <2>1, Deletable DEF _delete_event
    <3> QED
      BY <3>1 DEF Dependent
  <2>2. CASE run_deletion \/ run_bulk_people_deletion
    <3> DEFINE t == run.target
               ids == operation[t].ids
    <3>1. m \in Dependent(t) /\ t \in Targets /\ t \notin Occasions /\ alive' = alive \ ids
      BY <1>3, <2>2, Deletable, TargetsApart DEF run_deletion, run_bulk_people_deletion, _delete_person
    <3>2. m[1] \in ids /\ m[1] \notin alive'
      BY <1>0, <3>1 DEF Dependent
    <3>3. operation[t] # NoOperation
      BY <3>2 DEF NoOperation
    <3>4. operation'[t] # NoOperation /\ m[1] \in operation'[t].ids
      BY <3>1, <3>2, <3>3, OperationsStay
    <3>5. t \in Individuals => m[1] = t
      BY <2>2, <3>2, Deletable DEF run_deletion, run_bulk_people_deletion
    <3>6. t \in Sweeps \/ t \in Individuals
      BY <3>1 DEF Targets
    <3> HIDE DEF t
    <3> QED
      BY <3>2, <3>4, <3>5, <3>6 DEF Dead
  <2>3. CASE UNCHANGED member
    BY <1>3, <2>3
  <2>4. CASE SiteApplies \/ RequestNext(Targets)
    BY <2>3, <2>4, SiteSteps, RequestSteps
  <2>5. CASE DeployNext
    BY <1>3, <2>5 DEF DeployNext, AddPerson, AddParticipation, BeginPush, AbortPush, FinishPush, ResendSnapshot,
                      ProgramUnchanged
  <2>6. CASE WorkerNext
    BY <2>1, <2>2, <2>3, <2>6 DEF WorkerNext, ClaimDeletion, CleanUp, _publish_people_deletion, IntegrityError, TransientError, Fail,
                                  ProgramUnchanged
  <2> QED
    BY <2>4, <2>5, <2>6 DEF LifecycleNext
<1> QED
  BY <1>1, <1>2, <1>3

\* A stored snapshot and a push are made of those who take part.
LEMMA StoredBefore ==
    ASSUME LifecycleTypeOK, LifecycleNext(Targets), NEW s \in Sites, NEW m \in Participations
    PROVE  /\ Stored(s, m)' => Stored(s, m) \/ Pushing(m) \/ m \in member
           /\ Pushing(m)' => Pushing(m) \/ m \in member
<1>0. m[1] \in Individuals /\ m[2] \in Occasions /\ m = <<m[1], m[2]>>
  BY DEF Participations
<1> DEFINE Ok == Stored(s, m)' => Stored(s, m) \/ Pushing(m) \/ m \in member
           PushOk == Pushing(m)' => Pushing(m) \/ m \in member
<1>1. ASSUME UNCHANGED deployment PROVE Ok
  BY <1>1 DEF Stored
<1>2. CASE SiteApplies
  BY <1>0, <1>2, SiteSteps DEF Stored, Pushing
<1>3. ASSUME UNCHANGED push PROVE PushOk
  BY <1>3 DEF Pushing
<1>4. ASSUME NEW x \in Occasions, NEW z \in Sites, ResendSnapshot(x, z) PROVE Ok /\ PushOk
  <2>1. deployment'[<<m[2], s>>].people = deployment[<<m[2], s>>].people
    <3>1. CASE <<m[2], s>> = <<x, z>>
      <4>1. deployment[<<x, z>>] \in [status: {"none", "live", "failed"}, revision: 0..Revised,
                                      people: SUBSET Individuals]
        BY DEF LifecycleTypeOK
      <4> QED
        BY <1>4, <3>1, <4>1 DEF ResendSnapshot, LifecycleTypeOK
    <3>2. CASE <<m[2], s>> # <<x, z>>
      BY <1>0, <1>4, <3>2 DEF ResendSnapshot, LifecycleTypeOK
    <3> QED
      BY <3>1, <3>2
  <2> QED
    BY <1>3, <1>4, <2>1 DEF ResendSnapshot, Stored
<1>5. CASE FinishPush
  <2>1. PushOk
    BY <1>0, <1>5, LifecycleAssumption DEF FinishPush, Pushing, NoPush
  <2>2. CASE <<m[2], s>> = <<push.event, push.site>>
    BY <1>0, <1>5, <2>1, <2>2 DEF FinishPush, LifecycleTypeOK, Stored, Pushing
  <2>3. CASE <<m[2], s>> # <<push.event, push.site>>
    BY <1>0, <1>5, <2>1, <2>3 DEF FinishPush, LifecycleTypeOK, Stored
  <2> QED
    BY <2>2, <2>3
<1>6. CASE AbortPush
  BY <1>1, <1>6 DEF AbortPush, Pushing, NoPush
<1>7. ASSUME NEW x \in Occasions, NEW z \in Sites, BeginPush(x, z) PROVE Ok /\ PushOk
  BY <1>0, <1>1, <1>7 DEF BeginPush, Pushing, PeopleOf
<1>8. CASE _delete_event
  BY <1>0, <1>3, <1>8 DEF _delete_event, Stored, NoDeployment, Complete, WorkerUnchanged
<1>9. CASE run_bulk_people_deletion
  <2>1. \/ deployment'[<<m[2], s>>] = deployment[<<m[2], s>>]
        \/ deployment'[<<m[2], s>>].people = PeopleOf(m[2]) \ operation[run.target].ids
    BY <1>0, <1>9 DEF run_bulk_people_deletion
  <2>2. PushOk
    BY <1>3, <1>9 DEF run_bulk_people_deletion, Complete, WorkerUnchanged
  <2> QED
    BY <1>0, <2>1, <2>2 DEF Stored, PeopleOf
<1>10. CASE DeployNext
  BY <1>1, <1>3, <1>4, <1>5, <1>6, <1>7, <1>10 DEF DeployNext, AddPerson, AddParticipation
<1>11. CASE RequestNext(Targets)
  BY <1>1, <1>3, <1>11, RequestSteps
<1>12. CASE WorkerNext
  BY <1>1, <1>3, <1>8, <1>9, <1>12
     DEF WorkerNext, ClaimDeletion, CleanUp, _publish_people_deletion, IntegrityError, TransientError, Fail, run_deletion, Complete,
         WorkerUnchanged
<1> QED
  BY <1>2, <1>10, <1>11, <1>12 DEF LifecycleNext

LEMMA LifecycleTyped ==
    ASSUME LifecycleTypeOK, OperationsStand, TransactionsHold, RevisionsCounted, LifecycleNext(Targets)
    PROVE  LifecycleTypeOK'
BY DeployTyped, SiteTyped, RequestTyped, WorkerTyped DEF LifecycleNext

LEMMA SnapshotsKept ==
    ASSUME LifecycleTypeOK, OperationsStand, SitesTold, TransactionsHold, RevisionsCounted, DeletionComplete,
           SnapshotsTrue, LifecycleNext(Targets)
    PROVE  SnapshotsTrue'
<1> SUFFICES ASSUME NEW m \in Participations
             PROVE  /\ \A s \in Sites : Reaches(s, m)' => deployment'[<<m[2], s>>].status # "none" \/ m[2] \notin alive'
                    /\ (\E s \in Sites : Reaches(s, m)' \/ Stored(s, m)') \/ Pushing(m)'
                       => m \in member' \/ m[2] \notin alive' \/ Dead(m[1])'
  BY DEF SnapshotsTrue, Has, Pushing
<1>0. m[1] \in Individuals /\ m[2] \in Occasions
  BY DEF Participations
<1>1. ASSUME NEW s \in Sites, Reaches(s, m)' PROVE deployment'[<<m[2], s>>].status # "none" \/ m[2] \notin alive'
  <2>1. CASE Brings(s, m)
    BY <2>1 DEF Brings
  <2>2. CASE Reaches(s, m)
    <3>1. Has(m[2], s) \/ m[2] \notin alive
      BY <2>2 DEF SnapshotsTrue
    <3>2. m[2] \notin alive => m[2] \notin alive'
      BY <1>0, DeletedStay, TargetsApart
    <3> QED
      BY <1>0, <3>1, <3>2, DeploymentsStand
  <2> QED
    BY <1>1, <2>1, <2>2, ReachedBefore
<1>2. ASSUME NEW s \in Sites, Reaches(s, m) \/ Stored(s, m) \/ Pushing(m) \/ m \in member
      PROVE  m \in member' \/ m[2] \notin alive' \/ Dead(m[1])'
  <2>1. m \in member \/ m[2] \notin alive \/ Dead(m[1])
    BY <1>2 DEF SnapshotsTrue, Pushing
  <2> QED
    BY <2>1, EndsForGood
<1>3. ASSUME NEW s \in Sites, Reaches(s, m)' PROVE m \in member' \/ m[2] \notin alive' \/ Dead(m[1])'
  BY <1>2, <1>3, ReachedBefore DEF Brings
<1>4. ASSUME NEW s \in Sites, Stored(s, m)' PROVE m \in member' \/ m[2] \notin alive' \/ Dead(m[1])'
  BY <1>2, <1>4, StoredBefore
<1>5. ASSUME Pushing(m)' PROVE m \in member' \/ m[2] \notin alive' \/ Dead(m[1])'
  <2>1. push'.event \in Occasions
    BY <1>0, <1>5 DEF Pushing
  <2>2. CASE Sites # {}
    BY <1>2, <1>5, <2>2, StoredBefore
  <2>3. CASE Sites = {}
    BY <2>1, <2>3, LifecycleTyped, LifecycleAssumption DEF LifecycleTypeOK, NoPush
  <2> QED
    BY <2>2, <2>3
<1> QED
  BY <1>1, <1>3, <1>4, <1>5

\* A deletion writes a tombstone behind whatever has brought the deleted to a Site.
LEMMA TombstoneSent ==
    ASSUME LifecycleTypeOK, OperationsStand, SitesTold, RevisionsCounted, SnapshotsTrue,
           DeployNext \/ RequestNext(Targets) \/ WorkerNext,
           NEW s \in Sites, NEW m \in Participations, m \notin excused', Reaches(s, m),
           {m[1], m[2]} \subseteq alive, ~({m[1], m[2]} \subseteq alive')
    PROVE  Len(feed[s]) < Len(feed'[s]) /\ Removes(feed'[s][Len(feed[s]) + 1], m)
<1>0. m[1] \in Individuals /\ m[2] \in Occasions /\ m = <<m[1], m[2]>>
  BY DEF Participations
<1>1. Has(m[2], s) /\ m \in member
  BY DEF SnapshotsTrue, Dead
<1>2. CASE _delete_event
  <2> DEFINE t == run.target
             x == [kind |-> "event", event |-> t]
  <2>1. t \in Occasions /\ alive' = alive \ {t} /\ run.removed = Deployed(t) /\ x \in Message
    BY <1>2, Deletable, MessageTyped DEF _delete_event
  <2>2. m[2] = t
    BY <1>0, <2>1, TargetsApart
  <2>3. s \in run.removed
    BY <1>1, <2>1, <2>2 DEF Deployed
  <2>4. run.removed = run.sites
    <3>1. CASE run.removed # run.sites
      <4>1. Individuals \X {t} \subseteq excused'
        BY <1>2, <3>1 DEF _delete_event
      <4> QED
        BY <1>0, <2>2, <4>1
    <3> QED
      BY <3>1
  <2>5. feed'[s] = Append(feed[s], x)
    BY <1>2, <2>3, <2>4 DEF _delete_event
  <2>6. Removes(x, m)
    BY <2>2 DEF Removes
  <2> HIDE DEF x
  <2> QED
    BY <2>1, <2>5, <2>6, FeedTyped, OneWritten
<1>3. ASSUME run_deletion \/ run_bulk_people_deletion
      PROVE  m[1] \in operation[run.target].ids /\ s \in run.sites
  <2> DEFINE t == run.target
             ids == operation[t].ids
  <2>1. _delete_person(ids) /\ ids \subseteq Individuals /\ run.cleaned = Dependent(t)
    BY <1>3, Deletable DEF run_deletion, run_bulk_people_deletion
  <2>2. m[1] \in ids
    BY <1>0, <2>1, TargetsApart DEF _delete_person
  <2>3. m \in run.cleaned
    BY <1>1, <2>1, <2>2 DEF Dependent
  <2>4. m[2] \in run.affected /\ m[2] \notin run.late
    BY <2>1, <2>3 DEF _delete_person
  <2>5. s \in run.sites
    BY <1>1, <1>3, <2>4 DEF SitesTold, run_deletion, run_bulk_people_deletion
  <2> QED
    BY <2>2, <2>5
<1>4. CASE run_deletion
  <2> DEFINE x == [kind |-> "people", people |-> operation[run.target].ids]
  <2>1. operation[run.target].ids \in SUBSET Individuals
    BY <1>4, Deletable DEF run_deletion
  <2>2. x \in Message /\ Removes(x, m)
    BY <1>3, <1>4, <2>1, MessageTyped DEF Removes
  <2>3. feed'[s] = Append(feed[s], x)
    BY <1>3, <1>4 DEF run_deletion, Tombstones
  <2> HIDE DEF x
  <2> QED
    BY <2>2, <2>3, FeedTyped, OneWritten
<1>5. CASE run_bulk_people_deletion
  BY <1>3, <1>5, SweepWrites DEF Removes
<1>6. CASE alive \subseteq alive'
  BY <1>6
<1>7. CASE DeployNext
  BY <1>6, <1>7 DEF DeployNext, AddPerson, AddParticipation, BeginPush, ResendSnapshot, FinishPush, AbortPush,
                    ProgramUnchanged
<1>8. CASE RequestNext(Targets)
  BY <1>6, <1>8, RequestSteps
<1>9. CASE WorkerNext
  BY <1>2, <1>4, <1>5, <1>6, <1>9 DEF WorkerNext, ClaimDeletion, CleanUp, _publish_people_deletion, IntegrityError, TransientError, Fail,
                                     ProgramUnchanged
<1> QED
  BY <1>7, <1>8, <1>9

LEMMA ExcusedStay ==
    ASSUME LifecycleTypeOK, LifecycleNext(Targets)
    PROVE  excused \subseteq excused'
<1>1. CASE DeployNext
  BY <1>1 DEF DeployNext, AddPerson, AddParticipation, BeginPush, ResendSnapshot, FinishPush, AbortPush
<1>2. CASE SiteApplies \/ RequestNext(Targets)
  BY <1>2, SiteSteps, RequestSteps
<1>3. CASE WorkerNext
  BY <1>3 DEF WorkerNext, ClaimDeletion, CleanUp, _publish_people_deletion, IntegrityError, TransientError, Fail, _delete_event, run_deletion,
              run_bulk_people_deletion, _delete_person
<1> QED
  BY <1>1, <1>2, <1>3 DEF LifecycleNext

LEMMA TombstonesKept ==
    ASSUME LifecycleTypeOK, OperationsStand, SitesTold, TransactionsHold, RevisionsCounted, DeletionComplete,
           SnapshotsTrue, TombstonesFollow, LifecycleNext(Targets)
    PROVE  TombstonesFollow'
<1> SUFFICES ASSUME NEW s \in Sites, NEW m \in Participations, m \notin excused',
                    ~({m[1], m[2]} \subseteq alive')
             PROVE  /\ m \in projected'[s] => Follows(s, m, 0)'
                    /\ \A i \in 1..Len(feed'[s]) : Carries(feed'[s][i], m) => Follows(s, m, i)'
  BY DEF TombstonesFollow, Carries
<1>1. m \notin excused
  BY ExcusedStay
<1>2. ASSUME ~({m[1], m[2]} \subseteq alive)
      PROVE  /\ m \in projected[s] => Follows(s, m, 0)
             /\ \A i \in 1..Len(feed[s]) : Carries(feed[s][i], m) => Follows(s, m, i)
  BY <1>1, <1>2 DEF TombstonesFollow
<1>3. CASE DeployNext \/ RequestNext(Targets) \/ WorkerNext
  <2>1. /\ Extends(s) /\ projected' = projected
        /\ \A j \in (Len(feed[s]) + 1)..Len(feed'[s]) : ~Carries(feed'[s][j], m)
    BY <1>3, CentralWrites DEF Brings
  <2>2. ASSUME NEW i \in 0..Len(feed[s]), (i = 0 /\ m \in projected[s]) \/ (i # 0 /\ Carries(feed[s][i], m))
        PROVE  Follows(s, m, i)'
    <3>1. CASE {m[1], m[2]} \subseteq alive
      <4>1. Reaches(s, m)
        BY <2>1, <2>2 DEF Reaches, Extends
      <4>2. Len(feed[s]) < Len(feed'[s]) /\ Removes(feed'[s][Len(feed[s]) + 1], m)
        BY <1>3, <3>1, <4>1, TombstoneSent
      <4>3. Len(feed[s]) + 1 \in 1..Len(feed'[s]) /\ i < Len(feed[s]) + 1
        BY <2>1, <4>2 DEF Extends
      <4> QED
        BY <4>2, <4>3 DEF Follows, Removes
    <3>2. CASE ~({m[1], m[2]} \subseteq alive)
      <4>1. Follows(s, m, i)
        BY <1>2, <2>1, <2>2, <3>2 DEF Extends
      <4>2. PICK j \in 1..Len(feed[s]) : i < j /\ Removes(feed[s][j], m)
        BY <4>1 DEF Follows
      <4>3. j \in 1..Len(feed'[s]) /\ feed'[s][j] = feed[s][j]
        BY <2>1 DEF Extends
      <4> QED
        BY <4>2, <4>3 DEF Follows, Removes
    <3> QED
      BY <3>1, <3>2
  <2>3. m \in projected'[s] => Follows(s, m, 0)'
    BY <2>1, <2>2 DEF Extends
  <2>4. ASSUME NEW i \in 1..Len(feed'[s]), Carries(feed'[s][i], m) PROVE Follows(s, m, i)'
    <3>1. i \in 1..Len(feed[s])
      BY <2>1, <2>4 DEF Extends
    <3>2. i \in 0..Len(feed[s]) /\ i # 0 /\ feed'[s][i] = feed[s][i]
      BY <2>1, <3>1 DEF Extends
    <3> QED
      BY <2>2, <2>4, <3>2
  <2> QED
    BY <2>3, <2>4
<1>4. CASE SiteApplies
  <2>1. PICK z \in Sites :
             /\ feed[z] # <<>> /\ feed'[z] = Tail(feed[z])
             /\ \A y \in Sites : y # z => feed'[y] = feed[y] /\ projected'[y] = projected[y]
             /\ \A x \in Participations : x \in projected'[z] =>
                    /\ x \in projected[z] \/ Carries(Head(feed[z]), x)
                    /\ ~Removes(Head(feed[z]), x)
    BY <1>4, SiteConsumes
  <2>2. ~({m[1], m[2]} \subseteq alive)
    BY <1>4, SiteSteps
  <2>3. CASE s # z
    <3>1. feed'[s] = feed[s] /\ projected'[s] = projected[s]
      BY <2>1, <2>3
    <3>2. ASSUME NEW i, Follows(s, m, i) PROVE Follows(s, m, i)'
      BY <3>1, <3>2 DEF Follows, Removes
    <3> QED
      BY <1>2, <2>2, <3>1, <3>2
  <2>4. CASE s = z
    <3>1. /\ Len(feed[s]) \in Nat /\ 1 <= Len(feed[s]) /\ Head(feed[s]) = feed[s][1]
          /\ Len(feed'[s]) = Len(feed[s]) - 1
          /\ \A i \in 1..(Len(feed[s]) - 1) : feed'[s][i] = feed[s][i + 1]
      BY <2>1, <2>4, HeadTyped
    <3>2. ASSUME NEW i \in Nat, NEW j \in 1..Len(feed[s]), i + 1 < j, Removes(feed[s][j], m)
          PROVE  Follows(s, m, i)'
      <4>1. j - 1 \in 1..Len(feed'[s]) /\ i < j - 1 /\ feed'[s][j - 1] = feed[s][j]
        BY <3>1, <3>2
      <4> QED
        BY <3>2, <4>1 DEF Follows, Removes
    <3>3. ASSUME m \in projected'[s] PROVE Follows(s, m, 0)'
      <4>1. ~Removes(feed[s][1], m) /\ (m \in projected[s] \/ Carries(feed[s][1], m))
        BY <2>1, <2>4, <3>1, <3>3
      <4>2. Follows(s, m, 0) \/ Follows(s, m, 1)
        BY <1>2, <2>2, <3>1, <4>1
      <4>3. PICK j \in 1..Len(feed[s]) : Removes(feed[s][j], m)
        BY <4>2 DEF Follows
      <4>4. 0 + 1 < j
        BY <4>1, <4>3
      <4> QED
        BY <3>2, <4>3, <4>4
    <3>4. ASSUME NEW i \in 1..Len(feed'[s]), Carries(feed'[s][i], m) PROVE Follows(s, m, i)'
      <4>1. i \in Nat /\ i + 1 \in 1..Len(feed[s]) /\ feed'[s][i] = feed[s][i + 1]
        BY <3>1
      <4>2. Follows(s, m, i + 1)
        BY <1>2, <2>2, <3>4, <4>1
      <4>3. PICK j \in 1..Len(feed[s]) : i + 1 < j /\ Removes(feed[s][j], m)
        BY <4>2 DEF Follows
      <4> QED
        BY <3>2, <4>1, <4>3
    <3> QED
      BY <3>3, <3>4
  <2> QED
    BY <2>3, <2>4
<1> QED
  BY <1>3, <1>4 DEF LifecycleNext

-----------------------------------------------------------------------------
(* Deletions: the theorems.                                                *)

LEMMA LifecycleBegins == LifecycleInit => LifecycleTypeOK /\ LifecycleCoherent /\ DeletionComplete
<1> SUFFICES ASSUME LifecycleInit PROVE LifecycleTypeOK /\ LifecycleCoherent /\ DeletionComplete
  OBVIOUS
<1>1. LifecycleTypeOK
  BY LifecycleInitTyped
<1>2. OperationsStand
  BY DEF LifecycleInit, OperationsStand
<1>3. TransactionsHold /\ SitesTold
  BY DEF LifecycleInit, TransactionsHold, SitesTold, NoRun
<1>4. ASSUME NEW e \in Occasions, NEW s \in Sites
      PROVE  /\ deployment[<<e, s>>].status = "none" /\ deployment[<<e, s>>].revision = 0
             /\ deployment[<<e, s>>].people = {}
  BY DEF LifecycleInit, NoDeployment
<1>5. RevisionsCounted
  <2>1. 0 <= MaxPushes + Cardinality(Swept)
    BY SweptBounded, RevisedTyped
  <2>2. ASSUME NEW e \in Occasions, NEW s \in Sites
        PROVE  deployment[<<e, s>>].revision <= MaxPushes + Cardinality(Swept) /\ ~Has(e, s)
    <3>1. deployment[<<e, s>>].revision = 0 /\ deployment[<<e, s>>].status = "none"
      BY <1>4
    <3> QED
      BY <2>1, <3>1 DEF Has
  <2> QED
    BY <2>2 DEF RevisionsCounted
<1>6. \A s \in Sites : projected[s] = {} /\ feed[s] = <<>> /\ Len(feed[s]) = 0
  BY DEF LifecycleInit
<1>7. SnapshotsTrue
  <2> SUFFICES ASSUME NEW m \in Participations
               PROVE  (\A s \in Sites : ~Reaches(s, m) /\ ~Stored(s, m)) /\ push.event # m[2]
    BY DEF SnapshotsTrue
  <2>1. m[2] \in Occasions
    BY DEF Participations
  <2>2. \A s \in Sites : ~Reaches(s, m)
    BY <1>6 DEF Reaches
  <2>3. \A s \in Sites : ~Stored(s, m)
    BY <1>4, <2>1 DEF Stored
  <2> QED
    BY <1>1, <2>1, <2>2, <2>3, PushTyped DEF LifecycleInit
<1>8. TombstonesFollow
  BY <1>6 DEF TombstonesFollow
<1>9. DeletionComplete
  <2>1. \A m \in member \cup history : m[1] \in alive
    BY DEF LifecycleInit
  <2>2. \A m \in member : m[2] \in alive
    BY LifecycleAssumption DEF LifecycleInit
  <2>3. \A e \in Occasions, s \in Sites : ~Has(e, s)
    BY <1>4 DEF Has
  <2>4. \A t \in Targets : operation[t].status # "completed"
    BY DEF LifecycleInit, NoOperation
  <2> QED
    BY <2>1, <2>2, <2>3, <2>4 DEF DeletionComplete
<1> QED
  BY <1>1, <1>2, <1>3, <1>5, <1>7, <1>8, <1>9 DEF LifecycleCoherent

\* A Site with an empty feed has no tombstone to come, so it has nobody who is deleted.
LEMMA TombstonesSuffice ==
    ASSUME LifecycleTypeOK, TombstonesFollow
    PROVE  DeletedLeaveSites
<1> SUFFICES ASSUME NEW s \in Sites, feed[s] = <<>>, NEW m \in projected[s] \ excused
             PROVE  {m[1], m[2]} \subseteq alive
  BY DEF DeletedLeaveSites
<1>1. m \in Participations /\ Len(feed[s]) = 0
  BY DEF LifecycleTypeOK
<1>2. ~Follows(s, m, 0)
  BY <1>1 DEF Follows
<1> QED
  BY <1>1, <1>2 DEF TombstonesFollow

LEMMA LifecycleStutters ==
    ASSUME LifecycleTypeOK, LifecycleCoherent, DeletionComplete, UNCHANGED lifecycleVars
    PROVE  (LifecycleTypeOK /\ LifecycleCoherent /\ DeletionComplete)'
<1> USE DEF lifecycleVars
<1>1. LifecycleTypeOK'
  BY DEF LifecycleTypeOK
<1>2. OperationsStand' /\ TransactionsHold' /\ RevisionsCounted'
  BY DEF LifecycleCoherent, OperationsStand, Unfinished, TransactionsHold, RevisionsCounted, Has, Swept
<1>3. SnapshotsTrue'
  BY DEF LifecycleCoherent, SnapshotsTrue, Reaches, Carries, Stored, Dead, Has
<1>4. TombstonesFollow'
  BY DEF LifecycleCoherent, TombstonesFollow, Follows, Carries, Removes
<1>5. DeletionComplete'
  BY DEF DeletionComplete, Has
<1>6. SitesTold'
  BY DEF LifecycleCoherent, SitesTold, Violated, Dependent, Deployed, Has
<1> QED
  BY <1>1, <1>2, <1>3, <1>4, <1>5, <1>6 DEF LifecycleCoherent

LEMMA LifecycleInductive ==
    ASSUME LifecycleTypeOK, LifecycleCoherent, DeletionComplete,
           [LifecycleNext(Targets)]_lifecycleVars
    PROVE  (LifecycleTypeOK /\ LifecycleCoherent /\ DeletionComplete)'
<1> USE DEF LifecycleCoherent
<1>1. CASE LifecycleNext(Targets)
  BY <1>1, LifecycleTyped, StandKept, HoldKept, ToldKept, RevisionsKept, SnapshotsKept, TombstonesKept,
     CompleteKept
<1> QED
  BY <1>1, LifecycleStutters

\* A deletion that is reported complete has removed everything it was to remove for good, whatever
\* requests and pushes overlap with it; and what is deleted at Central leaves every Site that has
\* applied its feed, but for what a stored snapshot or an overlapping request brings back
\* (run_deletion, _delete_event, _publish_people_deletion, apply_people_deletion).
THEOREM DeletionsAreSafe == LifecycleSpec => []LifecycleSafe
<1> DEFINE Inv == LifecycleTypeOK /\ LifecycleCoherent /\ DeletionComplete
<1>1. LifecycleInit => Inv
  BY LifecycleBegins
<1>2. Inv /\ [LifecycleNext(Targets)]_lifecycleVars => Inv'
  BY LifecycleInductive
<1>3. Inv => LifecycleSafe
  BY TombstonesSuffice DEF LifecycleSafe, LifecycleCoherent
<1> QED
  BY <1>1, <1>2, <1>3, PTL DEF LifecycleSpec

LEMMA HistoryWritten ==
    ASSUME LifecycleTypeOK, OperationsStand, SitesTold, [LifecycleNext(Targets)]_lifecycleVars,
           NEW m \in member \ member', m[1] \in alive'
    PROVE  m \in history' \cup excused'
<1>0. m \in Participations /\ m[1] \in Individuals /\ m[2] \in Occasions /\ m = <<m[1], m[2]>>
  BY DEF LifecycleTypeOK, Participations
<1>1. CASE _delete_event
  <2>1. m \in run.cleaned /\ run.cleaned = Dependent(run.target) /\ operation[run.target].ids = {}
    BY <1>1, Deletable DEF _delete_event
  <2>2. m[2] = run.target
    BY <2>1 DEF Dependent
  <2>3. CASE m[1] \in run.members
    BY <1>0, <1>1, <2>2, <2>3 DEF _delete_event, Retained
  <2>4. CASE m[1] \notin run.members
    BY <1>1, <2>1, <2>4 DEF _delete_event
  <2> QED
    BY <2>3, <2>4
<1>2. CASE run_deletion \/ run_bulk_people_deletion
  <2>1. /\ _delete_person(operation[run.target].ids) /\ run.cleaned = Dependent(run.target)
        /\ run.target \notin Occasions
    BY <1>2, Deletable, TargetsApart DEF run_deletion, run_bulk_people_deletion
  <2>2. m[1] \in operation[run.target].ids
    BY <1>0, <2>1 DEF _delete_person, Dependent
  <2> QED
    BY <2>1, <2>2 DEF _delete_person
<1>3. CASE member \subseteq member'
  BY <1>3
<1>4. CASE DeployNext
  BY <1>3, <1>4 DEF DeployNext, AddPerson, AddParticipation, BeginPush, ResendSnapshot, FinishPush, AbortPush,
                    ProgramUnchanged
<1>5. CASE SiteApplies \/ RequestNext(Targets)
  BY <1>3, <1>5, SiteSteps, RequestSteps
<1>6. CASE WorkerNext
  BY <1>1, <1>2, <1>3, <1>6 DEF WorkerNext, ClaimDeletion, CleanUp, _publish_people_deletion, IntegrityError, TransientError, Fail,
                                ProgramUnchanged
<1>7. CASE UNCHANGED lifecycleVars
  BY <1>3, <1>7 DEF lifecycleVars
<1> QED
  BY <1>4, <1>5, <1>6, <1>7 DEF LifecycleNext

\* Whoever loses a participation and is not deleted has it in the retained history, or joined while
\* the deletion of the event ran (_delete_event, RetainedPersonHistory).
THEOREM HistoryIsKept == LifecycleSpec => HistoryKept
<1> DEFINE Inv == LifecycleTypeOK /\ LifecycleCoherent /\ DeletionComplete
           Retain == \A m \in member \ member' : m[1] \in alive' => m \in history' \cup excused'
<1>1. LifecycleInit => Inv
  BY LifecycleBegins
<1>2. Inv /\ [LifecycleNext(Targets)]_lifecycleVars => Inv'
  BY LifecycleInductive
<1>3. Inv /\ [LifecycleNext(Targets)]_lifecycleVars => [Retain]_lifecycleVars
  BY HistoryWritten DEF LifecycleCoherent
<1> QED
  BY <1>1, <1>2, <1>3, PTL DEF LifecycleSpec, HistoryKept

-----------------------------------------------------------------------------
(* The presentation folders: the wanted paths.                             *)

LEMMA LeastOf ==
    ASSUME NEW T, T \subseteq Nat, T # {}
    PROVE  \E x \in T : \A y \in T : x <= y
<1> DEFINE R == OpToRel(<, Nat)
<1>1. IsWellFoundedOn(R, Nat)
  BY NatLessThanWellFounded
<1>2. \A x, y \in Nat : <<x, y>> \in R <=> x < y
  BY DEF OpToRel
<1> HIDE DEF R
<1>3. \E x \in T : \A y \in T : <<y, x>> \notin R
  BY <1>1, WFMin
<1>4. PICK x \in T : \A y \in T : <<y, x>> \notin R
  BY <1>3
<1>5. \A y \in T : ~(y < x)
  BY <1>2, <1>4
<1> QED
  BY <1>5

LEMMA MinIsLeast ==
    ASSUME NEW T, T \subseteq Nat, T # {}
    PROVE  Min(T) \in T /\ \A y \in T : Min(T) <= y
BY LeastOf DEF Min

LEMMA MaxIsMember ==
    ASSUME NEW n \in Nat, NEW T, T \subseteq 1..n, T # {}
    PROVE  Max(T) \in T
<1> DEFINE U == {n - i : i \in T}
<1>0. \A i \in T : i \in Int /\ n - i \in Nat
  OBVIOUS
<1>1. U \subseteq Nat /\ U # {}
  BY <1>0
<1>2. PICK u \in U : \A v \in U : u <= v
  BY <1>1, LeastOf
<1>3. PICK x \in T : u = n - x
  BY <1>2
<1>4. \A y \in T : x >= y
  <2> TAKE y \in T
  <2>1. n - x <= n - y /\ x \in Int /\ y \in Int
    BY <1>0, <1>2, <1>3
  <2> QED
    BY <2>1
<1> QED
  BY <1>4 DEF Max

\* The query returns every exposed presentation.
LEMMA AllQueried ==
    ASSUME NEW order \in SetToSeqs(Exposed)
    PROVE  /\ Cardinality(Exposed) \in Nat
           /\ order \in [1..Cardinality(Exposed) -> Exposed]
           /\ \A d \in Exposed : \E i \in 1..Cardinality(Exposed) : order[i] = d
<1> DEFINE n == Cardinality(Exposed)
<1>1. IsFiniteSet(Exposed) /\ n \in Nat
  <2>1. Exposed \in SUBSET Decks
    BY DEF Exposed
  <2> QED
    BY <2>1, FolderAssumption, FS_Subset, FS_CardinalityType
<1>2. order \in [1..n -> Exposed] /\ \A i, j \in 1..n : i # j => order[i] # order[j]
  BY DEF SetToSeqs
<1>3. order \in Injection(1..n, Exposed)
  BY <1>2 DEF Injection, IsInjective
<1>4. Cardinality(1..n) = n
  BY <1>1, FS_Interval
<1>5. order \in Surjection(1..n, Exposed)
  BY <1>1, <1>3, <1>4, FS_Injection
<1> QED
  BY <1>1, <1>2, <1>5 DEF Surjection

\* Whoever is found under a path is one who wants it.
LEMMA DesiredHolds ==
    ASSUME NEW order \in SetToSeqs(Exposed), NEW p \in DOMAIN DesiredPaths(order)
    PROVE  \E d \in Exposed : p \in PathsFor(d) /\ DesiredPaths(order)[p] = FileOf(d)
<1> DEFINE n == Cardinality(Exposed)
           T == {i \in DOMAIN order : p \in PathsFor(order[i])}
<1>1. n \in Nat /\ order \in [1..n -> Exposed] /\ \A d \in Exposed : \E i \in 1..n : order[i] = d
  BY AllQueried
<1>2. p \in UNION {PathsFor(d) : d \in Exposed} /\ DesiredPaths(order)[p] = FileOf(order[Max(T)])
  BY DEF DesiredPaths
<1>3. T \subseteq 1..n /\ T # {}
  <2>1. PICK d \in Exposed : p \in PathsFor(d)
    BY <1>2
  <2>2. PICK i \in 1..n : order[i] = d
    BY <1>1
  <2> QED
    BY <1>1, <2>1, <2>2
<1>4. Max(T) \in T
  BY <1>1, <1>3, MaxIsMember
<1> QED
  BY <1>1, <1>2, <1>4

\* Two presentations get one path with the full name of the first only where it is contested.
LEMMA SharedIsContested ==
    ASSUME NEW d \in Exposed, NEW e \in Exposed, e # d,
           <<All, naming.full[d], Suffix(d)>> \in PathsFor(e)
    PROVE  Contested(d)
<1> DEFINE same == {x \in Exposed : naming.full[x] = naming.full[d]}
<1>1. Exposed \subseteq Decks /\ Decks \subseteq Nat /\ \A x \in Exposed : IdPrefix[x] # 0
  BY FolderAssumption DEF Exposed
<1>2. /\ Suffix(d) = Suffix(e)
      /\ naming.full[e] = naming.full[d] \/ naming.short[e] = naming.full[d]
  BY DEF PathsFor
<1>3. CASE naming.full[e] # naming.full[d]
  BY <1>2, <1>3 DEF Contested
<1>4. CASE naming.full[e] = naming.full[d]
  <2>1. same \subseteq Nat /\ d \in same /\ e \in same
    BY <1>1, <1>4
  <2>2. Min(same) \in same /\ \A y \in same : Min(same) <= y
    BY <2>1, MinIsLeast
  <2> DEFINE f == Min(same)
  <2>3. /\ Suffix(d) = IF d = f THEN 0 ELSE IdPrefix[d]
        /\ Suffix(e) = IF e = f THEN 0 ELSE IdPrefix[e]
    BY <1>4 DEF Suffix
  <2>4. f \in Nat /\ f <= d /\ f <= e /\ f \in Exposed /\ naming.full[f] = naming.full[d]
    BY <2>1, <2>2
  <2> HIDE DEF f
  <2>5. f # d /\ f # e /\ IdPrefix[e] = IdPrefix[d]
    <3>1. IdPrefix[d] # 0 /\ IdPrefix[e] # 0
      BY <1>1
    <3>2. f # d
      <4> SUFFICES ASSUME f = d PROVE FALSE
        OBVIOUS
      <4>1. Suffix(d) = 0 /\ Suffix(e) = IdPrefix[e]
        BY <2>3
      <4> QED
        BY <1>2, <3>1, <4>1
    <3>3. f # e
      <4> SUFFICES ASSUME f = e PROVE FALSE
        OBVIOUS
      <4>1. Suffix(e) = 0 /\ Suffix(d) = IdPrefix[d]
        BY <2>3
      <4> QED
        BY <1>2, <3>1, <4>1
    <3> QED
      BY <1>2, <2>3, <3>2, <3>3
  <2>6. f < d /\ f < e
    BY <1>1, <2>4, <2>5
  <2> QED
    BY <1>4, <2>4, <2>5, <2>6 DEF Contested
<1> QED
  BY <1>3, <1>4

LEMMA WantedIsRight ==
    ASSUME exact => Wanted(folders)
    PROVE  EveryDeckShown /\ NothingWithdrawn
<1> SUFFICES ASSUME exact, NEW order \in SetToSeqs(Exposed), folders = DesiredPaths(order)
             PROVE  EveryDeckShown /\ NothingWithdrawn
  BY DEF Wanted, EveryDeckShown, NothingWithdrawn
<1>1. \A p \in DOMAIN folders : \E d \in Exposed : p \in PathsFor(d) /\ folders[p] = FileOf(d)
  BY DesiredHolds
<1>2. ASSUME NEW d \in Exposed, ~Contested(d)
      PROVE  \E p \in DOMAIN folders : p[1] = All /\ p[2] = naming.full[d] /\ folders[p] = FileOf(d)
  <2> DEFINE p == <<All, naming.full[d], Suffix(d)>>
  <2>1. p \in PathsFor(d)
    BY DEF PathsFor
  <2>2. p \in DOMAIN folders
    BY <2>1 DEF DesiredPaths
  <2>3. PICK e \in Exposed : p \in PathsFor(e) /\ folders[p] = FileOf(e)
    BY <1>1, <2>2
  <2>4. e = d
    BY <1>2, <2>3, SharedIsContested
  <2>5. p[1] = All /\ p[2] = naming.full[d]
    OBVIOUS
  <2> HIDE DEF p
  <2> QED
    BY <2>2, <2>3, <2>4, <2>5
<1> QED
  BY <1>1, <1>2 DEF EveryDeckShown, NothingWithdrawn

\* What is wanted depends on the presentations and their names only.
LEMMA WantedStays ==
    ASSUME UNCHANGED <<naming, decks>>
    PROVE  /\ Exposed' = Exposed
           /\ \A order : DesiredPaths(order)' = DesiredPaths(order)
<1>1. Exposed' = Exposed
  BY DEF Exposed
<1>2. \A d : FileOf(d)' = FileOf(d)
  BY DEF FileOf
<1>3. \A d : Suffix(d)' = Suffix(d)
  BY <1>1 DEF Suffix
<1>4. \A d : PathsFor(d)' = PathsFor(d)
  BY <1>3 DEF PathsFor
<1>5. \A order : DesiredPaths(order)' = DesiredPaths(order)
  BY <1>1, <1>2, <1>4 DEF DesiredPaths
<1> QED
  BY <1>1, <1>5

-----------------------------------------------------------------------------
(* The presentation folders: the passes.                                   *)

PassTyped(x) ==
    /\ x = [step |-> x.step, desired |-> x.desired, stale |-> x.stale]
    /\ x.step \in {"none", "add", "remove"} /\ x.stale \in BOOLEAN
    /\ x # NoPass => x.step # "none"
    /\ \A p \in DOMAIN x.desired : x.desired[p] \in Decks \X (1..MaxDeckChanges + 1)

LEMMA NoPassTyped == PassTyped(NoPass) /\ NoPass.step = "none"
<1>1. DOMAIN NoPass.desired = {}
  BY DEF NoPass
<1> QED
  BY <1>1 DEF NoPass, PassTyped

\* A pass that is at work goes on, or is overtaken.
LEMMA PassGoesOn ==
    ASSUME NEW x, PassTyped(x), NEW y
    PROVE  /\ y = [x EXCEPT !.step = "remove"] =>
                  /\ y = [step |-> "remove", desired |-> x.desired, stale |-> x.stale]
                  /\ PassTyped(y) /\ y # NoPass
           /\ y = [x EXCEPT !.stale = x # NoPass] =>
                  /\ y = [step |-> x.step, desired |-> x.desired, stale |-> (x # NoPass)]
                  /\ PassTyped(y) /\ (x = NoPass => y = NoPass)
<1>1. x = [step |-> x.step, desired |-> x.desired, stale |-> x.stale]
  BY DEF PassTyped
<1>2. [x EXCEPT !.step = "remove"] = [step |-> "remove", desired |-> x.desired, stale |-> x.stale]
  BY <1>1
<1>3. [x EXCEPT !.stale = x # NoPass] = [step |-> x.step, desired |-> x.desired, stale |-> (x # NoPass)]
  BY <1>1
<1>4. ASSUME y = [x EXCEPT !.step = "remove"]
      PROVE  /\ y = [step |-> "remove", desired |-> x.desired, stale |-> x.stale]
             /\ PassTyped(y) /\ y # NoPass
  BY <1>2, <1>4 DEF PassTyped, NoPass
<1>5. ASSUME y = [x EXCEPT !.stale = x # NoPass]
      PROVE  /\ y = [step |-> x.step, desired |-> x.desired, stale |-> (x # NoPass)]
             /\ PassTyped(y) /\ (x = NoPass => y = NoPass)
  <2>1. y = [step |-> x.step, desired |-> x.desired, stale |-> (x # NoPass)]
    BY <1>3, <1>5
  <2>2. ASSUME x = NoPass PROVE y = NoPass
    <3>1. x.step = "none" /\ x.desired = <<>> /\ (x # NoPass) = FALSE
      BY <2>2 DEF NoPass
    <3>2. y = [step |-> "none", desired |-> <<>>, stale |-> FALSE]
      BY <2>1, <3>1
    <3> QED
      BY <3>2 DEF NoPass
  <2>3. y.step = x.step /\ y.desired = x.desired /\ y.stale = (x # NoPass)
    BY <2>1
  <2> QED
    BY <2>1, <2>2, <2>3 DEF PassTyped
<1> QED
  BY <1>4, <1>5

LEMMA PassesTyped == FoldersTypeOK => PassTyped(pass) /\ PassTyped(latePass)
BY DEF FoldersTypeOK, PassTyped

\* The type invariant, with its parts on the passes named.
Shelves ==
    /\ naming \in Namings /\ viewFaults \in 0..MaxViewFaults
    /\ decks \in [Decks -> [active: BOOLEAN, version: 1..MaxDeckChanges + 1, available: BOOLEAN,
                            hall: Halls \cup {NoHall}]]
    /\ damaged \subseteq Decks \X (1..MaxDeckChanges + 1)
    /\ \A p \in DOMAIN folders : folders[p] \in Decks \X (1..MaxDeckChanges + 1)
    /\ viewJob \in 0..EXHAUSTED /\ deckChanges \in 0..MaxDeckChanges /\ exact \in BOOLEAN

LEMMA TypedIs == FoldersTypeOK <=> Shelves /\ PassTyped(pass) /\ PassTyped(latePass)
BY DEF FoldersTypeOK, Shelves, PassTyped

\* What the service leaves in the folders.
LEMMA AddedTyped ==
    ASSUME FoldersTypeOK, NEW x, PassTyped(x)
    PROVE  /\ \A p \in DOMAIN Added(x) : Added(x)[p] \in Decks \X (1..MaxDeckChanges + 1)
           /\ Blocking(x) = {} => \A p \in DOMAIN x.desired : p \in DOMAIN Added(x) /\ Added(x)[p] = x.desired[p]
BY DEF Added, PassTyped, FoldersTypeOK

LEMMA KeptTyped ==
    ASSUME FoldersTypeOK, NEW x
    PROVE  /\ DOMAIN KeptPaths(x) = {p \in DOMAIN folders : p \in DOMAIN x.desired}
           /\ KeptPaths(x) = [p \in DOMAIN KeptPaths(x) |-> folders[p]]
           /\ \A p \in DOMAIN KeptPaths(x) : KeptPaths(x)[p] \in Decks \X (1..MaxDeckChanges + 1)
<1>1. KeptPaths(x) = [p \in {q \in DOMAIN folders : q \in DOMAIN x.desired} |-> folders[p]]
  BY DEF KeptPaths, RestrictDomain, Restrict
<1> QED
  BY <1>1 DEF FoldersTypeOK

-----------------------------------------------------------------------------
(* The presentation folders: the steps.                                    *)

\* What is wanted of the versions of presentations that exist.
LEMMA DesiredTyped ==
    ASSUME FoldersTypeOK, NEW order \in SetToSeqs(Exposed), NEW p \in DOMAIN DesiredPaths(order)
    PROVE  DesiredPaths(order)[p] \in Decks \X (1..MaxDeckChanges + 1)
<1>1. PICK d \in Exposed : DesiredPaths(order)[p] = FileOf(d)
  BY DesiredHolds
<1>2. d \in Decks /\ decks[d].version \in 1..MaxDeckChanges + 1
  BY DEF Exposed, FoldersTypeOK
<1> QED
  BY <1>1, <1>2 DEF FileOf

\* A step that leaves the presentations alone has to account for the passes and the folders.
LEMMA ViewKeeps ==
    ASSUME FoldersTypeOK, FoldersCoherent, UNCHANGED <<naming, decks, damaged, deckChanges>>,
           viewFaults' \in 0..MaxViewFaults, viewJob' \in 0..EXHAUSTED, exact' \in BOOLEAN,
           \A p \in DOMAIN folders' : folders'[p] \in Decks \X (1..MaxDeckChanges + 1),
           PassTyped(pass'), PassTyped(latePass'),
           pass' # NoPass => viewJob' # EXHAUSTED,
           pass' # NoPass /\ ~pass'.stale => Wanted(pass'.desired),
           pass'.step = "remove" /\ ~pass'.stale =>
               \A p \in DOMAIN pass'.desired : p \in DOMAIN folders' /\ folders'[p] = pass'.desired[p],
           exact' => Wanted(folders')
    PROVE  FoldersTypeOK' /\ FoldersCoherent'
<1>1. Shelves'
  BY TypedIs DEF Shelves
<1>2. FoldersTypeOK'
  BY <1>1, TypedIs DEF FoldersTypeOK, Shelves, PassTyped
<1>3. \A d \in Decks : decks'[d].version <= deckChanges' + 1
  BY DEF FoldersCoherent
<1>4. ASSUME NEW f, Wanted(f) PROVE \E order \in SetToSeqs(Exposed') : f = DesiredPaths(order)'
  BY <1>4, WantedStays DEF Wanted
<1> QED
  BY <1>2, <1>3, <1>4 DEF FoldersCoherent, Wanted

LEMMA WorksKeep ==
    ASSUME FoldersTypeOK, FoldersCoherent, ViewWorks
    PROVE  FoldersTypeOK' /\ FoldersCoherent'
<1>0. /\ PassTyped(pass) /\ PassTyped(latePass) /\ PassTyped(NoPass) /\ NoPass.step = "none"
      /\ viewFaults \in 0..MaxViewFaults /\ viewJob \in 0..EXHAUSTED /\ exact \in BOOLEAN
      /\ EXHAUSTED \in Nat \ {0}
      /\ \A p \in DOMAIN folders : folders[p] \in Decks \X (1..MaxDeckChanges + 1)
  BY PassesTyped, NoPassTyped, FolderAssumption DEF FoldersTypeOK, EXHAUSTED
<1>1. CASE BeginPass
  <2>1. PICK order \in SetToSeqs(Exposed) :
                 pass' = [step |-> "add", desired |-> DesiredPaths(order), stale |-> FALSE]
    BY <1>1 DEF BeginPass
  <2>2. /\ viewJob # EXHAUSTED
        /\ UNCHANGED <<naming, decks, damaged, folders, viewJob, latePass, deckChanges, exact, viewFaults>>
    BY <1>1 DEF BeginPass
  <2>3. pass'.step = "add" /\ pass'.desired = DesiredPaths(order) /\ pass'.stale = FALSE
    BY <2>1
  <2>4. \A p \in DOMAIN pass'.desired : pass'.desired[p] \in Decks \X (1..MaxDeckChanges + 1)
    BY <2>3, DesiredTyped
  <2>5. PassTyped(pass')
    BY <2>1, <2>3, <2>4 DEF PassTyped
  <2>6. Wanted(pass'.desired)
    BY <2>3 DEF Wanted
  <2>7. exact' => Wanted(folders')
    BY <2>2 DEF FoldersCoherent
  <2> QED
    BY <1>0, <2>2, <2>3, <2>5, <2>6, <2>7, ViewKeeps
<1>2. CASE AddPaths
  <2>1. /\ pass.step = "add" /\ pass # NoPass /\ folders' = Added(pass) /\ exact' = FALSE
        /\ UNCHANGED <<naming, decks, damaged, latePass, deckChanges, viewFaults>>
    BY <1>0, <1>2 DEF AddPaths
  <2>2. viewJob # EXHAUSTED /\ viewJob + 1 \in 0..EXHAUSTED
    BY <1>0, <2>1 DEF FoldersCoherent
  <2>3. /\ \A p \in DOMAIN folders' : folders'[p] \in Decks \X (1..MaxDeckChanges + 1)
        /\ Blocking(pass) = {} => \A p \in DOMAIN pass.desired : p \in DOMAIN folders' /\ folders'[p] = pass.desired[p]
    BY <1>0, <2>1, AddedTyped
  <2>4. CASE Blocking(pass) = {}
    <3>1. pass' = [pass EXCEPT !.step = "remove"] /\ viewJob' = viewJob
      BY <1>2, <2>4 DEF AddPaths
    <3>2. /\ PassTyped(pass') /\ pass'.desired = pass.desired /\ pass'.stale = pass.stale
      BY <1>0, <3>1, PassGoesOn
    <3>3. ~pass.stale => Wanted(pass.desired)
      BY <2>1 DEF FoldersCoherent
    <3> QED
      BY <1>0, <2>1, <2>2, <2>3, <2>4, <3>1, <3>2, <3>3, ViewKeeps
  <2>5. CASE Blocking(pass) # {}
    <3>1. pass' = NoPass /\ viewJob' = viewJob + 1
      BY <1>2, <2>5 DEF AddPaths, ViewFailed
    <3> QED
      BY <1>0, <2>1, <2>2, <2>3, <3>1, ViewKeeps
  <2> QED
    BY <2>4, <2>5
<1>3. CASE FinishPass
  <2>1. /\ pass.step = "remove" /\ pass # NoPass /\ folders' = KeptPaths(pass) /\ pass' = NoPass /\ viewJob' = 0
        /\ exact' = (~pass.stale /\ latePass = NoPass)
        /\ UNCHANGED <<naming, decks, damaged, latePass, deckChanges, viewFaults>>
    BY <1>0, <1>3 DEF FinishPass
  <2>2. \A p \in DOMAIN folders' : folders'[p] \in Decks \X (1..MaxDeckChanges + 1)
    BY <2>1, KeptTyped
  <2>3. ASSUME exact' PROVE Wanted(folders')
    <3>1. ~pass.stale
      BY <2>1, <2>3
    <3>2. PICK order \in SetToSeqs(Exposed) : pass.desired = DesiredPaths(order)
      BY <2>1, <3>1 DEF FoldersCoherent, Wanted
    <3>3. \A p \in DOMAIN pass.desired : p \in DOMAIN folders /\ folders[p] = pass.desired[p]
      BY <2>1, <3>1 DEF FoldersCoherent
    <3>4. DOMAIN folders' = DOMAIN pass.desired /\ folders' = [p \in DOMAIN pass.desired |-> folders[p]]
      <4>1. /\ DOMAIN folders' = {p \in DOMAIN folders : p \in DOMAIN pass.desired}
            /\ folders' = [p \in DOMAIN folders' |-> folders[p]]
        BY <2>1, KeptTyped
      <4>2. DOMAIN folders' = DOMAIN pass.desired
        BY <3>3, <4>1
      <4> QED
        BY <4>1, <4>2
    <3>5. pass.desired = [p \in DOMAIN pass.desired |-> pass.desired[p]]
      BY <3>2 DEF DesiredPaths
    <3>6. folders' = pass.desired
      BY <3>3, <3>4, <3>5
    <3> QED
      BY <3>2, <3>6 DEF Wanted
  <2>4. exact' \in BOOLEAN /\ viewJob' \in 0..EXHAUSTED
    BY <1>0, <2>1
  <2> QED
    BY <1>0, <2>1, <2>2, <2>3, <2>4, ViewKeeps
<1> QED
  BY <1>1, <1>2, <1>3 DEF ViewWorks

LEMMA FaultsKeep ==
    ASSUME FoldersTypeOK, FoldersCoherent, GiveUpPass \/ RestartViewWorker
    PROVE  FoldersTypeOK' /\ FoldersCoherent'
<1>0. /\ PassTyped(pass) /\ PassTyped(latePass) /\ PassTyped(NoPass) /\ NoPass.step = "none"
      /\ viewFaults \in 0..MaxViewFaults /\ viewJob \in 0..EXHAUSTED /\ exact \in BOOLEAN
      /\ EXHAUSTED \in Nat \ {0} /\ MaxViewFaults \in Nat
      /\ \A p \in DOMAIN folders : folders[p] \in Decks \X (1..MaxDeckChanges + 1)
  BY PassesTyped, NoPassTyped, FolderAssumption DEF FoldersTypeOK, EXHAUSTED
<1>1. /\ pass' = NoPass /\ latePass' \in {NoPass, pass, latePass} /\ viewFaults' \in 0..MaxViewFaults
      /\ UNCHANGED <<naming, decks, damaged, folders, deckChanges, exact>>
  BY <1>0 DEF GiveUpPass, RestartViewWorker
<1>2. viewJob' \in 0..EXHAUSTED
  BY <1>0 DEF GiveUpPass, RestartViewWorker, FoldersCoherent, ViewFailed
<1>3. PassTyped(latePass')
  BY <1>0, <1>1
<1>4. exact' => Wanted(folders')
  BY <1>1 DEF FoldersCoherent
<1> QED
  BY <1>0, <1>1, <1>2, <1>3, <1>4, ViewKeeps

\* A pass that is overtaken, by the service or by a change, makes no promise.
LEMMA Overtaken ==
    ASSUME FoldersTypeOK, FoldersCoherent, pass' = [pass EXCEPT !.stale = pass # NoPass]
    PROVE  /\ PassTyped(pass') /\ (pass' # NoPass => pass # NoPass /\ pass'.stale)
           /\ pass'.step = "remove" => pass'.stale
<1>1. /\ pass' = [step |-> pass.step, desired |-> pass.desired, stale |-> (pass # NoPass)]
      /\ PassTyped(pass') /\ (pass = NoPass => pass' = NoPass)
  BY PassesTyped, PassGoesOn
<1>2. pass'.step = pass.step /\ pass'.stale = (pass # NoPass)
  BY <1>1
<1>3. pass'.step = "remove" => pass # NoPass
  BY <1>2, NoPassTyped
<1> QED
  BY <1>1, <1>2, <1>3

LEMMA ServiceKeeps ==
    ASSUME FoldersTypeOK, FoldersCoherent, LateStep
    PROVE  FoldersTypeOK' /\ FoldersCoherent'
<1>0. /\ PassTyped(pass) /\ PassTyped(latePass) /\ PassTyped(NoPass)
      /\ viewFaults \in 0..MaxViewFaults /\ viewJob \in 0..EXHAUSTED
      /\ pass # NoPass => viewJob # EXHAUSTED
  BY PassesTyped, NoPassTyped DEF FoldersTypeOK, FoldersCoherent
<1>1. /\ exact' = FALSE /\ pass' = [pass EXCEPT !.stale = pass # NoPass]
      /\ UNCHANGED <<naming, decks, damaged, viewJob, deckChanges, viewFaults>>
  BY DEF LateStep
<1>2. /\ folders' = Added(latePass) \/ folders' = KeptPaths(latePass)
      /\ latePass' = NoPass \/ latePass' = [latePass EXCEPT !.step = "remove"]
  BY DEF LateStep
<1>3. PassTyped(latePass')
  BY <1>0, <1>2, PassGoesOn
<1>4. \A p \in DOMAIN folders' : folders'[p] \in Decks \X (1..MaxDeckChanges + 1)
  BY <1>0, <1>2, AddedTyped, KeptTyped
<1>5. /\ PassTyped(pass') /\ (pass' # NoPass => pass # NoPass /\ pass'.stale)
      /\ pass'.step = "remove" => pass'.stale
  BY <1>1, Overtaken
<1> QED
  BY <1>0, <1>1, <1>3, <1>4, <1>5, ViewKeeps

LEMMA ChangesKeep ==
    ASSUME FoldersTypeOK, FoldersCoherent, NEW d \in Decks, DeckChanges(d)
    PROVE  FoldersTypeOK' /\ FoldersCoherent'
<1> DEFINE Row == [active: BOOLEAN, version: 1..MaxDeckChanges + 1, available: BOOLEAN,
                   hall: Halls \cup {NoHall}]
<1>0. /\ MaxDeckChanges \in Nat /\ deckChanges \in 0..MaxDeckChanges
      /\ \A x \in Decks : decks[x].version <= deckChanges + 1
      /\ decks \in [Decks -> Row]
  BY FolderAssumption DEF FoldersTypeOK, FoldersCoherent
<1>1. DeckChange
  BY DEF DeckChanges, NewDeckVersion, DeckArrives, WithdrawDeck, DamageDeck, MoveDeck
<1>2. /\ deckChanges < MaxDeckChanges /\ deckChanges' = deckChanges + 1 /\ deckChanges' \in 0..MaxDeckChanges
      /\ exact' = FALSE /\ pass' = [pass EXCEPT !.stale = pass # NoPass]
      /\ UNCHANGED <<naming, folders, viewJob, latePass, viewFaults>>
  BY <1>0, <1>1 DEF DeckChange
<1>3. decks[d] \in Row /\ decks[d].version \in 1..MaxDeckChanges + 1 /\ decks[d].version <= deckChanges + 1
  BY <1>0
<1> DEFINE Good == decks' \in [Decks -> Row] /\ \A x \in Decks : decks'[x].version <= deckChanges' + 1
<1>4. ASSUME NEW row \in Row, decks' = [decks EXCEPT ![d] = row], row.version <= decks[d].version + 1
      PROVE  Good
  <2> HIDE DEF Row
  <2>1. decks' \in [Decks -> Row]
    BY <1>0, <1>4
  <2>2. \A x \in Decks : decks[x].version \in Nat /\ row.version \in Nat
    BY <1>0 DEF Row
  <2>3. ASSUME NEW x \in Decks PROVE decks'[x].version <= deckChanges' + 1
    <3>1. CASE x = d
      <4>1. decks'[x] = row
        BY <1>0, <1>4, <3>1
      <4> QED
        BY <1>0, <1>2, <1>3, <1>4, <2>2, <4>1
    <3>2. CASE x # d
      <4>1. decks'[x] = decks[x]
        BY <1>0, <1>4, <3>2
      <4> QED
        BY <1>0, <1>2, <2>2, <4>1
    <3> QED
      BY <3>1, <3>2
  <2> QED
    BY <2>1, <2>3
<1>5. Good
  <2> HIDE DEF Good
  <2>0. decks[d].version <= decks[d].version + 1
    BY <1>0, <1>3
  <2>1. ASSUME NEW here \in BOOLEAN, NewDeckVersion(d, here) PROVE Good
    <3> DEFINE row == [decks[d] EXCEPT !.version = @ + 1, !.available = here]
    <3>1. decks' = [decks EXCEPT ![d] = row]
      BY <1>0, <2>1 DEF NewDeckVersion
    <3>2. decks[d].version + 1 \in 1..MaxDeckChanges + 1 /\ decks[d].version + 1 <= decks[d].version + 1
      BY <1>0, <1>2, <1>3
    <3>3. row \in Row /\ row.version = decks[d].version + 1
      BY <1>3, <3>2
    <3> HIDE DEF row, Row
    <3> QED
      BY <1>0, <1>4, <3>1, <3>2, <3>3
  <2>2. ASSUME DeckArrives(d) PROVE Good
    <3> DEFINE row == [decks[d] EXCEPT !.available = TRUE]
    <3>1. decks' = [decks EXCEPT ![d] = row]
      BY <1>0, <2>2 DEF DeckArrives
    <3>3. row \in Row /\ row.version = decks[d].version
      BY <1>3
    <3> HIDE DEF row, Row
    <3> QED
      BY <1>4, <2>0, <3>1, <3>3
  <2>3. ASSUME WithdrawDeck(d) PROVE Good
    <3> DEFINE row == [decks[d] EXCEPT !.active = ~@]
    <3>1. decks' = [decks EXCEPT ![d] = row]
      BY <1>0, <2>3 DEF WithdrawDeck
    <3>3. row \in Row /\ row.version = decks[d].version
      BY <1>3
    <3> HIDE DEF row, Row
    <3> QED
      BY <1>4, <2>0, <3>1, <3>3
  <2>4. ASSUME NEW hall \in Halls \cup {NoHall}, MoveDeck(d, hall) PROVE Good
    <3> DEFINE row == [decks[d] EXCEPT !.hall = hall]
    <3>1. decks' = [decks EXCEPT ![d] = row]
      BY <1>0, <2>4 DEF MoveDeck
    <3>3. row \in Row /\ row.version = decks[d].version
      BY <1>3
    <3> HIDE DEF row, Row
    <3> QED
      BY <1>4, <2>0, <3>1, <3>3
  <2>5. CASE DamageDeck(d)
    <3>1. decks' = decks
      BY <2>5 DEF DamageDeck
    <3>2. \A x \in Decks : decks[x].version \in Nat
      BY <1>0
    <3> QED
      BY <1>0, <1>2, <3>1, <3>2 DEF Good
  <2> QED
    BY <2>1, <2>2, <2>3, <2>4, <2>5 DEF DeckChanges
<1>6. damaged' \subseteq Decks \X (1..MaxDeckChanges + 1)
  <2>1. FileOf(d) \in Decks \X (1..MaxDeckChanges + 1)
    BY <1>3 DEF FileOf
  <2> QED
    BY <2>1 DEF DeckChanges, NewDeckVersion, DeckArrives, WithdrawDeck, DamageDeck, MoveDeck, FoldersTypeOK
<1>7. /\ PassTyped(pass') /\ (pass' # NoPass => pass # NoPass /\ pass'.stale)
      /\ pass'.step = "remove" => pass'.stale
  BY <1>2, Overtaken
<1>8. FoldersTypeOK'
  BY <1>2, <1>5, <1>6, <1>7 DEF FoldersTypeOK, PassTyped, Row
<1> QED
  BY <1>2, <1>5, <1>7, <1>8 DEF FoldersCoherent

LEMMA FoldersBegin == FoldersInit => FoldersTypeOK /\ FoldersCoherent
<1> SUFFICES ASSUME FoldersInit PROVE FoldersTypeOK /\ FoldersCoherent
  OBVIOUS
<1>1. PICK hall \in Halls, here \in SUBSET Decks :
           decks = [d \in Decks |-> [active |-> TRUE, version |-> 1, available |-> d \in here, hall |-> hall]]
  BY DEF FoldersInit
<1>2. decks \in [Decks -> [active: BOOLEAN, version: 1..MaxDeckChanges + 1, available: BOOLEAN,
                           hall: Halls \cup {NoHall}]]
  BY <1>1, FolderAssumption
<1>3. \A d \in Decks : decks[d].version = 1
  BY <1>1
<1>4. /\ naming \in Namings /\ damaged = {} /\ DOMAIN folders = {} /\ viewJob = 0 /\ pass = NoPass
      /\ latePass = NoPass /\ deckChanges = 0 /\ viewFaults = 0 /\ exact = FALSE
  BY DEF FoldersInit
<1>5. FoldersTypeOK
  <2>1. /\ viewJob \in 0..EXHAUSTED /\ deckChanges \in 0..MaxDeckChanges /\ viewFaults \in 0..MaxViewFaults
    BY <1>4, FolderAssumption DEF EXHAUSTED
  <2>2. exact \in BOOLEAN
    BY <1>4
  <2>3. Shelves
    BY <1>2, <1>4, <2>1, <2>2 DEF Shelves
  <2> QED
    BY <1>4, <2>3, NoPassTyped, TypedIs
<1> QED
  BY <1>3, <1>4, <1>5, NoPassTyped DEF FoldersCoherent

\* After a pass over the present state every presentation with a file is found under its own
\* full name with its newest version, unless the name is contested, and no folder holds
\* anything else, for all sets of presentations, names and rooms and however passes that were
\* given up go on (paths_for, with_collision_suffixes, reconcile_presentations).
THEOREM FoldersAreSafe == FoldersSpec => []FoldersSafe
<1> DEFINE Inv == FoldersTypeOK /\ FoldersCoherent
<1>1. FoldersInit => Inv
  BY FoldersBegin
<1>2. Inv /\ [FoldersNext]_folderVars => Inv'
  <2> SUFFICES ASSUME Inv, [FoldersNext]_folderVars PROVE Inv'
    OBVIOUS
  <2>1. CASE UNCHANGED folderVars
    <3>1. exact' => Wanted(folders')
      BY <2>1 DEF FoldersCoherent, folderVars
    <3>2. pass' = pass /\ latePass' = latePass /\ folders' = folders /\ viewJob' = viewJob
      BY <2>1 DEF folderVars
    <3> QED
      BY <2>1, <3>1, <3>2, ViewKeeps, PassesTyped DEF FoldersCoherent, folderVars, FoldersTypeOK
  <2>2. CASE FoldersNext
    BY <2>2, WorksKeep, FaultsKeep, ServiceKeeps, ChangesKeep DEF FoldersNext, ViewService
  <2> QED
    BY <2>1, <2>2
<1>3. Inv => FoldersSafe
  BY WantedIsRight DEF FoldersCoherent, FoldersSafe
<1> QED
  BY <1>1, <1>2, <1>3, PTL DEF FoldersSpec

-----------------------------------------------------------------------------
(* Versions: numbers and ids.                                              *)

\* A finite set of numbers has a greatest one: a smallest set without one would have it when
\* an element is put back.
LEMMA GreatestOf ==
    ASSUME NEW T, IsFiniteSet(T), T \subseteq Nat, T # {}
    PROVE  \E x \in T : \A y \in T : x >= y
<1> DEFINE Bad(S) == S # {} /\ ~\E x \in S : \A y \in S : x >= y
           Sizes == {Cardinality(S) : S \in {U \in SUBSET T : Bad(U)}}
<1> SUFFICES ASSUME Bad(T) PROVE FALSE
  OBVIOUS
<1>1. \A S \in SUBSET T : IsFiniteSet(S) /\ Cardinality(S) \in Nat
  BY FS_Subset, FS_CardinalityType
<1>2. Sizes \subseteq Nat /\ Sizes # {}
  BY <1>1
<1>3. PICK n \in Sizes : \A k \in Sizes : n <= k
  BY <1>2, LeastOf
<1>4. PICK S \in SUBSET T : Bad(S) /\ n = Cardinality(S)
  BY <1>3
<1>5. PICK x \in S : TRUE
  BY <1>4
<1> DEFINE R == S \ {x}
<1>6. R \in SUBSET T /\ Cardinality(R) = Cardinality(S) - 1
  BY <1>1, <1>4, <1>5, FS_RemoveElement
<1>7. ~Bad(R)
  <2>1. Cardinality(R) \in Nat /\ Cardinality(S) \in Nat
    BY <1>1, <1>6
  <2> SUFFICES ASSUME Bad(R) PROVE FALSE
    OBVIOUS
  <2>2. Cardinality(R) \in Sizes
    BY <1>6
  <2> HIDE DEF Bad, Sizes, R
  <2>3. n <= Cardinality(R) /\ n = Cardinality(S)
    BY <1>3, <1>4, <2>2
  <2> QED
    BY <1>6, <2>1, <2>3
<1>8. x \in Nat /\ S \subseteq Nat
  BY <1>4, <1>5
<1>9. CASE R = {}
  <2>1. S = {x}
    BY <1>5, <1>9
  <2>2. \A y \in S : x >= y
    BY <1>8, <2>1
  <2> QED
    BY <1>4, <1>5, <2>2
<1>10. CASE R # {}
  <2>1. PICK z \in R : \A y \in R : z >= y
    BY <1>7, <1>10
  <2>2. z \in S /\ z \in Nat
    BY <1>8, <2>1
  <2>3. CASE x >= z
    <3>1. \A y \in S : x >= y
      BY <1>8, <2>1, <2>2, <2>3
    <3> QED
      BY <1>4, <1>5, <3>1
  <2>4. CASE z >= x
    <3>1. \A y \in S : z >= y
      BY <1>8, <2>1, <2>2, <2>4
    <3> QED
      BY <1>4, <2>2, <3>1
  <2> QED
    BY <1>8, <2>2, <2>3, <2>4
<1> QED
  BY <1>9, <1>10

LEMMA MaxIsGreatest ==
    ASSUME NEW T, IsFiniteSet(T), T \subseteq Nat, T # {}
    PROVE  Max(T) \in T /\ \A y \in T : Max(T) >= y
BY GreatestOf DEF Max

\* The rows of one side: finitely many, one for a number.
Rows(rows) ==
    /\ IsFiniteSet(DOMAIN rows) /\ OneRowEach(rows)
    /\ \A v \in DOMAIN rows : rows[v] \in Version

LEMMA NumbersFinite ==
    ASSUME NEW rows, Rows(rows), NEW t
    PROVE  IsFiniteSet(Numbers(rows, t)) /\ Numbers(rows, t) \subseteq Nat \ {0}
<1> DEFINE own == {w \in DOMAIN rows : rows[w].talk = t}
           g == [v \in own |-> rows[v].number]
<1>1. IsFiniteSet(own)
  BY FS_Subset DEF Rows
<1>2. g \in Surjection(own, Numbers(rows, t))
  BY DEF Surjection, Numbers
<1>3. IsFiniteSet(Numbers(rows, t))
  BY <1>1, <1>2, FS_Surjection
<1>4. Numbers(rows, t) \subseteq Nat \ {0}
  BY DEF Numbers, Rows, Version
<1> QED
  BY <1>3, <1>4

LEMMA NextNumberFresh ==
    ASSUME NEW rows, Rows(rows), NEW t
    PROVE  NextNumber(rows, t) \in Nat \ {0} /\ NextNumber(rows, t) \notin Numbers(rows, t)
<1> DEFINE T == Numbers(rows, t) \cup {0}
<1>1. IsFiniteSet(T) /\ T \subseteq Nat /\ T # {}
  BY NumbersFinite, FS_AddElement
<1>2. Max(T) \in T /\ \A y \in T : Max(T) >= y
  BY <1>1, MaxIsGreatest
<1>3. Max(T) \in Nat
  BY <1>1, <1>2
<1>4. NextNumber(rows, t) = Max(T) + 1
  BY DEF NextNumber
<1> HIDE DEF T
<1>5. NextNumber(rows, t) \notin T
  BY <1>2, <1>3, <1>4
<1> QED
  BY <1>3, <1>4, <1>5 DEF T

\* A row is added, and nothing else has changed.
JustAdded(rows, v, row, new) ==
    DOMAIN new = DOMAIN rows \cup {v} /\ new[v] = row /\ \A w \in DOMAIN rows : new[w] = rows[w]

LEMMA RowAdded ==
    ASSUME NEW rows, Rows(rows), NEW v, v \notin DOMAIN rows, NEW row \in Version,
           row.number \notin Numbers(rows, row.talk), NEW new, new = With(rows, v, row)
    PROVE  Rows(new) /\ JustAdded(rows, v, row, new)
<1>1. DOMAIN new = DOMAIN rows \cup {v} /\ new[v] = row /\ \A w \in DOMAIN rows : new[w] = rows[w]
  BY DEF With
<1>2. IsFiniteSet(DOMAIN new)
  BY <1>1, FS_AddElement DEF Rows
<1>3. \A w \in DOMAIN rows : rows[w].talk = row.talk => rows[w].number # row.number
  BY DEF Numbers
<1>4. OneRowEach(new)
  <2> SUFFICES ASSUME NEW x \in DOMAIN new, NEW y \in DOMAIN new, x # y,
                      new[x].talk = new[y].talk, new[x].number = new[y].number
               PROVE  FALSE
    BY DEF OneRowEach
  <2>1. CASE x \in DOMAIN rows /\ y \in DOMAIN rows
    BY <1>1, <2>1 DEF Rows, OneRowEach
  <2>2. CASE x = v \/ y = v
    BY <1>1, <1>3, <2>2
  <2> QED
    BY <1>1, <2>1, <2>2
<1>5. \A w \in DOMAIN new : new[w] \in Version
  BY <1>1 DEF Rows
<1> QED
  BY <1>1, <1>2, <1>4, <1>5 DEF Rows, JustAdded

-----------------------------------------------------------------------------
(* Versions: the rows of both sides.                                       *)

LEMMA QueueParts ==
    ASSUME NEW S, NEW q \in Seq(S)
    PROVE  /\ Len(q) \in Nat /\ DOMAIN q = 1..Len(q) /\ \A i \in 1..Len(q) : q[i] \in S
           /\ \A x \in S : /\ Append(q, x) \in Seq(S) /\ Len(Append(q, x)) = Len(q) + 1
                           /\ Append(q, x)[Len(q) + 1] = x
                           /\ \A i \in 1..Len(q) : Append(q, x)[i] = q[i]
           /\ q # <<>> => /\ Len(q) >= 1 /\ Head(q) = q[1] /\ Head(q) \in S
                          /\ Tail(q) \in Seq(S) /\ Len(Tail(q)) = Len(q) - 1
                          /\ \A i \in 1..(Len(q) - 1) : Tail(q)[i] = q[i + 1]
OBVIOUS

\* What an event of the Site or a snapshot does to the rows and to the outbox.
Reported(kind, id, t) == versionReports' = Append(versionReports, [kind |-> kind, id |-> id, talk |-> t])

SiteAdds ==
    \E t \in Talks :
        /\ FreshId \in Ids
        /\ siteRows' = With(siteRows, FreshId, [talk |-> t, number |-> NextNumber(siteRows, t), by |-> "site"])
        /\ Reported("version", FreshId, t) /\ UNCHANGED <<centralRows, siteTalks, centralTalks>>

SiteAddsTalk ==
    \E t \in Talks : /\ siteTalks' = With(siteTalks, t, TRUE) /\ t \notin DOMAIN siteTalks
                     /\ Reported("talk", NoVersion, t) /\ UNCHANGED <<siteRows, centralRows, centralTalks>>

CentralAdds ==
    \E t \in Talks :
        /\ FreshId \in Ids
        /\ centralRows' = With(centralRows, FreshId,
                               [talk |-> t, number |-> NextNumber(centralRows, t), by |-> "central"])
        /\ UNCHANGED <<siteRows, versionReports, siteTalks, centralTalks>>

NoRows == UNCHANGED <<siteRows, centralRows, versionReports, siteTalks>>

LEMMA RowSteps ==
    ASSUME VersionNext
    PROVE  SiteAdds \/ SiteAddsTalk \/ CentralAdds \/ NoRows \/ apply_site_event \/ apply_central_event
<1>1. ASSUME NEW t \in Talks, create_local_version(t) \/ create_local_presentation(t)
      PROVE  SiteAdds \/ SiteAddsTalk
  BY <1>1 DEF create_local_version, create_local_presentation, AddSiteVersion, SiteAdds, SiteAddsTalk, Reported
<1>2. ASSUME NEW f \in MediaIds, NEW t \in Talks, confirm_one(f, t)
      PROVE  SiteAdds \/ NoRows
  <2>1. CASE intake[f].confirmed \in DOMAIN siteRows
    BY <1>2, <2>1 DEF confirm_one, NoRows
  <2>2. CASE intake[f].confirmed \notin DOMAIN siteRows
    BY <1>2, <2>2 DEF confirm_one, AddSiteVersion, SiteAdds, Reported
  <2> QED
    BY <2>1, <2>2
<1>3. CASE SiteReceives
  BY <1>3 DEF SiteReceives, _create_staging, Hashed, MarkAvailable, _record_upload_failure, Replicated, NoRows
<1>4. ASSUME NEW t \in Talks, promote_and_assign(t)
      PROVE  CentralAdds \/ NoRows
  <2> DEFINE latest == Newest(centralRows, t)
             reused == latest # NoVersion /\ ~HasImport(latest)
  <2>1. CASE reused
    BY <1>4, <2>1 DEF promote_and_assign, NoRows
  <2>2. CASE ~reused
    BY <1>4, <2>2 DEF promote_and_assign, CentralAdds
  <2> QED
    BY <2>1, <2>2
<1>5. CASE CentralMakes
  BY <1>4, <1>5 DEF CentralMakes, CentralAddsTalk, push_snapshot, NoRows
<1> QED
  BY <1>1, <1>2, <1>3, <1>5 DEF VersionNext, SiteMakes, Exchange

\* The rows, as the steps have to leave them.
RowsStand ==
    /\ DOMAIN siteRows \subseteq Ids /\ DOMAIN centralRows \subseteq Ids
    /\ Rows(siteRows) /\ Rows(centralRows)
    /\ IdsDrawn /\ RowsReported /\ versionReports \in Seq(Report)
    /\ \A v \in DOMAIN siteRows \cap DOMAIN centralRows : siteRows[v] = centralRows[v]

Grows ==
    /\ \A v \in DOMAIN siteRows : v \in DOMAIN siteRows' /\ siteRows'[v] = siteRows[v]
    /\ \A v \in DOMAIN centralRows : v \in DOMAIN centralRows' /\ centralRows'[v] = centralRows[v]

\* Once its report is applied a version has its number at Central for itself.
LEMMA RowsAgree ==
    ASSUME RowsStand
    PROVE  VersionsAgree
<1> SUFFICES ASSUME NEW v \in DOMAIN siteRows, NEW w \in DOMAIN centralRows, v # w,
                    siteRows[v].talk = centralRows[w].talk, siteRows[v].number = centralRows[w].number
             PROVE  \/ siteRows[v].by = "snapshot"
                    \/ \E i \in DOMAIN versionReports : versionReports[i].id = v
  BY DEF RowsStand, VersionsAgree
<1>1. CASE v \in DOMAIN centralRows
  BY <1>1 DEF RowsStand, Rows, OneRowEach
<1> QED
  BY <1>1 DEF RowsStand, RowsReported

\* A queue that is written keeps what is in it, and what is in the row of the new report is true.
LEMMA ReportAppended ==
    ASSUME RowsStand, Grows, NEW kind \in {"talk", "version"}, NEW id \in Ids \cup {NoVersion}, NEW t \in Talks,
           Reported(kind, id, t), DOMAIN centralRows' = DOMAIN centralRows,
           IF kind = "talk" THEN id = NoVersion
           ELSE id \in DOMAIN siteRows' /\ siteRows'[id].talk = t /\ siteRows'[id].by = "site",
           \A v \in DOMAIN siteRows' \ DOMAIN siteRows : v = id /\ kind = "version"
    PROVE  RowsReported' /\ versionReports' \in Seq(Report)
<1> DEFINE new == [kind |-> kind, id |-> id, talk |-> t]
<1>1. new \in Report /\ versionReports' = Append(versionReports, new) /\ versionReports \in Seq(Report)
  BY DEF Report, Reported, RowsStand
<1>2. /\ versionReports' \in Seq(Report) /\ Len(versionReports') = Len(versionReports) + 1
      /\ versionReports'[Len(versionReports) + 1] = new
      /\ \A i \in 1..Len(versionReports) : versionReports'[i] = versionReports[i]
      /\ Len(versionReports) \in Nat /\ DOMAIN versionReports = 1..Len(versionReports)
  <2> HIDE DEF new
  <2> QED
    BY <1>1, QueueParts
<1>3. DOMAIN versionReports' = 1..(Len(versionReports) + 1)
  BY <1>2, QueueParts
<1>4. ASSUME NEW i \in DOMAIN versionReports'
      PROVE  IF versionReports'[i].kind = "talk" THEN versionReports'[i].id = NoVersion
             ELSE /\ versionReports'[i].id \in DOMAIN siteRows'
                  /\ siteRows'[versionReports'[i].id].talk = versionReports'[i].talk
                  /\ siteRows'[versionReports'[i].id].by = "site"
  <2>1. CASE i = Len(versionReports) + 1
    BY <1>2, <2>1
  <2>2. CASE i \in 1..Len(versionReports)
    <3>1. versionReports'[i] = versionReports[i] /\ i \in DOMAIN versionReports
      BY <1>2, <2>2
    <3> QED
      BY <3>1 DEF RowsStand, RowsReported, Grows
  <2> QED
    BY <1>2, <1>3, <2>1, <2>2
<1>5. ASSUME NEW v \in DOMAIN siteRows'
      PROVE  \/ siteRows'[v].by = "snapshot" /\ v \notin DOMAIN centralRows'
             \/ /\ siteRows'[v].by = "site"
                /\ v \in DOMAIN centralRows' \/ \E i \in DOMAIN versionReports' : versionReports'[i].id = v
  <2>1. CASE v \in DOMAIN siteRows
    <3>1. siteRows'[v] = siteRows[v]
      BY <2>1 DEF Grows
    <3>2. ASSUME NEW i \in DOMAIN versionReports, versionReports[i].id = v
          PROVE  \E j \in DOMAIN versionReports' : versionReports'[j].id = v
      <4>1. i \in DOMAIN versionReports' /\ versionReports'[i] = versionReports[i]
        BY <1>2, <1>3
      <4> QED
        BY <3>2, <4>1
    <3> QED
      BY <2>1, <3>1, <3>2 DEF RowsStand, RowsReported
  <2>2. CASE v \notin DOMAIN siteRows
    <3>1. v = id /\ kind = "version" /\ siteRows'[v].by = "site"
      BY <2>2
    <3>2. Len(versionReports) + 1 \in DOMAIN versionReports' /\ versionReports'[Len(versionReports) + 1].id = v
      BY <1>2, <1>3, <3>1
    <3> QED
      BY <3>1, <3>2
  <2> QED
    BY <2>1, <2>2
<1> QED
  BY <1>2, <1>4, <1>5 DEF RowsReported

LEMMA DrawnTyped ==
    ASSUME RowsStand
    PROVE  /\ FreshId \in Nat \ {0} /\ FreshId \notin DOMAIN siteRows /\ FreshId \notin DOMAIN centralRows
           /\ DOMAIN siteRows \cup DOMAIN centralRows = 1..(FreshId - 1)
<1>1. PICK n \in 0..MaxVersions : DOMAIN siteRows \cup DOMAIN centralRows = 1..n
  BY DEF RowsStand, IdsDrawn
<1>2. n \in Nat
  BY VersionBounds
<1>3. Cardinality(1..n) = n
  BY <1>2, FS_Interval
<1>4. FreshId = n + 1
  BY <1>1, <1>3 DEF FreshId
<1> QED
  BY <1>1, <1>2, <1>4

\* The next id is drawn, or several of them.
LEMMA DrawnNext ==
    ASSUME RowsStand, NEW k \in Nat, FreshId + k - 1 \in 0..MaxVersions,
           DOMAIN siteRows' \cup DOMAIN centralRows'
               = DOMAIN siteRows \cup DOMAIN centralRows \cup (FreshId..(FreshId + k - 1))
    PROVE  IdsDrawn'
<1>1. DOMAIN siteRows' \cup DOMAIN centralRows' = 1..(FreshId + k - 1)
  BY DrawnTyped
<1> QED
  BY <1>1 DEF IdsDrawn

LEMMA SiteAddsStands ==
    ASSUME RowsStand, SiteAdds
    PROVE  RowsStand' /\ Grows
<1>1. PICK t \in Talks :
        /\ FreshId \in Ids
        /\ siteRows' = With(siteRows, FreshId, [talk |-> t, number |-> NextNumber(siteRows, t), by |-> "site"])
        /\ Reported("version", FreshId, t) /\ UNCHANGED <<centralRows, siteTalks, centralTalks>>
  BY DEF SiteAdds
<1> DEFINE row == [talk |-> t, number |-> NextNumber(siteRows, t), by |-> "site"]
<1>2. row \in Version /\ row.number \notin Numbers(siteRows, row.talk)
  BY NextNumberFresh DEF Version, RowsStand
<1>3. FreshId \in Nat \ {0} /\ FreshId \notin DOMAIN siteRows /\ FreshId \notin DOMAIN centralRows
  BY DrawnTyped
<1>4. row.talk = t /\ row.by = "site"
  OBVIOUS
<1>5. Rows(siteRows') /\ JustAdded(siteRows, FreshId, row, siteRows')
  <2>1. siteRows' = With(siteRows, FreshId, row) /\ Rows(siteRows)
    BY <1>1 DEF RowsStand
  <2> HIDE DEF row
  <2> QED
    BY <1>2, <1>3, <2>1, RowAdded
<1> HIDE DEF row
<1>6. Grows
  BY <1>1, <1>5 DEF Grows, JustAdded
<1>7. RowsReported' /\ versionReports' \in Seq(Report)
  BY <1>1, <1>4, <1>5, <1>6, ReportAppended DEF JustAdded
<1>8. IdsDrawn'
  <2>1. FreshId..(FreshId + 1 - 1) = {FreshId} /\ FreshId + 1 - 1 \in 0..MaxVersions
    BY <1>1, <1>3, VersionBounds DEF Ids
  <2> QED
    BY <1>1, <1>5, <2>1, DrawnNext DEF JustAdded
<1>9. DOMAIN siteRows' \subseteq Ids /\ DOMAIN centralRows' \subseteq Ids
  BY <1>1, <1>5 DEF RowsStand, JustAdded
<1>10. \A v \in DOMAIN siteRows' \cap DOMAIN centralRows' : siteRows'[v] = centralRows'[v]
  BY <1>1, <1>3, <1>5 DEF RowsStand, JustAdded
<1>11. Rows(centralRows)'
  BY <1>1 DEF RowsStand, Rows, OneRowEach
<1> QED
  BY <1>5, <1>6, <1>7, <1>8, <1>9, <1>10, <1>11 DEF RowsStand, Rows, OneRowEach, JustAdded

LEMMA CentralAddsStands ==
    ASSUME RowsStand, CentralAdds
    PROVE  RowsStand' /\ Grows
<1>1. PICK t \in Talks :
        /\ FreshId \in Ids
        /\ centralRows' = With(centralRows, FreshId,
                               [talk |-> t, number |-> NextNumber(centralRows, t), by |-> "central"])
        /\ UNCHANGED <<siteRows, versionReports, siteTalks, centralTalks>>
  BY DEF CentralAdds
<1> DEFINE row == [talk |-> t, number |-> NextNumber(centralRows, t), by |-> "central"]
<1>2. row \in Version /\ row.number \notin Numbers(centralRows, row.talk)
  BY NextNumberFresh DEF Version, RowsStand
<1>3. FreshId \in Nat \ {0} /\ FreshId \notin DOMAIN siteRows /\ FreshId \notin DOMAIN centralRows
  BY DrawnTyped
<1>5. Rows(centralRows') /\ JustAdded(centralRows, FreshId, row, centralRows')
  <2>1. centralRows' = With(centralRows, FreshId, row) /\ Rows(centralRows)
    BY <1>1 DEF RowsStand
  <2> HIDE DEF row
  <2> QED
    BY <1>2, <1>3, <2>1, RowAdded
<1>6. Grows
  BY <1>1, <1>5 DEF Grows, JustAdded
<1>7. RowsReported' /\ versionReports' \in Seq(Report)
  BY <1>1, <1>3, <1>5 DEF RowsStand, RowsReported, JustAdded
<1>8. IdsDrawn'
  <2>1. FreshId..(FreshId + 1 - 1) = {FreshId} /\ FreshId + 1 - 1 \in 0..MaxVersions
    BY <1>1, <1>3, VersionBounds DEF Ids
  <2> QED
    BY <1>1, <1>5, <2>1, DrawnNext DEF JustAdded
<1>9. DOMAIN siteRows' \subseteq Ids /\ DOMAIN centralRows' \subseteq Ids
  BY <1>1, <1>5 DEF RowsStand, JustAdded
<1>10. \A v \in DOMAIN siteRows' \cap DOMAIN centralRows' : siteRows'[v] = centralRows'[v]
  BY <1>1, <1>3, <1>5 DEF RowsStand, JustAdded
<1>11. Rows(siteRows)'
  BY <1>1 DEF RowsStand, Rows, OneRowEach
<1> QED
  BY <1>5, <1>6, <1>7, <1>8, <1>9, <1>10, <1>11 DEF RowsStand, Rows, OneRowEach, JustAdded

LEMMA ReportStands ==
    ASSUME RowsStand, apply_site_event
    PROVE  RowsStand' /\ Grows
<1> DEFINE report == Head(versionReports)
<1>1. /\ versionReports # <<>> /\ ReportApplicable(report) /\ versionReports' = Tail(versionReports)
      /\ UNCHANGED siteRows
  BY DEF apply_site_event
<1>2. /\ Len(versionReports) \in Nat /\ Len(versionReports) >= 1 /\ report = versionReports[1]
      /\ versionReports' \in Seq(Report) /\ Len(versionReports') = Len(versionReports) - 1
      /\ \A i \in 1..(Len(versionReports) - 1) : versionReports'[i] = versionReports[i + 1]
      /\ DOMAIN versionReports = 1..Len(versionReports) /\ report \in Report
  BY <1>1, QueueParts DEF RowsStand
<1>3. DOMAIN versionReports' = 1..(Len(versionReports) - 1)
  BY <1>2, QueueParts
<1>4. \A i \in DOMAIN versionReports' : i + 1 \in DOMAIN versionReports /\ versionReports'[i] = versionReports[i + 1]
  BY <1>2, <1>3
<1>5. \A i \in DOMAIN versionReports :
          i # 1 => i - 1 \in DOMAIN versionReports' /\ versionReports'[i - 1] = versionReports[i]
  BY <1>2, <1>3
<1>6. IF report.kind = "talk" THEN report.id = NoVersion
      ELSE /\ report.id \in DOMAIN siteRows
           /\ siteRows[report.id].talk = report.talk /\ siteRows[report.id].by = "site"
  BY <1>2 DEF RowsStand, RowsReported
<1>7. Rows(siteRows)' /\ DOMAIN siteRows' \subseteq Ids
  BY <1>1 DEF RowsStand, Rows, OneRowEach
<1> DEFINE Told(v) == v \in DOMAIN centralRows' \/ \E i \in DOMAIN versionReports' : versionReports'[i].id = v
<1>8. ASSUME \A v \in DOMAIN centralRows : v \in DOMAIN centralRows',
             \A v \in DOMAIN centralRows' : v \notin DOMAIN centralRows => v = report.id /\ report.kind # "talk",
             report.kind # "talk" => report.id \in DOMAIN centralRows'
      PROVE  RowsReported'
  <2>1. ASSUME NEW v \in DOMAIN siteRows
        PROVE  \/ siteRows[v].by = "snapshot" /\ v \notin DOMAIN centralRows'
               \/ siteRows[v].by = "site" /\ Told(v)
    <3>1. CASE siteRows[v].by = "snapshot" /\ v \notin DOMAIN centralRows
      BY <1>6, <1>8, <3>1
    <3>2. CASE siteRows[v].by = "site" /\ v \in DOMAIN centralRows
      BY <1>8, <3>2
    <3>3. CASE siteRows[v].by = "site" /\ \E i \in DOMAIN versionReports : versionReports[i].id = v
      <4>1. PICK i \in DOMAIN versionReports : versionReports[i].id = v
        BY <3>3
      <4>2. CASE i = 1
        <5>1. v = report.id /\ v # NoVersion
          BY <1>2, <4>1, <4>2 DEF RowsStand, Ids, NoVersion
        <5> QED
          BY <1>6, <1>8, <3>3, <5>1
      <4>3. CASE i # 1
        BY <1>5, <3>3, <4>1, <4>3 DEF JustAdded
      <4> QED
        BY <4>2, <4>3
    <3> QED
      BY <3>1, <3>2, <3>3 DEF RowsStand, RowsReported
  <2>2. ASSUME NEW i \in DOMAIN versionReports'
        PROVE  IF versionReports'[i].kind = "talk" THEN versionReports'[i].id = NoVersion
               ELSE /\ versionReports'[i].id \in DOMAIN siteRows
                    /\ siteRows[versionReports'[i].id].talk = versionReports'[i].talk
                    /\ siteRows[versionReports'[i].id].by = "site"
    BY <1>4 DEF RowsStand, RowsReported
  <2> QED
    BY <1>1, <2>1, <2>2 DEF RowsReported
<1>9. CASE report.kind = "talk"
  <2>1. UNCHANGED centralRows
    BY <1>9 DEF apply_site_event
  <2>2. RowsReported'
    BY <1>8, <1>9, <2>1
  <2>3. IdsDrawn' /\ Rows(centralRows)'
    BY <1>1, <2>1 DEF RowsStand, IdsDrawn, Rows, OneRowEach
  <2> QED
    BY <1>1, <1>2, <1>7, <2>1, <2>2, <2>3 DEF RowsStand, Grows
<1>10. CASE report.kind # "talk"
  <2> DEFINE id == report.id
             row == siteRows[id]
  <2>1. /\ centralRows' = With(centralRows, id, row) /\ report.talk \in centralTalks
        /\ row.number \notin Numbers(centralRows, report.talk) /\ id \in DOMAIN siteRows
        /\ row.talk = report.talk
    BY <1>1, <1>6, <1>10 DEF apply_site_event, ReportApplicable
  <2>2. row \in Version
    BY <2>1 DEF RowsStand, Rows
  <2>3. id \notin DOMAIN centralRows
    BY <2>1 DEF RowsStand, Numbers
  <2>4. Rows(centralRows') /\ JustAdded(centralRows, id, row, centralRows')
    <3>1. Rows(centralRows) /\ row.number \notin Numbers(centralRows, row.talk)
      BY <2>1 DEF RowsStand
    <3> HIDE DEF row, id
    <3> QED
      BY <2>1, <2>2, <2>3, <3>1, RowAdded
  <2>5. RowsReported'
    BY <1>8, <1>10, <2>4 DEF JustAdded
  <2>6. IdsDrawn'
    <3>1. DOMAIN siteRows' \cup DOMAIN centralRows' = DOMAIN siteRows \cup DOMAIN centralRows
      BY <1>1, <2>1, <2>4 DEF JustAdded
    <3> QED
      BY <3>1 DEF RowsStand, IdsDrawn
  <2>7. \A v \in DOMAIN siteRows' \cap DOMAIN centralRows' : siteRows'[v] = centralRows'[v]
    BY <1>1, <2>4 DEF RowsStand, JustAdded
  <2>8. DOMAIN centralRows' \subseteq Ids /\ Grows
    BY <1>1, <2>1, <2>4 DEF RowsStand, Grows, JustAdded
  <2> QED
    BY <1>2, <1>7, <2>4, <2>5, <2>6, <2>7, <2>8 DEF RowsStand, Rows, OneRowEach, JustAdded
<1> QED
  BY <1>9, <1>10
\* A report of a presentation, and a step that touches no row.
LEMMA TalkStands ==
    ASSUME RowsStand, SiteAddsTalk \/ NoRows
    PROVE  RowsStand' /\ Grows
<1>1. UNCHANGED <<siteRows, centralRows>>
  BY DEF SiteAddsTalk, NoRows
<1>2. Grows
  BY <1>1 DEF Grows
<1>3. RowsReported' /\ versionReports' \in Seq(Report)
  <2>1. CASE SiteAddsTalk
    <3>1. PICK t \in Talks : Reported("talk", NoVersion, t)
      BY <2>1 DEF SiteAddsTalk
    <3> QED
      BY <1>1, <1>2, <3>1, ReportAppended
  <2>2. CASE NoRows
    BY <2>2 DEF NoRows, RowsStand, RowsReported
  <2> QED
    BY <2>1, <2>2
<1>4. Rows(siteRows)' /\ Rows(centralRows)' /\ IdsDrawn'
  BY <1>1 DEF RowsStand, Rows, OneRowEach, IdsDrawn
<1> QED
  BY <1>1, <1>2, <1>3, <1>4 DEF RowsStand

LEMMA SetToSeqDistinct ==
    ASSUME NEW S, IsFiniteSet(S)
    PROVE  \A i, j \in 1..Cardinality(S) : SetToSeq(S)[i] = SetToSeq(S)[j] => i = j
<1>1. Cardinality(S) \in Nat /\ ExistsBijection(1..Cardinality(S), S)
  BY FS_CardinalityType
<1>2. \E f \in [1..Cardinality(S) -> S] : IsInjective(f)
  BY <1>1 DEF ExistsBijection, Bijection, Injection, IsInjective
<1>3. SetToSeq(S) \in [1..Cardinality(S) -> S] /\ IsInjective(SetToSeq(S))
  BY <1>2 DEF SetToSeq
<1> QED
  BY <1>3 DEF IsInjective

\* What a snapshot lists and the Site does not have: rows of Central's, so finitely many.
Lists(numbers) ==
    DOMAIN numbers \subseteq Talks /\ \A t \in DOMAIN numbers : numbers[t] \subseteq Numbers(centralRows, t)

LEMMA MissingParts ==
    ASSUME RowsStand, NEW numbers, Lists(numbers)
    PROVE  /\ IsFiniteSet(Missing(numbers))
           /\ \A m \in Missing(numbers) : /\ m = <<m[1], m[2]>> /\ m[1] \in Talks /\ m[2] \in Nat \ {0}
                                          /\ m[2] \notin Numbers(siteRows, m[1])
<1> DEFINE g == [v \in DOMAIN centralRows |-> <<centralRows[v].talk, centralRows[v].number>>]
           I == {g[v] : v \in DOMAIN centralRows}
<1>1. g \in Surjection(DOMAIN centralRows, I)
  BY DEF Surjection
<1>2. IsFiniteSet(I)
  BY <1>1, FS_Surjection DEF RowsStand, Rows
<1>3. ASSUME NEW m \in Missing(numbers)
      PROVE  /\ m \in I /\ m = <<m[1], m[2]>> /\ m[1] \in Talks /\ m[2] \in Nat \ {0}
             /\ m[2] \notin Numbers(siteRows, m[1])
  <2>1. PICK t \in DOMAIN numbers : m \in {t} \X (numbers[t] \ Numbers(siteRows, t))
    BY DEF Missing
  <2>2. PICK n \in numbers[t] \ Numbers(siteRows, t) : m = <<t, n>>
    BY <2>1
  <2>3. PICK v \in DOMAIN centralRows : centralRows[v].talk = t /\ centralRows[v].number = n
    BY <2>2 DEF Lists, Numbers
  <2>4. n \in Nat \ {0} /\ t \in Talks
    BY <2>3 DEF RowsStand, Rows, Version
  <2> QED
    BY <2>2, <2>3, <2>4
<1>4. Missing(numbers) \subseteq I
  BY <1>3
<1> QED
  BY <1>2, <1>3, <1>4, FS_Subset

LEMMA SnapshotStands ==
    ASSUME RowsStand, NEW numbers, Lists(numbers), ApplyNumbers(numbers), UNCHANGED <<centralRows, versionReports>>
    PROVE  RowsStand' /\ Grows
<1> DEFINE M == Missing(numbers)
           k == Cardinality(M)
           new == SetToSeq(M)
           copies == {FreshId + i - 1 : i \in DOMAIN new}
           at(v) == new[v - FreshId + 1]
<1>1. IsFiniteSet(M) /\ k \in Nat /\ new \in [1..k -> M] /\ \A i, j \in 1..k : new[i] = new[j] => i = j
  BY MissingParts, SetToSeqTyped, SetToSeqDistinct
<1>2. /\ copies \subseteq Ids
      /\ siteRows' = [v \in DOMAIN siteRows \cup copies |->
             IF v \in DOMAIN siteRows THEN siteRows[v]
             ELSE [talk |-> new[v - FreshId + 1][1], number |-> new[v - FreshId + 1][2], by |-> "snapshot"]]
  BY DEF ApplyNumbers
<1>3. /\ FreshId \in Nat \ {0} /\ DOMAIN siteRows \cup DOMAIN centralRows = 1..(FreshId - 1)
  BY DrawnTyped
<1>4. \A m \in M : /\ m = <<m[1], m[2]>> /\ m[1] \in Talks /\ m[2] \in Nat \ {0}
                   /\ m[2] \notin Numbers(siteRows, m[1])
  BY MissingParts
<1> HIDE DEF M, k, new
<1>5. copies = FreshId..(FreshId + k - 1)
  <2>1. DOMAIN new = 1..k
    BY <1>1
  <2>2. \A i \in 1..k : FreshId + i - 1 \in FreshId..(FreshId + k - 1)
    BY <1>1, <1>3
  <2>3. ASSUME NEW v \in FreshId..(FreshId + k - 1)
        PROVE  v \in copies
    <3>1. v - FreshId + 1 \in 1..k /\ v = FreshId + (v - FreshId + 1) - 1
      BY <1>1, <1>3
    <3> QED
      BY <2>1, <3>1
  <2> QED
    BY <2>1, <2>2, <2>3
<1>6. ASSUME NEW v \in copies
      PROVE  /\ v - FreshId + 1 \in 1..k /\ at(v) \in M /\ v \notin DOMAIN siteRows /\ v \notin DOMAIN centralRows
             /\ v \in Int
  <2>1. v \in FreshId..(FreshId + k - 1)
    BY <1>5
  <2>2. v - FreshId + 1 \in 1..k /\ v \notin 1..(FreshId - 1) /\ v \in Int
    BY <1>1, <1>3, <2>1
  <2> QED
    BY <1>1, <1>3, <2>2
<1> HIDE DEF copies
<1>7. /\ DOMAIN siteRows' = DOMAIN siteRows \cup copies
      /\ \A v \in DOMAIN siteRows : siteRows'[v] = siteRows[v]
      /\ \A v \in copies : siteRows'[v] = [talk |-> at(v)[1], number |-> at(v)[2], by |-> "snapshot"]
  BY <1>2, <1>6
<1>8. \A v \in copies : /\ siteRows'[v] \in Version /\ siteRows'[v].by = "snapshot"
                        /\ siteRows'[v].talk = at(v)[1] /\ siteRows'[v].number = at(v)[2]
                        /\ siteRows'[v].number \notin Numbers(siteRows, siteRows'[v].talk)
  BY <1>4, <1>6, <1>7 DEF Version
<1>9. OneRowEach(siteRows')
  <2> SUFFICES ASSUME NEW x \in DOMAIN siteRows', NEW y \in DOMAIN siteRows', x # y,
                      siteRows'[x].talk = siteRows'[y].talk, siteRows'[x].number = siteRows'[y].number
               PROVE  FALSE
    BY DEF OneRowEach
  <2>1. CASE x \in DOMAIN siteRows /\ y \in DOMAIN siteRows
    BY <1>7, <2>1 DEF RowsStand, Rows, OneRowEach
  <2>2. CASE x \in copies /\ y \in copies
    <3>1. at(x)[1] = at(y)[1] /\ at(x)[2] = at(y)[2] /\ at(x) \in M /\ at(y) \in M
      BY <1>6, <1>8, <2>2
    <3>2. at(x) = at(y)
      BY <1>4, <3>1
    <3>3. x - FreshId + 1 = y - FreshId + 1
      BY <1>1, <1>6, <2>2, <3>2
    <3> QED
      BY <1>3, <1>6, <2>2, <3>3
  <2>3. ASSUME NEW v \in copies, NEW w \in DOMAIN siteRows, siteRows'[v].talk = siteRows'[w].talk,
               siteRows'[v].number = siteRows'[w].number
        PROVE  FALSE
    <3>1. siteRows'[v].number \in Numbers(siteRows, siteRows'[v].talk)
      BY <1>7, <2>3 DEF Numbers
    <3> QED
      BY <1>8, <3>1
  <2> QED
    BY <1>7, <2>1, <2>2, <2>3
<1>10. Rows(siteRows')
  <2>1. IsFiniteSet(copies)
    BY <1>1, <1>3, <1>5, FS_Interval
  <2>2. IsFiniteSet(DOMAIN siteRows')
    BY <1>7, <2>1, FS_Union DEF RowsStand, Rows
  <2>3. \A v \in DOMAIN siteRows' : siteRows'[v] \in Version
    BY <1>7, <1>8 DEF RowsStand, Rows
  <2> QED
    BY <1>9, <2>2, <2>3 DEF Rows
<1>11. Grows
  BY <1>7 DEF Grows
<1>12. RowsReported'
  <2>1. ASSUME NEW i \in DOMAIN versionReports'
        PROVE  IF versionReports'[i].kind = "talk" THEN versionReports'[i].id = NoVersion
               ELSE /\ versionReports'[i].id \in DOMAIN siteRows'
                    /\ siteRows'[versionReports'[i].id].talk = versionReports'[i].talk
                    /\ siteRows'[versionReports'[i].id].by = "site"
    BY <1>7 DEF RowsStand, RowsReported
  <2>2. ASSUME NEW v \in DOMAIN siteRows'
        PROVE  \/ siteRows'[v].by = "snapshot" /\ v \notin DOMAIN centralRows'
               \/ /\ siteRows'[v].by = "site"
                  /\ v \in DOMAIN centralRows' \/ \E i \in DOMAIN versionReports' : versionReports'[i].id = v
    <3>1. CASE v \in DOMAIN siteRows
      BY <1>7, <3>1 DEF RowsStand, RowsReported
    <3>2. CASE v \in copies
      BY <1>6, <1>8, <3>2
    <3> QED
      BY <1>7, <3>1, <3>2
  <2> QED
    BY <2>1, <2>2 DEF RowsReported
<1>13. IdsDrawn'
  <2>1. FreshId + k - 1 \in 0..MaxVersions
    <3>1. CASE k = 0
      <4>1. FreshId - 1 \in Nat
        BY <1>3
      <4>2. CASE FreshId - 1 = 0
        BY <1>3, <3>1, <4>2, VersionBounds
      <4>3. CASE FreshId - 1 # 0
        <5>1. FreshId - 1 \in 1..(FreshId - 1)
          BY <1>3, <4>1, <4>3
        <5>2. FreshId - 1 \in Ids
          BY <1>3, <5>1 DEF RowsStand
        <5> QED
          BY <1>3, <3>1, <5>2, VersionBounds DEF Ids
      <4> QED
        BY <4>2, <4>3
    <3>2. CASE k # 0
      <4>1. FreshId + k - 1 \in FreshId..(FreshId + k - 1)
        BY <1>1, <1>3, <3>2
      <4> QED
        BY <1>2, <1>5, <4>1, VersionBounds DEF Ids
    <3> QED
      BY <3>1, <3>2
  <2>2. DOMAIN siteRows' \cup DOMAIN centralRows' = DOMAIN siteRows \cup DOMAIN centralRows \cup (FreshId..(FreshId + k - 1))
    BY <1>5, <1>7
  <2> QED
    BY <1>1, <2>1, <2>2, DrawnNext
<1>14. \A v \in DOMAIN siteRows' \cap DOMAIN centralRows' : siteRows'[v] = centralRows'[v]
  BY <1>6, <1>7 DEF RowsStand
<1>15. DOMAIN siteRows' \subseteq Ids /\ DOMAIN centralRows' \subseteq Ids
  BY <1>2, <1>7 DEF RowsStand
<1>16. Rows(centralRows')
  BY DEF RowsStand
<1> QED
  BY <1>10, <1>11, <1>12, <1>13, <1>14, <1>15, <1>16 DEF RowsStand, Rows, OneRowEach
-----------------------------------------------------------------------------
(* Versions: the presentations and the snapshots.                          *)

TalksStand ==
    /\ \A t \in DOMAIN siteTalks : siteTalks[t] \in BOOLEAN
    /\ centralTalks \subseteq Talks /\ DOMAIN siteTalks \cup listed \subseteq Talks
    /\ snapshots \in Seq(Range(snapshots)) /\ snapshotsMade \in 0..MaxFeed
    /\ SnapshotsGrow /\ ListedStand /\ HiddenOnlyBeforeListed

LEMMA NumbersKept ==
    ASSUME Grows, NEW t
    PROVE  Numbers(centralRows, t) \subseteq Numbers(centralRows', t)
<1> SUFFICES ASSUME NEW v \in DOMAIN centralRows, centralRows[v].talk = t
             PROVE  centralRows[v].number \in Numbers(centralRows', t)
  BY DEF Numbers
<1>1. v \in DOMAIN centralRows' /\ centralRows'[v] = centralRows[v]
  BY DEF Grows
<1> QED
  BY <1>1 DEF Numbers

LEMMA HeadLists ==
    ASSUME TalksStand, snapshots # <<>>
    PROVE  Lists(Head(snapshots))
<1>1. Len(snapshots) \in Nat /\ Len(snapshots) >= 1 /\ Head(snapshots) = snapshots[1]
  BY QueueParts DEF TalksStand
<1>2. 1 \in 1..Len(snapshots)
  BY <1>1
<1> QED
  BY <1>1, <1>2 DEF TalksStand, SnapshotsGrow, ListedStand, Lists

\* Central gets a presentation, or the step is about something else.
LEMMA QuietTalks ==
    ASSUME TalksStand, Grows, UNCHANGED <<siteTalks, snapshots, snapshotsMade, listed>>,
           centralTalks \subseteq centralTalks', centralTalks' \subseteq Talks
    PROVE  TalksStand'
<1>1. SnapshotsGrow'
  <2> SUFFICES ASSUME NEW i \in 1..Len(snapshots)
               PROVE  /\ listed \subseteq DOMAIN snapshots[i]
                      /\ \A j \in 1..i : DOMAIN snapshots[j] \subseteq DOMAIN snapshots[i]
                      /\ \A t \in DOMAIN snapshots[i] : snapshots[i][t] \subseteq Numbers(centralRows', t)
    BY DEF SnapshotsGrow
  <2>1. \A t \in DOMAIN snapshots[i] : snapshots[i][t] \subseteq Numbers(centralRows, t)
    BY DEF TalksStand, SnapshotsGrow
  <2>2. \A t \in DOMAIN snapshots[i] : snapshots[i][t] \subseteq Numbers(centralRows', t)
    BY <2>1, NumbersKept
  <2> QED
    BY <2>2 DEF TalksStand, SnapshotsGrow
<1>2. ListedStand'
  BY DEF TalksStand, ListedStand
<1> QED
  BY <1>1, <1>2 DEF TalksStand, HiddenOnlyBeforeListed

LEMMA LocalTalkStands ==
    ASSUME TalksStand, NEW t \in Talks, create_local_presentation(t)
    PROVE  TalksStand'
<1>1. /\ t \notin DOMAIN siteTalks /\ DOMAIN siteTalks' = DOMAIN siteTalks \cup {t} /\ siteTalks'[t] = TRUE
      /\ \A u \in DOMAIN siteTalks : siteTalks'[u] = siteTalks[u]
  BY DEF create_local_presentation, With
<1>2. UNCHANGED <<centralTalks, centralRows, snapshots, snapshotsMade, listed>>
  BY DEF create_local_presentation
<1>3. SnapshotsGrow'
  BY <1>2 DEF TalksStand, SnapshotsGrow
<1>4. ListedStand'
  BY <1>1, <1>2 DEF TalksStand, ListedStand
<1>5. HiddenOnlyBeforeListed'
  BY <1>1, <1>2 DEF TalksStand, ListedStand, HiddenOnlyBeforeListed
<1> QED
  BY <1>1, <1>2, <1>3, <1>4, <1>5 DEF TalksStand

LEMMA PushStands ==
    ASSUME TalksStand, push_snapshot
    PROVE  TalksStand'
<1> DEFINE new == [t \in centralTalks |-> Numbers(centralRows, t)]
           S == Range(snapshots) \cup {new}
           n == Len(snapshots)
<1>1. snapshots' = Append(snapshots, new) /\ UNCHANGED <<siteTalks, centralTalks, centralRows, listed>>
  BY DEF push_snapshot
<1>2. /\ DOMAIN new = centralTalks /\ \A t \in centralTalks : new[t] = Numbers(centralRows, t)
  OBVIOUS
<1>3. snapshotsMade' \in 0..MaxFeed
  BY VersionBounds DEF push_snapshot, TalksStand
<1> HIDE DEF new
<1>4. snapshots \in Seq(S) /\ new \in S
  <2>1. Range(snapshots) \subseteq S
    OBVIOUS
  <2> QED
    BY <2>1 DEF TalksStand
<1> HIDE DEF S
<1>5. /\ n \in Nat /\ snapshots' \in Seq(S) /\ Len(snapshots') = n + 1 /\ snapshots'[n + 1] = new
      /\ \A i \in 1..n : snapshots'[i] = snapshots[i]
  BY <1>1, <1>4, QueueParts
<1>6. snapshots' \in Seq(Range(snapshots'))
  BY <1>5 DEF Range
<1>7. \A i \in 1..Len(snapshots') : i = n + 1 \/ (i \in 1..n /\ snapshots'[i] = snapshots[i])
  BY <1>5
<1> HIDE DEF n
<1>8. SnapshotsGrow'
  <2> SUFFICES ASSUME NEW i \in 1..Len(snapshots')
               PROVE  /\ listed \subseteq DOMAIN snapshots'[i]
                      /\ \A j \in 1..i : DOMAIN snapshots'[j] \subseteq DOMAIN snapshots'[i]
                      /\ \A t \in DOMAIN snapshots'[i] : snapshots'[i][t] \subseteq Numbers(centralRows, t)
    BY <1>1 DEF SnapshotsGrow
  <2>1. CASE i = n + 1
    <3>1. \A j \in 1..i : DOMAIN snapshots'[j] \subseteq centralTalks
      BY <1>2, <1>5, <1>7, <2>1 DEF TalksStand, ListedStand, n
    <3> QED
      BY <1>2, <1>5, <2>1, <3>1 DEF TalksStand, ListedStand
  <2>2. CASE i \in 1..n
    <3>1. \A j \in 1..i : j \in 1..n /\ snapshots'[j] = snapshots[j]
      BY <1>5, <2>2
    <3> QED
      BY <1>5, <2>2, <3>1 DEF TalksStand, SnapshotsGrow, n
  <2> QED
    BY <1>7, <2>1, <2>2
<1>9. ListedStand'
  BY <1>1, <1>2, <1>5, <1>7 DEF TalksStand, ListedStand, n
<1> QED
  BY <1>1, <1>3, <1>6, <1>8, <1>9 DEF TalksStand, HiddenOnlyBeforeListed

LEMMA SnapshotAppliedStands ==
    ASSUME TalksStand, apply_central_event
    PROVE  TalksStand'
<1> DEFINE numbers == Head(snapshots)
           n == Len(snapshots)
<1>1. /\ snapshots # <<>> /\ snapshots' = Tail(snapshots) /\ listed' = listed \cup DOMAIN numbers
      /\ siteTalks' = [t \in DOMAIN siteTalks \cup DOMAIN numbers |-> t \in Listed(numbers)]
      /\ UNCHANGED <<centralTalks, centralRows, snapshotsMade>>
  BY DEF apply_central_event, ApplyNumbers
<1>2. /\ n \in Nat /\ n >= 1 /\ numbers = snapshots[1] /\ Len(snapshots') = n - 1
      /\ snapshots' \in Seq(Range(snapshots))
      /\ \A i \in 1..(n - 1) : snapshots'[i] = snapshots[i + 1]
  BY <1>1, QueueParts DEF TalksStand
<1>3. 1 \in 1..n /\ \A i \in 1..(n - 1) : i + 1 \in 1..n /\ 1 \in 1..(i + 1) /\ \A j \in 1..i : j + 1 \in 1..(i + 1) /\ j \in 1..(n - 1)
  BY <1>2
<1>4. Lists(numbers)
  BY <1>1, HeadLists
<1>5. listed \subseteq DOMAIN numbers /\ DOMAIN numbers \subseteq centralTalks
  BY <1>2, <1>3 DEF TalksStand, SnapshotsGrow, ListedStand
<1>6. snapshots' \in Seq(Range(snapshots'))
  BY <1>2 DEF Range
<1>7. SnapshotsGrow'
  <2> SUFFICES ASSUME NEW i \in 1..(n - 1)
               PROVE  /\ listed' \subseteq DOMAIN snapshots'[i]
                      /\ \A j \in 1..i : DOMAIN snapshots'[j] \subseteq DOMAIN snapshots'[i]
                      /\ \A t \in DOMAIN snapshots'[i] : snapshots'[i][t] \subseteq Numbers(centralRows, t)
    BY <1>1, <1>2 DEF SnapshotsGrow
  <2>1. snapshots'[i] = snapshots[i + 1] /\ i + 1 \in 1..n /\ 1 \in 1..(i + 1)
    BY <1>2, <1>3
  <2>2. listed' \subseteq DOMAIN snapshots'[i]
    BY <1>1, <1>2, <2>1 DEF TalksStand, SnapshotsGrow
  <2>3. \A j \in 1..i : snapshots'[j] = snapshots[j + 1] /\ j + 1 \in 1..(i + 1)
    BY <1>2, <1>3
  <2> QED
    BY <2>1, <2>2, <2>3 DEF TalksStand, SnapshotsGrow
<1>8. ListedStand'
  <2>1. listed' \subseteq DOMAIN siteTalks' \cap centralTalks'
    BY <1>1, <1>5 DEF TalksStand, ListedStand
  <2>2. \A i \in 1..Len(snapshots') : DOMAIN snapshots'[i] \subseteq centralTalks
    BY <1>2, <1>3 DEF TalksStand, ListedStand
  <2> QED
    BY <1>1, <2>1, <2>2 DEF ListedStand
<1>9. HiddenOnlyBeforeListed'
  BY <1>1, <1>5 DEF HiddenOnlyBeforeListed, Listed
<1>10. \A t \in DOMAIN siteTalks' : siteTalks'[t] \in BOOLEAN
  <2> SUFFICES ASSUME NEW t \in DOMAIN siteTalks' PROVE siteTalks'[t] \in BOOLEAN
    OBVIOUS
  <2>1. siteTalks'[t] = (t \in Listed(numbers))
    BY <1>1, Zenon
  <2>2. (t \in Listed(numbers)) \in BOOLEAN
    OBVIOUS
  <2> QED
    BY <2>1, <2>2, Zenon
<1>11. DOMAIN siteTalks' \cup listed' \subseteq Talks
  BY <1>1, <1>4 DEF TalksStand, Lists
<1> QED
  BY <1>1, <1>6, <1>7, <1>8, <1>9, <1>10, <1>11 DEF TalksStand
-----------------------------------------------------------------------------
(* Versions: the files of the Site.                                        *)

FileType == [availability: {"NONE", "STAGING", "FINALIZING", "AVAILABLE", "FAILED"},
             hashed: BOOLEAN, job: {"NONE", "PENDING", "SUCCEEDED"}, confirmed: Ids \cup {NoVersion}]

FilesTyped ==
    intake \in [MediaIds -> FileType] /\ originals \subseteq (DOMAIN siteRows) \X MediaIds /\ early \subseteq MediaIds

\* What IntakeLinked, NothingForgotten and ReplicatedUnderSiteVersion say of one file.
FileStands(f) ==
    /\ intake[f].availability = "NONE" => intake[f] = Unreceived /\ VersionOf(f) = {}
    /\ intake[f].availability \in {"FINALIZING", "AVAILABLE"} => intake[f].hashed
    /\ intake[f].job # "NONE" => VersionOf(f) # {}
    /\ intake[f].confirmed # NoVersion => intake[f].confirmed \in VersionOf(f)
    /\ VersionOf(f) # {} =>
           /\ intake[f].availability = "AVAILABLE" => intake[f].job # "NONE"
           /\ intake[f].job # "NONE" => intake[f].availability = "AVAILABLE" \/ f \in early
    /\ intake[f].job = "SUCCEEDED" =>
           \A v \in VersionOf(f) : siteRows[v].by = "site" /\ v \in DOMAIN centralRows

FilesStand == FilesTyped /\ OriginalsUnique /\ \A f \in MediaIds : FileStands(f)

LEMMA FilesAre ==
    FilesStand <=> FilesTyped /\ OriginalsUnique /\ IntakeLinked /\ NothingForgotten /\ ReplicatedUnderSiteVersion
BY DEF FilesStand, FileStands, IntakeLinked, NothingForgotten, ReplicatedUnderSiteVersion

LEMMA Linked ==
    ASSUME FilesTyped, NEW f
    PROVE  \A v : v \in VersionOf(f) <=> <<v, f>> \in originals
BY DEF FilesTyped, VersionOf

\* A file whose row and whose original the step leaves alone.
LEMMA OtherFile ==
    ASSUME Grows, NEW f \in MediaIds, FileStands(f), UNCHANGED intake[f], VersionOf(f)' = VersionOf(f),
           f \in early => f \in early'
    PROVE  FileStands(f)'
<1>1. \A v \in VersionOf(f) : v \in DOMAIN siteRows /\ siteRows'[v] = siteRows[v]
  BY DEF VersionOf, Grows
<1>2. intake'[f].job = "SUCCEEDED" =>
           \A v \in VersionOf(f)' : siteRows'[v].by = "site" /\ v \in DOMAIN centralRows'
  BY <1>1 DEF FileStands, Grows
<1> QED
  BY <1>2 DEF FileStands

LEMMA SameOriginals ==
    ASSUME FilesTyped, FilesTyped', UNCHANGED originals, NEW f
    PROVE  VersionOf(f)' = VersionOf(f)
<1>1. \A v : v \in VersionOf(f) <=> <<v, f>> \in originals
  BY Linked
<1>2. \A v : v \in VersionOf(f)' <=> <<v, f>> \in originals'
  BY DEF FilesTyped, VersionOf
<1> QED
  BY <1>1, <1>2

LEMMA FilesIdle ==
    ASSUME FilesStand, Grows, UNCHANGED <<intake, originals, early>>
    PROVE  FilesStand'
<1>1. FilesTyped'
  BY DEF FilesStand, FilesTyped, Grows
<1>2. ASSUME NEW f \in MediaIds PROVE FileStands(f)'
  BY <1>1, SameOriginals, OtherFile DEF FilesStand
<1> QED
  BY <1>1, <1>2 DEF FilesStand, OriginalsUnique
\* One file's row is written and no original.
LEMMA RowWritten ==
    ASSUME FilesStand, NEW f \in MediaIds, NEW row \in FileType, intake' = [intake EXCEPT ![f] = row],
           UNCHANGED <<originals, early, siteRows, centralRows>>, FileStands(f)'
    PROVE  FilesStand'
<1>1. Grows
  BY DEF Grows
<1>2. FilesTyped'
  BY DEF FilesStand, FilesTyped
<1>3. ASSUME NEW g \in MediaIds PROVE FileStands(g)'
  <2>1. CASE g = f
    BY <2>1
  <2>2. CASE g # f
    <3>1. intake'[g] = intake[g]
      BY <2>2 DEF FilesStand, FilesTyped
    <3> QED
      BY <1>1, <1>2, <3>1, SameOriginals, OtherFile DEF FilesStand
  <2> QED
    BY <2>1, <2>2
<1> QED
  BY <1>2, <1>3 DEF FilesStand, OriginalsUnique

\* The upload goes on, succeeds or breaks off.
LEMMA UploadStands ==
    ASSUME FilesStand, NEW f \in MediaIds, Hashed(f) \/ MarkAvailable(f) \/ _record_upload_failure(f)
    PROVE  FilesStand'
<1> DEFINE V == VersionOf(f)
<1>1. /\ intake[f] \in FileType /\ FileStands(f) /\ intake \in [MediaIds -> FileType]
      /\ UNCHANGED <<originals, early, siteRows, centralRows>>
  BY DEF FilesStand, FilesTyped, Hashed, MarkAvailable, _record_upload_failure
<1>2. VersionOf(f)' = V
  BY <1>1 DEF VersionOf
<1>3. CASE Hashed(f)
  <2> DEFINE row == [intake[f] EXCEPT !.availability = "FINALIZING", !.hashed = TRUE]
  <2>1. intake' = [intake EXCEPT ![f] = row] /\ row \in FileType /\ intake'[f] = row
    BY <1>1, <1>3 DEF Hashed, FileType
  <2>2. FileStands(f)'
    BY <1>1, <1>2, <1>3, <2>1 DEF Hashed, FileStands, FileType
  <2> QED
    BY <1>1, <2>1, <2>2, RowWritten
<1>4. CASE MarkAvailable(f)
  <2> DEFINE row == [intake[f] EXCEPT !.availability = "AVAILABLE", !.job = IF V # {} THEN "PENDING" ELSE @]
  <2>1. intake' = [intake EXCEPT ![f] = row] /\ row \in FileType /\ intake'[f] = row
    BY <1>1, <1>4 DEF MarkAvailable, FileType
  <2>2. FileStands(f)'
    BY <1>1, <1>2, <1>4, <2>1 DEF MarkAvailable, FileStands, FileType
  <2> QED
    BY <1>1, <2>1, <2>2, RowWritten
<1>5. CASE _record_upload_failure(f)
  <2> DEFINE row == [intake[f] EXCEPT !.availability = "FAILED"]
  <2>1. intake' = [intake EXCEPT ![f] = row] /\ row \in FileType /\ intake'[f] = row
    BY <1>1, <1>5 DEF _record_upload_failure, FileType
  <2>2. FileStands(f)'
    BY <1>1, <1>2, <1>5, <2>1 DEF _record_upload_failure, FileStands, FileType
  <2> QED
    BY <1>1, <2>1, <2>2, RowWritten
<1> QED
  BY <1>3, <1>4, <1>5

\* A file has one version, so the one it was replicated under is the only one.
LEMMA ReplicaStands ==
    ASSUME RowsStand, FilesStand, NEW f \in MediaIds, Replicated(f)
    PROVE  FilesStand'
<1> DEFINE row == [intake[f] EXCEPT !.job = "SUCCEEDED"]
<1>1. /\ intake[f] \in FileType /\ FileStands(f) /\ intake \in [MediaIds -> FileType]
      /\ UNCHANGED <<originals, early, siteRows, centralRows>>
  BY DEF FilesStand, FilesTyped, Replicated
<1>2. VersionOf(f)' = VersionOf(f)
  BY <1>1 DEF VersionOf
<1>3. intake' = [intake EXCEPT ![f] = row] /\ row \in FileType /\ intake'[f] = row
  BY <1>1 DEF Replicated, FileType
<1>4. PICK v \in VersionOf(f) : v \in DOMAIN centralRows
  BY DEF Replicated, Receivable
<1>5. ASSUME NEW w \in VersionOf(f) PROVE w = v
  <2>1. <<v, f>> \in originals /\ <<w, f>> \in originals
    BY DEF VersionOf
  <2> QED
    BY <2>1 DEF FilesStand, OriginalsUnique
<1>6. siteRows[v].by = "site"
  BY <1>4 DEF VersionOf, RowsStand, RowsReported
<1>7. \A w \in VersionOf(f) : siteRows[w].by = "site" /\ w \in DOMAIN centralRows
  BY <1>4, <1>5, <1>6
<1>8. FileStands(f)'
  BY <1>1, <1>2, <1>3, <1>7 DEF Replicated, FileStands, FileType
<1> QED
  BY <1>1, <1>3, <1>8, RowWritten
\* A file without an original gets a version without a file.
LEMMA LinkStands ==
    ASSUME FilesStand, Grows, NEW f \in MediaIds, NEW row \in FileType, intake' = [intake EXCEPT ![f] = row],
           NEW v \in DOMAIN siteRows', originals' = originals \cup {<<v, f>>},
           \A g : <<v, g>> \notin originals, VersionOf(f) = {}, early \subseteq early', early' \subseteq MediaIds,
           VersionOf(f)' = {v} => FileStands(f)'
    PROVE  FilesStand'
<1>1. FilesTyped'
  BY DEF FilesStand, FilesTyped, Grows
<1>2. \A g, w : w \in VersionOf(g)' <=> <<w, g>> \in originals'
  BY <1>1 DEF FilesTyped, VersionOf
<1>3. \A g, w : w \in VersionOf(g) <=> <<w, g>> \in originals
  BY Linked DEF FilesStand
<1>4. VersionOf(f)' = {v}
  BY <1>2, <1>3
<1>5. \A g : g # f => VersionOf(g)' = VersionOf(g)
  BY <1>2, <1>3
<1>6. ASSUME NEW g \in MediaIds PROVE FileStands(g)'
  <2>1. CASE g = f
    BY <1>4, <2>1
  <2>2. CASE g # f
    <3>1. intake'[g] = intake[g] /\ FileStands(g)
      BY <2>2 DEF FilesStand, FilesTyped
    <3> QED
      BY <1>5, <2>2, <3>1, OtherFile
  <2> QED
    BY <2>1, <2>2
<1>7. OriginalsUnique'
  <2> SUFFICES ASSUME NEW x \in originals', NEW y \in originals'
               PROVE  x[1] = y[1] <=> x[2] = y[2]
    BY DEF OriginalsUnique
  <2>1. \A z \in originals : z = <<z[1], z[2]>> /\ z[1] # v /\ z[2] # f
    <3> SUFFICES ASSUME NEW z \in originals PROVE z = <<z[1], z[2]>> /\ z[1] # v /\ z[2] # f
      OBVIOUS
    <3>1. z = <<z[1], z[2]>>
      BY DEF FilesStand, FilesTyped
    <3>2. z[1] \in VersionOf(z[2])
      BY <1>3, <3>1
    <3> QED
      BY <3>1, <3>2
  <2>2. CASE x \in originals /\ y \in originals
    BY <2>2 DEF FilesStand, OriginalsUnique
  <2> QED
    BY <2>1, <2>2
<1> QED
  BY <1>1, <1>6, <1>7 DEF FilesStand

LEMMA StagingStands ==
    ASSUME FilesStand, RowsStand, NEW f \in MediaIds, NEW v, _create_staging(f, v)
    PROVE  FilesStand'
<1> DEFINE row == [intake[f] EXCEPT !.availability = "STAGING"]
<1>1. /\ intake[f] \in FileType /\ FileStands(f) /\ intake \in [MediaIds -> FileType]
      /\ UNCHANGED <<early, siteRows, centralRows>>
  BY DEF FilesStand, FilesTyped, _create_staging
<1>2. intake[f].availability = "NONE" /\ intake[f] = Unreceived /\ VersionOf(f) = {}
  BY <1>1 DEF _create_staging, FileStands
<1>3. intake' = [intake EXCEPT ![f] = row] /\ row \in FileType /\ intake'[f] = row
  BY <1>1 DEF _create_staging, FileType
<1>4. /\ intake'[f].availability = "STAGING" /\ intake'[f].job = "NONE"
      /\ intake'[f].confirmed = NoVersion
  BY <1>2, <1>3 DEF Unreceived
<1>5. FileStands(f)'
  BY <1>4 DEF FileStands
<1>6. CASE v = NoVersion
  <2>1. UNCHANGED originals
    BY <1>6 DEF _create_staging
  <2> QED
    BY <1>1, <1>3, <1>5, <2>1, RowWritten
<1>7. CASE v # NoVersion
  <2>1. v \in DOMAIN siteRows /\ OriginalOf(v) = {} /\ originals' = originals \cup {<<v, f>>}
    BY <1>7 DEF _create_staging
  <2>2. \A g : <<v, g>> \notin originals
    BY <2>1 DEF OriginalOf, FilesStand, FilesTyped
  <2>3. Grows /\ v \in DOMAIN siteRows'
    BY <1>1, <2>1 DEF Grows
  <2>4. early \subseteq early' /\ early' \subseteq MediaIds
    BY <1>1 DEF FilesStand, FilesTyped
  <2> QED
    BY <1>2, <1>3, <1>5, <2>1, <2>2, <2>3, <2>4, LinkStands
<1> QED
  BY <1>6, <1>7

LEMMA ConfirmStands ==
    ASSUME FilesStand, RowsStand, Grows, NEW f \in MediaIds, NEW t, confirm_one(f, t)
    PROVE  FilesStand'
<1> DEFINE row == [intake[f] EXCEPT !.confirmed = FreshId, !.job = IF intake[f].hashed THEN "PENDING" ELSE @]
<1>1. /\ intake[f] \in FileType /\ FileStands(f) /\ intake \in [MediaIds -> FileType]
      /\ VersionOf(f) = {} /\ intake[f].availability # "NONE"
  BY DEF FilesStand, FilesTyped, confirm_one, Confirmable
<1>2. intake[f].confirmed = NoVersion /\ intake[f].job = "NONE"
  BY <1>1 DEF FileStands
<1>3. intake[f].confirmed \notin DOMAIN siteRows
  BY <1>2 DEF RowsStand, Ids, NoVersion
<1>4. /\ AddSiteVersion(t) /\ originals' = originals \cup {<<FreshId, f>>}
      /\ intake' = [intake EXCEPT ![f].confirmed = FreshId, ![f].job = IF intake[f].hashed THEN "PENDING" ELSE @]
      /\ early' = IF intake[f].hashed /\ intake[f].availability # "AVAILABLE" THEN early \cup {f} ELSE early
  BY <1>3 DEF confirm_one
<1>5. FreshId \in Ids /\ FreshId \in DOMAIN siteRows'
  BY <1>4 DEF AddSiteVersion, With
<1>6. FreshId \notin DOMAIN siteRows
  BY DrawnTyped
<1>7. intake' = [intake EXCEPT ![f] = row] /\ row \in FileType /\ intake'[f] = row
  BY <1>1, <1>4, <1>5 DEF FileType
<1>8. /\ intake'[f].availability = intake[f].availability /\ intake'[f].confirmed = FreshId
      /\ intake'[f].hashed = intake[f].hashed
      /\ intake'[f].job = IF intake[f].hashed THEN "PENDING" ELSE "NONE"
  BY <1>1, <1>2, <1>7 DEF FileType
<1>9. \A g : <<FreshId, g>> \notin originals
  BY <1>6 DEF FilesStand, FilesTyped
<1>10. early \subseteq early' /\ early' \subseteq MediaIds
  BY <1>4 DEF FilesStand, FilesTyped
<1>11. VersionOf(f)' = {FreshId} => FileStands(f)'
  <2> SUFFICES ASSUME VersionOf(f)' = {FreshId} PROVE FileStands(f)'
    OBVIOUS
  <2>1. intake[f].hashed => intake[f].availability = "AVAILABLE" \/ f \in early'
    BY <1>4
  <2> HIDE DEF row
  <2> QED
    BY <1>1, <1>8, <2>1 DEF FileStands
<1> HIDE DEF row
<1> QED
  BY <1>1, <1>4, <1>5, <1>7, <1>9, <1>10, <1>11, LinkStands
-----------------------------------------------------------------------------
(* Versions: Central's files and the operators' views.                     *)

\* The newest version is the one of the greatest number, and there is no other.
LEMMA NewestIs ==
    ASSUME NEW rows, Rows(rows), NEW t, {v \in DOMAIN rows : rows[v].talk = t} # {}
    PROVE  /\ Newest(rows, t) \in DOMAIN rows /\ rows[Newest(rows, t)].talk = t
           /\ rows[Newest(rows, t)].number = Max(Numbers(rows, t))
           /\ \A w \in DOMAIN rows : rows[w].talk = t /\ rows[w].number = Max(Numbers(rows, t)) => w = Newest(rows, t)
<1> DEFINE own == {v \in DOMAIN rows : rows[v].talk = t}
           N == Numbers(rows, t)
<1>1. IsFiniteSet(N) /\ N \subseteq Nat /\ N # {}
  BY NumbersFinite DEF Numbers
<1>2. Max(N) \in N /\ \A y \in N : Max(N) >= y
  BY <1>1, MaxIsGreatest
<1>3. \A v \in own : rows[v].number \in N
  BY DEF Numbers
<1>4. PICK v \in own : rows[v].number = Max(N)
  BY <1>2 DEF Numbers
<1>5. Max(N) \in Nat /\ \A w \in own : rows[w].number \in Nat /\ rows[w].number <= Max(N)
  BY <1>1, <1>2, <1>3
<1> HIDE DEF N
<1>6. \A w \in own : rows[w].number <= rows[v].number
  BY <1>4, <1>5
<1>7. Newest(rows, t) = CHOOSE x \in own : \A w \in own : rows[w].number <= rows[x].number
  BY DEF Newest
<1>8. Newest(rows, t) \in own /\ \A w \in own : rows[w].number <= rows[Newest(rows, t)].number
  BY <1>4, <1>6, <1>7
<1>9. rows[Newest(rows, t)].number = Max(N)
  BY <1>4, <1>5, <1>8
<1>10. \A w \in own : rows[w].number = Max(N) => w = Newest(rows, t)
  BY <1>8, <1>9 DEF Rows, OneRowEach
<1> QED
  BY <1>8, <1>9, <1>10 DEF N

LEMMA NewestReal ==
    ASSUME NEW rows, Rows(rows), NEW t, Newest(rows, t) # NoVersion
    PROVE  {v \in DOMAIN rows : rows[v].talk = t} # {}
BY DEF Newest

\* A file is put only under a version that has its row.
LEMMA CentralFilesStand ==
    ASSUME RowsStand, Grows, DOMAIN centralFiles \subseteq DOMAIN centralRows, VersionNext
    PROVE  DOMAIN centralFiles' \subseteq DOMAIN centralRows'
<1>1. DOMAIN centralRows \subseteq DOMAIN centralRows'
  BY DEF Grows
<1>2. ASSUME NEW f \in MediaIds, Replicated(f)
      PROVE  DOMAIN centralFiles' \subseteq DOMAIN centralRows'
  <2>1. PICK v \in VersionOf(f) : v \in DOMAIN centralRows /\ centralFiles' = With(centralFiles, v, "replica")
    BY <1>2 DEF Replicated, Receivable
  <2> QED
    BY <1>1, <2>1 DEF With
<1>3. ASSUME NEW t \in Talks, promote_and_assign(t)
      PROVE  DOMAIN centralFiles' \subseteq DOMAIN centralRows'
  <2> DEFINE latest == Newest(centralRows, t)
             reused == latest # NoVersion /\ ~HasImport(latest)
             v == IF reused THEN latest ELSE FreshId
  <2>1. DOMAIN centralFiles' = DOMAIN centralFiles \cup {v}
    BY <1>3 DEF promote_and_assign, With
  <2>2. CASE reused
    <3>1. latest \in DOMAIN centralRows
      BY <2>2, NewestReal, NewestIs DEF RowsStand
    <3> QED
      BY <1>1, <2>1, <2>2, <3>1
  <2>3. CASE ~reused
    <3>1. FreshId \in DOMAIN centralRows'
      BY <1>3, <2>3 DEF promote_and_assign, With
    <3> QED
      BY <1>1, <2>1, <2>3, <3>1
  <2> QED
    BY <2>2, <2>3
<1>4. (\E f \in MediaIds : Replicated(f)) \/ (\E t \in Talks : promote_and_assign(t)) \/ UNCHANGED centralFiles
  BY DEF VersionNext, SiteMakes, SiteReceives, CentralMakes, Exchange, create_local_version,
         create_local_presentation, confirm_one, _create_staging, Hashed, MarkAvailable, _record_upload_failure,
         CentralAddsTalk, push_snapshot, apply_site_event, apply_central_event
<1> QED
  BY <1>1, <1>2, <1>3, <1>4

LEMMA ViewsAreTruthful ==
    ASSUME RowsStand, FilesStand
    PROVE  ViewsTruthful
<1> SUFFICES ASSUME NEW t \in DOMAIN siteTalks
             PROVE  LET newest == {v \in DOMAIN siteRows : siteRows[v].talk = t
                                       /\ siteRows[v].number = Max(Numbers(siteRows, t))}
                    IN  /\ Ready(t) => \E v \in newest, f \in MediaIds :
                                           <<v, f>> \in originals /\ intake[f].availability = "AVAILABLE"
                        /\ Delivered(t) => newest \subseteq DOMAIN centralRows
  BY DEF ViewsTruthful
<1> DEFINE newest == {v \in DOMAIN siteRows : siteRows[v].talk = t
                          /\ siteRows[v].number = Max(Numbers(siteRows, t))}
           d == Displayed(t)
<1>1. d = Newest(siteRows, t)
  BY DEF Displayed
<1>2. CASE d = NoVersion
  <2>1. DisplayedFile(t) = {}
    BY <1>2 DEF DisplayedFile
  <2> QED
    BY <2>1 DEF Ready, Delivered
<1>3. CASE d # NoVersion
  <2>1. d \in newest /\ \A w \in newest : w = d
    BY <1>1, <1>3, NewestReal, NewestIs DEF RowsStand
  <2>2. \A f \in DisplayedFile(t) : f \in MediaIds /\ <<d, f>> \in originals
    BY <1>3 DEF DisplayedFile, OriginalOf
  <2>3. Ready(t) => \E v \in newest, f \in MediaIds :
                        <<v, f>> \in originals /\ intake[f].availability = "AVAILABLE"
    BY <2>1, <2>2 DEF Ready
  <2>4. Delivered(t) => d \in DOMAIN centralRows
    <3> SUFFICES ASSUME NEW f \in DisplayedFile(t), intake[f].job = "SUCCEEDED"
                 PROVE  d \in DOMAIN centralRows
      BY DEF Delivered
    <3>1. f \in MediaIds /\ d \in VersionOf(f)
      BY <2>2, Linked DEF FilesStand
    <3> QED
      BY <3>1 DEF FilesStand, FileStands
  <2> QED
    BY <2>1, <2>3, <2>4
<1> QED
  BY <1>2, <1>3
-----------------------------------------------------------------------------
(* Versions: the theorems.                                                 *)

\* The inductive invariant, by what the steps touch.
VersionsStand == RowsStand /\ TalksStand /\ FilesStand /\ DOMAIN centralFiles \subseteq DOMAIN centralRows

LEMMA StandIsSafe == VersionsStand => VersionsSafe
<1> SUFFICES ASSUME VersionsStand PROVE VersionsSafe
  OBVIOUS
<1>1. VersionsAgree /\ ViewsTruthful
  BY RowsAgree, ViewsAreTruthful DEF VersionsStand
<1>2. FilesTyped /\ OriginalsUnique /\ IntakeLinked /\ NothingForgotten /\ ReplicatedUnderSiteVersion
  BY FilesAre DEF VersionsStand
<1>3. VersionsCoherent /\ HiddenOnlyBeforeListed
  BY <1>2 DEF VersionsStand, RowsStand, TalksStand, VersionsCoherent
<1>4. VersionTypeOK
  BY <1>2 DEF VersionsStand, RowsStand, TalksStand, FilesTyped, FileType, Rows, VersionTypeOK
<1> QED
  BY <1>1, <1>2, <1>3, <1>4 DEF VersionsSafe

LEMMA VersionsStart == VersionInit => VersionsStand
<1> SUFFICES ASSUME VersionInit PROVE VersionsStand
  OBVIOUS
<1>1. /\ DOMAIN siteRows = {} /\ DOMAIN centralRows = {} /\ DOMAIN centralFiles = {}
      /\ versionReports = <<>> /\ snapshots = <<>> /\ originals = {} /\ early = {} /\ listed = {}
      /\ siteTalks = [t \in SharedTalks |-> TRUE] /\ centralTalks = SharedTalks /\ snapshotsMade = 0
      /\ intake = [f \in MediaIds |-> Unreceived]
  BY DEF VersionInit
<1>2. Rows(siteRows) /\ Rows(centralRows)
  BY <1>1, FS_EmptySet DEF Rows, OneRowEach
<1>3. IdsDrawn
  <2>1. 0 \in 0..MaxVersions /\ 1..0 = {}
    BY VersionBounds
  <2> QED
    BY <1>1, <2>1 DEF IdsDrawn
<1>4. RowsStand
  BY <1>1, <1>2, <1>3 DEF RowsStand, RowsReported
<1>5. TalksStand
  <2>1. Len(snapshots) = 0 /\ snapshots \in Seq(Range(snapshots))
    BY <1>1
  <2> QED
    BY <1>1, <2>1, TalksAssumption, VersionBounds DEF TalksStand, SnapshotsGrow, ListedStand, HiddenOnlyBeforeListed
<1>6. FilesStand
  <2>1. Unreceived \in FileType
    BY DEF Unreceived, FileType
  <2>2. FilesTyped
    BY <1>1, <2>1 DEF FilesTyped
  <2>3. ASSUME NEW f \in MediaIds PROVE FileStands(f)
    <3>1. intake[f] = Unreceived /\ VersionOf(f) = {}
      BY <1>1 DEF VersionOf
    <3> QED
      BY <3>1 DEF FileStands, Unreceived
  <2> QED
    BY <1>1, <2>2, <2>3 DEF FilesStand, OriginalsUnique
<1> QED
  BY <1>1, <1>4, <1>5, <1>6 DEF VersionsStand

LEMMA RowsNext ==
    ASSUME VersionsStand, VersionNext
    PROVE  RowsStand' /\ Grows
<1>1. CASE apply_central_event
  <2>1. /\ Lists(Head(snapshots)) /\ ApplyNumbers(Head(snapshots)) /\ UNCHANGED <<centralRows, versionReports>>
    BY <1>1, HeadLists DEF apply_central_event, VersionsStand
  <2> QED
    BY <2>1, SnapshotStands DEF VersionsStand
<1> QED
  BY <1>1, RowSteps, SiteAddsStands, TalkStands, CentralAddsStands, ReportStands DEF VersionsStand

LEMMA TalksNext ==
    ASSUME VersionsStand, VersionNext
    PROVE  TalksStand'
<1>1. TalksStand /\ RowsStand /\ Grows /\ centralTalks \subseteq Talks
  BY RowsNext DEF VersionsStand, TalksStand
<1>2. CASE apply_site_event
  <2>1. Head(versionReports) \in Report
    BY <1>1, <1>2, QueueParts DEF RowsStand, apply_site_event
  <2>2. centralTalks \subseteq centralTalks' /\ centralTalks' \subseteq Talks
    BY <1>1, <1>2, <2>1 DEF apply_site_event, Report
  <2> QED
    BY <1>1, <1>2, <2>2, QuietTalks DEF apply_site_event
<1>3. CASE (\E t \in Talks : create_local_presentation(t)) \/ push_snapshot \/ apply_central_event
  BY <1>1, <1>3, LocalTalkStands, PushStands, SnapshotAppliedStands
<1>4. CASE \E t \in Talks : CentralAddsTalk(t)
  BY <1>1, <1>4, QuietTalks DEF CentralAddsTalk
<1>5. ASSUME ~apply_site_event,
             ~((\E t \in Talks : create_local_presentation(t)) \/ push_snapshot \/ apply_central_event),
             ~\E t \in Talks : CentralAddsTalk(t)
      PROVE  UNCHANGED <<siteTalks, snapshots, snapshotsMade, listed, centralTalks>>
  BY <1>5 DEF VersionNext, SiteMakes, SiteReceives, CentralMakes, Exchange, create_local_version, confirm_one,
              _create_staging, Hashed, MarkAvailable, _record_upload_failure, Replicated, promote_and_assign
<1> QED
  BY <1>1, <1>2, <1>3, <1>4, <1>5, QuietTalks

LEMMA FilesNext ==
    ASSUME VersionsStand, VersionNext
    PROVE  FilesStand'
<1>1. RowsStand /\ FilesStand /\ Grows
  BY RowsNext DEF VersionsStand
<1>2. CASE \E f \in MediaIds, t \in Talks : confirm_one(f, t)
  BY <1>1, <1>2, ConfirmStands
<1>3. CASE SiteReceives
  BY <1>1, <1>3, StagingStands, UploadStands, ReplicaStands DEF SiteReceives
<1>4. CASE (\E t \in Talks : create_local_version(t) \/ create_local_presentation(t)) \/ CentralMakes \/ Exchange
  <2>1. UNCHANGED <<intake, originals, early>>
    BY <1>4 DEF create_local_version, create_local_presentation, CentralMakes, CentralAddsTalk, promote_and_assign,
                push_snapshot, Exchange, apply_site_event, apply_central_event
  <2> QED
    BY <1>1, <2>1, FilesIdle
<1> QED
  BY <1>2, <1>3, <1>4 DEF VersionNext, SiteMakes

LEMMA VersionsStep == VersionsStand /\ [VersionNext]_versionVars => VersionsStand'
<1>1. CASE VersionNext
  BY <1>1, RowsNext, TalksNext, FilesNext, CentralFilesStand DEF VersionsStand
<1>2. CASE UNCHANGED versionVars
  <2>1. UNCHANGED <<siteRows, centralRows, versionReports, siteTalks, centralTalks, snapshots, snapshotsMade, listed,
                    intake, originals, early, centralFiles>>
    BY <1>2 DEF versionVars
  <2>2. ASSUME VersionsStand PROVE RowsStand' /\ Grows
    BY <2>1, <2>2, TalkStands DEF VersionsStand, NoRows
  <2>3. ASSUME VersionsStand PROVE TalksStand' /\ FilesStand'
    <3>1. centralTalks \subseteq centralTalks' /\ centralTalks' \subseteq Talks
      BY <2>1, <2>3 DEF VersionsStand, TalksStand
    <3> QED
      BY <2>1, <2>2, <2>3, <3>1, QuietTalks, FilesIdle DEF VersionsStand
  <2> QED
    BY <2>1, <2>2, <2>3 DEF VersionsStand
<1> QED
  BY <1>1, <1>2

\* Whatever the Site and Central make, report, promote, list and receive, in whichever order:
\* an id means the same version on both sides and is drawn once, a number is given once on a
\* side, a file and a version are each other's only original, no available original is without
\* its replication, a file is replicated only under a version the Site made, a presentation
\* that Central has listed stays shown, and the views are true of the newest version
\* (create_local_version, confirm_one, apply_site_event, _upsert_snapshot).
THEOREM VersionsAreSafe == VersionSpec => []VersionsSafe
<1>1. VersionInit => VersionsStand
  BY VersionsStart
<1>2. VersionsStand /\ [VersionNext]_versionVars => VersionsStand'
  BY VersionsStep
<1>3. VersionsStand => VersionsSafe
  BY StandIsSafe
<1> QED
  BY <1>1, <1>2, <1>3, PTL DEF VersionSpec

\* Every step that puts a file under a version at Central finds none there, so the original of
\* a version is never exchanged (promote_and_assign, ensure_confirmed_original_asset,
\* authorize_replication_context).
THEOREM CentralFilesAreKept == VersionSpec => CentralFilesStay
<1> DEFINE Stays == \A v \in DOMAIN centralFiles : v \in DOMAIN centralFiles' /\ centralFiles'[v] = centralFiles[v]
<1>1. ASSUME NEW w, NEW x, w \notin DOMAIN centralFiles, centralFiles' = With(centralFiles, w, x)
      PROVE  Stays
  BY <1>1 DEF With
<1>2. ASSUME NEW f \in MediaIds, Replicated(f) PROVE Stays
  BY <1>1, <1>2 DEF Replicated, Receivable, Vacant
<1>3. ASSUME NEW t \in Talks, promote_and_assign(t) PROVE Stays
  BY <1>1, <1>3 DEF promote_and_assign, Vacant
<1>4. ASSUME VersionNext
      PROVE  (\E f \in MediaIds : Replicated(f)) \/ (\E t \in Talks : promote_and_assign(t)) \/ UNCHANGED centralFiles
  BY <1>4 DEF VersionNext, SiteMakes, SiteReceives, CentralMakes, Exchange, create_local_version,
         create_local_presentation, confirm_one, _create_staging, Hashed, MarkAvailable, _record_upload_failure,
         CentralAddsTalk, push_snapshot, apply_site_event, apply_central_event
<1>5. VersionNext => Stays
  BY <1>2, <1>3, <1>4
<1>6. [VersionNext]_versionVars => [Stays]_versionVars
  BY <1>5
<1> QED
  BY <1>6, PTL DEF VersionSpec, CentralFilesStay

-----------------------------------------------------------------------------
(* Enrollment.                                                             *)

\* The invariant that each step keeps.
EnrollmentInv == EnrollmentTypeOK /\ EnrollmentCoherent /\ CredentialWasApproved

-----------------------------------------------------------------------------
(* Enrollment: the steps of the Site.                                      *)

\* A request is begun with a secret that nothing refers to.
LEMMA BeginRequestKeeps == ASSUME EnrollmentInv, BeginRequest PROVE EnrollmentInv'
<1> DEFINE x == CHOOSE x \in Unused : TRUE
<1>1. x \in Unused
  BY DEF BeginRequest
<1>2. /\ x \in Secrets /\ credential[x] = "none" /\ claim.secret # x
      /\ registration.token # x
  BY <1>1 DEF Unused
<1>3. /\ step = Idle /\ step' = [kind |-> "request", secret |-> x, answer |-> "none"]
      /\ UNCHANGED <<enrollmentState, claim, credential, late, registration, changes, losses>>
  BY DEF BeginRequest, Begin, CentralUnchanged
<1>4. EnrollmentTypeOK'
  BY <1>2, <1>3 DEF EnrollmentInv, EnrollmentTypeOK
<1>5. EnrollmentCoherent'
  BY <1>2, <1>3 DEF EnrollmentInv, EnrollmentCoherent, Waits, Awaits
<1>6. CredentialWasApproved'
  BY <1>3 DEF EnrollmentInv, CredentialWasApproved
<1> QED
  BY <1>4, <1>5, <1>6 DEF EnrollmentInv

\* The answer to a request is written down.
LEMMA StoreAnswerKeeps == ASSUME EnrollmentInv, StoreAnswer PROVE EnrollmentInv'
<1>1. /\ step.secret \in Secrets /\ step.answer \in {"PENDING", "ACTIVE", "REJECTED"}
      /\ step' = Idle /\ registration'.state = step.answer /\ registration'.token = step.secret
      /\ registration' = [registration EXCEPT !.state = step.answer, !.token = step.secret]
      /\ UNCHANGED <<enrollmentState, claim, credential, late, changes, losses>>
  BY DEF StoreAnswer, CentralUnchanged, EnrollmentInv, EnrollmentTypeOK, EnrollmentCoherent, Idle
<1>2. EnrollmentTypeOK'
  BY <1>1 DEF EnrollmentInv, EnrollmentTypeOK, EnrollmentState
<1>3. EnrollmentCoherent'
  BY <1>1 DEF EnrollmentInv, EnrollmentCoherent, Waits, Awaits, StoreAnswer, Idle
<1>4. CredentialWasApproved'
  BY <1>1 DEF EnrollmentInv, CredentialWasApproved
<1> QED
  BY <1>2, <1>3, <1>4 DEF EnrollmentInv

\* A poll is begun with the token of a Site that waits.
LEMMA BeginPollKeeps == ASSUME EnrollmentInv, BeginPoll PROVE EnrollmentInv'
<1>1. /\ registration.state = "PENDING" /\ registration.token \in Secrets
      /\ step' = [kind |-> "status", secret |-> registration.token, answer |-> "none"]
      /\ UNCHANGED <<enrollmentState, claim, credential, late, registration, changes, losses>>
  BY DEF BeginPoll, Polls, Begin, CentralUnchanged, EnrollmentInv, EnrollmentTypeOK
<1>2. EnrollmentTypeOK'
  BY <1>1 DEF EnrollmentInv, EnrollmentTypeOK
<1>3. EnrollmentCoherent'
  BY <1>1 DEF EnrollmentInv, EnrollmentCoherent, Waits, Awaits
<1>4. CredentialWasApproved'
  BY <1>1 DEF EnrollmentInv, CredentialWasApproved
<1> QED
  BY <1>2, <1>3, <1>4 DEF EnrollmentInv

\* The answer to a poll is written down.
LEMMA StorePollKeeps == ASSUME EnrollmentInv, StorePoll PROVE EnrollmentInv'
<1>1. /\ step.kind = "status" /\ step.secret \in Secrets /\ step.answer \in EnrollmentState
      /\ step' = Idle
      /\ registration' = IF step.answer = "ACTIVE"
                         THEN [state |-> "ACTIVE", token |-> NoSecret, credential |-> step.secret]
                         ELSE [registration EXCEPT !.state = step.answer]
      /\ UNCHANGED <<enrollmentState, claim, credential, late, changes, losses>>
  BY DEF StorePoll, CentralUnchanged, EnrollmentInv, EnrollmentTypeOK, EnrollmentCoherent, Idle
<1>2. EnrollmentTypeOK'
  BY <1>1 DEF EnrollmentInv, EnrollmentTypeOK
<1>3. registration'.state = "PENDING" => registration'.token \in {step.secret, NoSecret}
  BY <1>1 DEF EnrollmentInv, EnrollmentCoherent, EnrollmentTypeOK
<1>4. EnrollmentCoherent'
  BY <1>1, <1>3, EnrollmentAssumption DEF EnrollmentInv, EnrollmentCoherent, Waits, Awaits, Idle
<1>5. CredentialWasApproved'
  BY <1>1 DEF EnrollmentInv, CredentialWasApproved
<1> QED
  BY <1>2, <1>4, <1>5 DEF EnrollmentInv

\* Deliveries concern neither claims nor credentials.
LEMMA DeliveryKeeps ==
    ASSUME EnrollmentInv, BeginDelivery \/ authenticate_site \/ StoreRefusal
    PROVE  EnrollmentInv'
<1>1. UNCHANGED <<enrollmentState, claim, credential, late, changes, losses>>
  BY DEF BeginDelivery, authenticate_site, StoreRefusal, CentralUnchanged
<1>2. /\ step' = Idle \/ (step'.kind = "deliver" /\ step' \in
            [kind: {"request", "status", "deliver"}, secret: Secrets,
             answer: EnrollmentState \cup {"none", "read", "refused"}])
      /\ \/ registration' = registration
         \/ registration' = [registration EXCEPT !.state = "REVOKED"]
  BY DEF BeginDelivery, authenticate_site, StoreRefusal, Begin, Awaits, Answer, EnrollmentInv,
         EnrollmentTypeOK, Idle
<1>3. EnrollmentTypeOK'
  BY <1>1, <1>2 DEF EnrollmentInv, EnrollmentTypeOK, EnrollmentState
<1>4. \A x : registration'.state = "PENDING" /\ registration'.token = x =>
               registration.state = "PENDING" /\ registration.token = x
  BY <1>2 DEF EnrollmentInv, EnrollmentTypeOK
<1>5. EnrollmentCoherent'
  BY <1>1, <1>2, <1>4 DEF EnrollmentInv, EnrollmentCoherent, Waits, Awaits, Idle
<1>6. CredentialWasApproved'
  BY <1>1 DEF EnrollmentInv, CredentialWasApproved
<1> QED
  BY <1>3, <1>5, <1>6 DEF EnrollmentInv

-----------------------------------------------------------------------------
(* Enrollment: the steps of Central.                                       *)

\* A request is accepted where there is no claim; the new one is unapproved, of a
\* secret that has no credential, and no credential is live.
LEMMA RequestKeeps ==
    ASSUME EnrollmentInv, NEW commits \in BOOLEAN, request_enrollment(commits), losses' \in 0..MaxLosses
    PROVE  EnrollmentInv'
<1> DEFINE state == IF enrollmentState \in {"ACTIVE", "REJECTED"} THEN enrollmentState ELSE "PENDING"
           accepted == /\ enrollmentState \notin {"REVOKED", "DISABLED"}
                       /\ claim = NoClaim \/ claim.secret = step.secret
<1>1. /\ step.kind = "request" /\ step.answer = "none" /\ step.secret \in Secrets
      /\ claim.secret # step.secret /\ registration.token # step.secret
      /\ credential[step.secret] = "none"
      /\ UNCHANGED <<credential, late, registration, changes>>
  BY DEF request_enrollment, Awaits, EnrollmentInv, EnrollmentCoherent, EnrollmentTypeOK, Idle
<1>2. CASE ~accepted
  <2>1. step' = Idle /\ UNCHANGED <<enrollmentState, claim>>
    BY <1>2 DEF request_enrollment
  <2>2. EnrollmentTypeOK'
    BY <1>1, <2>1 DEF EnrollmentInv, EnrollmentTypeOK
  <2>3. EnrollmentCoherent'
    BY <1>1, <2>1 DEF EnrollmentInv, EnrollmentCoherent, Waits, Awaits, Idle
  <2>4. CredentialWasApproved'
    BY <1>1, <2>1 DEF EnrollmentInv, CredentialWasApproved
  <2> QED
    BY <2>2, <2>3, <2>4 DEF EnrollmentInv
<1>3. CASE accepted
  <2>1. /\ claim = NoClaim
        /\ step' = [step EXCEPT !.answer = state]
        /\ state \in {"ACTIVE", "REJECTED", "PENDING"}
    BY <1>1, <1>3 DEF request_enrollment, Answer
  <2>2. /\ step' \in [kind: {"request", "status", "deliver"}, secret: Secrets,
                      answer: EnrollmentState \cup {"none", "read", "refused"}]
        /\ step'.kind = "request" /\ step'.secret = step.secret /\ step'.answer = state
    BY <1>1, <2>1 DEF EnrollmentInv, EnrollmentTypeOK, EnrollmentState, Idle
  <2>3. \/ UNCHANGED <<enrollmentState, claim>>
        \/ /\ enrollmentState' = state
           /\ claim' = [secret |-> step.secret, live |-> TRUE, approved |-> FALSE]
    BY <1>3 DEF request_enrollment
  <2>4. EnrollmentTypeOK'
    <3>1. state \in EnrollmentState
      BY <2>1 DEF EnrollmentState
    <3>2. [secret |-> step.secret, live |-> TRUE, approved |-> FALSE]
             \in [secret: Secrets, live: BOOLEAN, approved: BOOLEAN]
      BY <1>1
    <3>3. /\ claim' \in [secret: Secrets, live: BOOLEAN, approved: BOOLEAN] \cup {NoClaim}
          /\ enrollmentState' \in EnrollmentState \cup {"NONE"}
      BY <2>3, <3>1, <3>2 DEF EnrollmentInv, EnrollmentTypeOK
    <3> QED
      BY <1>1, <2>2, <3>3 DEF EnrollmentInv, EnrollmentTypeOK
  <2>5. ~late => \A x \in Secrets : credential[x] # "live"
    BY <2>1, EnrollmentAssumption DEF EnrollmentInv, EnrollmentCoherent, NoClaim
  <2>6. EnrollmentCoherent'
    BY <1>1, <2>1, <2>2, <2>3, <2>5, EnrollmentAssumption
    DEF EnrollmentInv, EnrollmentCoherent, Waits, Awaits, NoClaim
  <2>7. CredentialWasApproved'
    BY <1>1, <2>1, <2>3 DEF EnrollmentInv, CredentialWasApproved
  <2> QED
    BY <2>4, <2>6, <2>7 DEF EnrollmentInv
<1> QED
  BY <1>2, <1>3

\* A poll that finds the Site active found its claim approved.
LEMMA StatusKeeps == ASSUME EnrollmentInv, enrollment_status PROVE EnrollmentInv'
<1>1. /\ step.kind = "status" /\ step.secret \in Secrets
      /\ UNCHANGED <<enrollmentState, claim, credential, late, registration, changes, losses>>
  BY DEF enrollment_status, Awaits, CentralUnchanged, EnrollmentInv, EnrollmentTypeOK, Idle
<1>2. CASE ~PollGrant
  <2>1. step' = Idle
    BY <1>2 DEF enrollment_status
  <2>2. EnrollmentTypeOK'
    BY <1>1, <2>1 DEF EnrollmentInv, EnrollmentTypeOK
  <2>3. EnrollmentCoherent'
    BY <1>1, <2>1 DEF EnrollmentInv, EnrollmentCoherent, Waits, Awaits, Idle
  <2>4. CredentialWasApproved'
    BY <1>1 DEF EnrollmentInv, CredentialWasApproved
  <2> QED
    BY <2>2, <2>3, <2>4 DEF EnrollmentInv
<1>3. CASE PollGrant
  <2>1. /\ claim # NoClaim /\ claim.secret = step.secret
        /\ step' = [step EXCEPT !.answer = IF enrollmentState = "ACTIVE" THEN "read" ELSE enrollmentState]
    BY <1>3 DEF enrollment_status, Answer, PollGrant
  <2>2. enrollmentState \in EnrollmentState
    BY <2>1 DEF EnrollmentInv, EnrollmentTypeOK, EnrollmentCoherent
  <2>3. /\ step' \in [kind: {"request", "status", "deliver"}, secret: Secrets,
                      answer: EnrollmentState \cup {"none", "read", "refused"}]
        /\ step'.kind = "status" /\ step'.secret = step.secret
        /\ step'.answer = IF enrollmentState = "ACTIVE" THEN "read" ELSE enrollmentState
    BY <1>1, <2>1, <2>2 DEF EnrollmentInv, EnrollmentTypeOK, Idle
  <2>4. EnrollmentTypeOK'
    BY <1>1, <2>3 DEF EnrollmentInv, EnrollmentTypeOK
  <2>5. enrollmentState = "ACTIVE" => claim.approved
    BY <1>1, <2>1 DEF EnrollmentInv, EnrollmentCoherent, Waits
  <2>6. /\ step'.answer \in EnrollmentState \cup {"none", "read"}
        /\ step'.answer = "read" => enrollmentState = "ACTIVE"
        /\ \A x : Waits(x)' => Waits(x)
    BY <1>1, <2>2, <2>3 DEF EnrollmentState, Waits
  <2>7. EnrollmentCoherent'
    BY <1>1, <2>1, <2>3, <2>5, <2>6 DEF EnrollmentInv, EnrollmentCoherent, Awaits
  <2>8. CredentialWasApproved'
    BY <1>1 DEF EnrollmentInv, CredentialWasApproved
  <2> QED
    BY <2>4, <2>7, <2>8 DEF EnrollmentInv
<1> QED
  BY <1>2, <1>3

\* A credential is inserted for the present claim, which the poll found approved; if the
\* Site is revoked by now, the insertion is late.
LEMMA IssueKeeps ==
    ASSUME EnrollmentInv, NEW commits \in BOOLEAN, IssueCredential(commits), losses' \in 0..MaxLosses
    PROVE  EnrollmentInv'
<1>1. /\ step.kind = "status" /\ step.answer = "read" /\ step.secret \in Secrets
      /\ step' = [step EXCEPT !.answer = "ACTIVE"]
      /\ UNCHANGED <<enrollmentState, claim, registration, changes>>
  BY DEF IssueCredential, Answer, EnrollmentInv, EnrollmentTypeOK, Idle
<1>2. /\ step' \in [kind: {"request", "status", "deliver"}, secret: Secrets,
                    answer: EnrollmentState \cup {"none", "read", "refused"}]
      /\ step'.kind = "status" /\ step'.secret = step.secret /\ step'.answer = "ACTIVE"
  BY <1>1 DEF EnrollmentInv, EnrollmentTypeOK, EnrollmentState, Idle
<1>3. \/ UNCHANGED <<credential, late>>
      \/ /\ claim.secret = step.secret
         /\ credential' = [credential EXCEPT ![step.secret] = "live"]
         /\ late' = (late \/ enrollmentState = "REVOKED")
  BY DEF IssueCredential
<1>4. EnrollmentTypeOK'
  BY <1>1, <1>2, <1>3 DEF EnrollmentInv, EnrollmentTypeOK
<1>5. claim.secret = step.secret => claim.approved
  BY <1>1 DEF EnrollmentInv, EnrollmentCoherent
<1>6. /\ step'.kind = "status" => step'.answer \in EnrollmentState \cup {"none", "read"}
      /\ ~(Awaits("request"))'
      /\ step'.kind = "status" => \/ registration'.state = "PENDING" /\ registration'.token = step'.secret
                                  \/ registration'.token = NoSecret
      /\ \A x \in Secrets : Waits(x)' => Waits(x)
  BY <1>1, <1>2 DEF EnrollmentInv, EnrollmentCoherent, Awaits, Waits, EnrollmentState
<1>7. ~late' => \A x \in Secrets : credential'[x] = "live" =>
                   claim'.secret = x /\ enrollmentState' # "REVOKED"
  <2> SUFFICES ASSUME ~late', NEW x \in Secrets, credential'[x] = "live"
               PROVE  claim.secret = x /\ enrollmentState # "REVOKED"
    BY <1>1
  <2>1. credential \in [Secrets -> {"none", "live", "revoked"}] /\ late \in BOOLEAN
    BY DEF EnrollmentInv, EnrollmentTypeOK
  <2>2. CASE UNCHANGED <<credential, late>>
    BY <2>2 DEF EnrollmentInv, EnrollmentCoherent
  <2>3. CASE /\ claim.secret = step.secret
             /\ credential' = [credential EXCEPT ![step.secret] = "live"]
             /\ late' = (late \/ enrollmentState = "REVOKED")
    <3>1. ~late /\ enrollmentState # "REVOKED"
      BY <2>3
    <3>2. x = step.secret \/ credential[x] = "live"
      BY <2>1, <2>3
    <3> QED
      BY <2>3, <3>1, <3>2 DEF EnrollmentInv, EnrollmentCoherent
  <2> QED
    BY <1>3, <2>2, <2>3
<1>8. EnrollmentCoherent'
  BY <1>1, <1>2, <1>6, <1>7 DEF EnrollmentInv, EnrollmentCoherent
<1>9. CredentialWasApproved'
  BY <1>1, <1>3, <1>5 DEF EnrollmentInv, CredentialWasApproved, EnrollmentTypeOK
<1> QED
  BY <1>4, <1>8, <1>9 DEF EnrollmentInv

-----------------------------------------------------------------------------
(* Enrollment: the administrator, the operator and the faults.             *)

\* The state changes: approval approves the claim, revocation leaves no live credential,
\* and re-enrollment, which drops the claim, comes after a revocation only.
LEMMA AdministrateKeeps ==
    ASSUME EnrollmentInv, NEW target \in EnrollmentState, Administrate(target)
    PROVE  EnrollmentInv'
<1>1. /\ enrollmentState \in Allowed[target] /\ enrollmentState' = target
      /\ claim' = CASE target = "PENDING" -> NoClaim
                    [] target = "ACTIVE" /\ claim # NoClaim -> [claim EXCEPT !.approved = TRUE]
                    [] OTHER -> claim
      /\ credential' = IF target = "REVOKED"
                       THEN [x \in Secrets |-> IF credential[x] = "live" THEN "revoked"
                                               ELSE credential[x]]
                       ELSE credential
      /\ changes' \in 0..MaxChanges
      /\ UNCHANGED <<registration, step, late, losses>>
  BY EnrollmentAssumption DEF Administrate, change_state, EnrollmentInv, EnrollmentTypeOK
<1>2. /\ target = "PENDING" => enrollmentState = "REVOKED"
      /\ enrollmentState = "REVOKED" => target = "PENDING"
  BY <1>1 DEF Allowed, EnrollmentState
<1>3. /\ claim' \in [secret: Secrets, live: BOOLEAN, approved: BOOLEAN] \cup {NoClaim}
      /\ target # "PENDING" => claim'.secret = claim.secret
      /\ target = "PENDING" => claim' = NoClaim
      /\ target \notin {"ACTIVE", "PENDING"} => claim' = claim
      /\ target = "ACTIVE" => claim' = NoClaim \/ claim'.approved
      /\ claim'.secret # NoSecret /\ claim.approved => claim'.approved
      /\ claim' # NoClaim => claim # NoClaim
  BY <1>1, EnrollmentAssumption DEF EnrollmentInv, EnrollmentTypeOK, EnrollmentState, NoClaim
<1>4. EnrollmentTypeOK'
  BY <1>1, <1>3 DEF EnrollmentInv, EnrollmentTypeOK
<1>5. /\ \A x \in Secrets : credential'[x] = "none" <=> credential[x] = "none"
      /\ \A x \in Secrets : credential'[x] = "live" => credential[x] = "live" /\ target # "REVOKED"
  BY <1>1 DEF EnrollmentInv, EnrollmentTypeOK
<1>6. \A x \in Secrets : claim'.secret = x =>
         /\ claim.secret = x
         /\ claim.approved => claim'.approved
         /\ target = "ACTIVE" => claim'.approved
  BY <1>3, EnrollmentAssumption DEF NoClaim
<1>7. /\ claim'.secret # NoSecret => claim'.secret = claim.secret
      /\ claim.secret \in Secrets \cup {NoSecret}
  BY <1>3 DEF EnrollmentInv, EnrollmentTypeOK, NoClaim
<1>8. Awaits("request") => step.secret \in Secrets
  BY DEF EnrollmentInv, EnrollmentTypeOK, Awaits, Idle
<1>9. (Awaits("request") => /\ claim.secret # step.secret /\ registration.token # step.secret
                            /\ credential[step.secret] = "none")'
  BY <1>1, <1>5, <1>7, <1>8, EnrollmentAssumption DEF EnrollmentInv, EnrollmentCoherent, Awaits
<1>10. ((step.kind = "status" /\ step.answer = "read" /\ claim.secret = step.secret) => claim.approved)'
  <2>1. step.kind = "status" => step.secret \in Secrets
    BY DEF EnrollmentInv, EnrollmentTypeOK, Idle
  <2> QED
    BY <1>1, <1>6, <2>1 DEF EnrollmentInv, EnrollmentCoherent
<1>11. (\A x \in Secrets : (Waits(x) /\ claim.secret = x /\ enrollmentState = "ACTIVE") => claim.approved)'
  BY <1>1, <1>6 DEF Waits
<1>12. (~late => \A x \in Secrets : credential[x] = "live" =>
                    claim.secret = x /\ enrollmentState # "REVOKED")'
  BY <1>1, <1>2, <1>3, <1>5 DEF EnrollmentInv, EnrollmentCoherent
<1>13. EnrollmentCoherent'
  BY <1>1, <1>3, <1>9, <1>10, <1>11, <1>12 DEF EnrollmentInv, EnrollmentCoherent, EnrollmentState
<1>14. CredentialWasApproved'
  BY <1>5, <1>6 DEF EnrollmentInv, CredentialWasApproved
<1> QED
  BY <1>4, <1>13, <1>14 DEF EnrollmentInv

\* The operator's restart forgets the token: a poll under way is one of no token.
LEMMA RestartKeeps == ASSUME EnrollmentInv, restart_enrollment PROVE EnrollmentInv'
<1>1. /\ registration' = [state |-> "UNREGISTERED", token |-> NoSecret, credential |-> NoSecret]
      /\ changes' \in 0..MaxChanges
      /\ UNCHANGED <<enrollmentState, claim, credential, late, step, losses>>
  BY EnrollmentAssumption DEF restart_enrollment, CentralUnchanged, EnrollmentInv, EnrollmentTypeOK
<1>2. EnrollmentTypeOK'
  BY <1>1 DEF EnrollmentInv, EnrollmentTypeOK
<1>3. Awaits("request") => step.secret # NoSecret
  BY EnrollmentAssumption DEF EnrollmentInv, EnrollmentTypeOK, Awaits, Idle
<1>4. EnrollmentCoherent'
  BY <1>1, <1>3 DEF EnrollmentInv, EnrollmentCoherent, Waits, Awaits
<1>5. CredentialWasApproved'
  BY <1>1 DEF EnrollmentInv, CredentialWasApproved
<1> QED
  BY <1>2, <1>4, <1>5 DEF EnrollmentInv

\* A lost step is as if it had not been begun, and an expired token names its claim still.
LEMMA LossKeeps == ASSUME EnrollmentInv, LoseStep \/ TokenExpires PROVE EnrollmentInv'
<1>1. /\ losses' \in 0..MaxLosses
      /\ UNCHANGED <<enrollmentState, credential, late, registration, changes>>
      /\ \/ step' = Idle /\ claim' = claim
         \/ step' = step /\ claim.live /\ claim' = [claim EXCEPT !.live = FALSE]
  BY EnrollmentAssumption
  DEF LoseStep, TokenExpires, CentralUnchanged, EnrollmentInv, EnrollmentTypeOK
<1>2. /\ claim' \in [secret: Secrets, live: BOOLEAN, approved: BOOLEAN] \cup {NoClaim}
      /\ claim'.secret = claim.secret /\ claim'.approved = claim.approved
      /\ claim' # NoClaim => claim # NoClaim
  <2>1. claim.live => claim \in [secret: Secrets, live: BOOLEAN, approved: BOOLEAN]
    BY DEF EnrollmentInv, EnrollmentTypeOK, NoClaim
  <2>2. claim.live => claim # NoClaim
    BY DEF NoClaim
  <2>3. CASE claim' = claim
    BY <2>3 DEF EnrollmentInv, EnrollmentTypeOK
  <2> QED
    BY <1>1, <2>1, <2>2, <2>3
<1>3. EnrollmentTypeOK'
  BY <1>1, <1>2 DEF EnrollmentInv, EnrollmentTypeOK
<1>4. EnrollmentCoherent'
  BY <1>1, <1>2 DEF EnrollmentInv, EnrollmentCoherent, Waits, Awaits, Idle
<1>5. CredentialWasApproved'
  BY <1>1, <1>2 DEF EnrollmentInv, CredentialWasApproved
<1> QED
  BY <1>3, <1>4, <1>5 DEF EnrollmentInv

-----------------------------------------------------------------------------

LEMMA EnrollmentInitHolds == EnrollmentInit => EnrollmentInv
<1> SUFFICES ASSUME EnrollmentInit PROVE EnrollmentInv
  OBVIOUS
<1>1. EnrollmentTypeOK
  <2>1. 0 \in 0..MaxChanges /\ 0 \in 0..MaxLosses
    BY EnrollmentAssumption
  <2>2. registration \in [state: EnrollmentState \cup {"UNREGISTERED"},
                          token: Secrets \cup {NoSecret}, credential: Secrets \cup {NoSecret}]
    BY DEF EnrollmentInit
  <2> QED
    BY <2>1, <2>2 DEF EnrollmentInit, EnrollmentTypeOK
<1>2. EnrollmentCoherent
  BY DEF EnrollmentInit, EnrollmentCoherent, Waits, Awaits, Idle
<1>3. CredentialWasApproved
  BY DEF EnrollmentInit, CredentialWasApproved
<1> QED
  BY <1>1, <1>2, <1>3 DEF EnrollmentInv

LEMMA EnrollmentStepKeeps == EnrollmentInv /\ [EnrollmentNext]_enrollmentVars => EnrollmentInv'
<1> SUFFICES ASSUME EnrollmentInv, [EnrollmentNext]_enrollmentVars PROVE EnrollmentInv'
  OBVIOUS
<1>1. CASE SiteEnrolls
  <2>1. losses \in 0..MaxLosses
    BY DEF EnrollmentInv, EnrollmentTypeOK
  <2>2. CASE request_enrollment(TRUE) /\ UNCHANGED losses
    BY <2>1, <2>2, RequestKeeps
  <2>3. CASE IssueCredential(TRUE) /\ UNCHANGED losses
    BY <2>1, <2>3, IssueKeeps
  <2> QED
    BY <1>1, <2>2, <2>3, BeginRequestKeeps, StoreAnswerKeeps, BeginPollKeeps, StorePollKeeps,
       DeliveryKeeps, StatusKeeps DEF SiteEnrolls
<1>2. CASE \E target \in EnrollmentState : Administrate(target)
  BY <1>2, AdministrateKeeps
<1>3. CASE CommitLost
  <2>1. losses' \in 0..MaxLosses
    BY <1>3, EnrollmentAssumption DEF CommitLost, EnrollmentInv, EnrollmentTypeOK
  <2> QED
    BY <1>3, <2>1, RequestKeeps, IssueKeeps DEF CommitLost
<1>4. CASE UNCHANGED enrollmentVars
  <2>1. UNCHANGED <<enrollmentState, claim, credential, registration, step, late, changes, losses>>
    BY <1>4 DEF enrollmentVars
  <2>2. EnrollmentTypeOK'
    BY <2>1 DEF EnrollmentInv, EnrollmentTypeOK
  <2>3. EnrollmentCoherent'
    BY <2>1 DEF EnrollmentInv, EnrollmentCoherent, Waits, Awaits
  <2>4. CredentialWasApproved'
    BY <2>1 DEF EnrollmentInv, CredentialWasApproved
  <2> QED
    BY <2>2, <2>3, <2>4 DEF EnrollmentInv
<1> QED
  BY <1>1, <1>2, <1>3, <1>4, RestartKeeps, LossKeeps DEF EnrollmentNext

\* The live credentials are those of the present claim, of which there is one.
LEMMA EnrollmentInvImpliesOne == EnrollmentInv => OneCredential
<1> SUFFICES ASSUME EnrollmentInv, ~late
             PROVE  Cardinality({x \in Secrets : credential[x] = "live"}) <= 1
  BY DEF OneCredential
<1> DEFINE L == {x \in Secrets : credential[x] = "live"}
<1>1. L \subseteq {claim.secret}
  BY DEF EnrollmentInv, EnrollmentCoherent
<1>2. L = {} \/ L = {claim.secret}
  BY <1>1
<1>3. Cardinality({}) = 0 /\ Cardinality({claim.secret}) = 1
  BY FS_EmptySet, FS_Singleton
<1> QED
  BY <1>2, <1>3

\* However claims, polls, approvals, revocations, re-enrollments, restarts, losses and
\* failing commits interleave, Central accepts at most one credential of a Site, unless
\* a poll raced a revocation, and a credential of the present claim means that an
\* administrator has approved that claim (enrollment_status, change_state).
THEOREM EnrollmentIsSafe == EnrollmentSpec => []EnrollmentSafe
<1>1. EnrollmentInv => EnrollmentSafe
  BY EnrollmentInvImpliesOne DEF EnrollmentInv, EnrollmentSafe
<1> QED
  BY <1>1, EnrollmentInitHolds, EnrollmentStepKeeps, PTL DEF EnrollmentSpec
=============================================================================
