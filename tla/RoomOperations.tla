---------------------------- MODULE RoomOperations ----------------------------
(***************************************************************************)
(* The rooms of a Site: the locations of the deployed program, their       *)
(* mapping to physical rooms, the assignment of sessions to rooms, the     *)
(* devices that play in a room, and the operator's dashboard.              *)
(*                                                                         *)
(* A deployment writes the sessions, makes a default room and mapping for  *)
(* every location that has none, takes over Central's own room mapping and *)
(* reconciles the assignments; an operator maps locations and edits rooms. *)
(* Both reconcile in their own transaction, at READ COMMITTED: the         *)
(* mappings and the sessions are read without a lock, then the assignments *)
(* are locked, then all is written.  What was read may be outdated by then *)
(* and a row inserted by another transaction in the meantime is not seen.  *)
(* PostgreSQL checks `ends_at > starts_at' of an assignment when it is     *)
(* ended, with ends_at the present instant: a transaction that ends the    *)
(* assignment of a session which has not started yet is rolled back        *)
(* (RoomSchedule).                                                         *)
(*                                                                         *)
(* A label is written in one of several ways that normalise alike.  Only   *)
(* active assignments are kept: an ended row is never read again.          *)
(* Revision numbers are left out; the one of update_room is optional, so a *)
(* request without it is never refused.                                    *)
(***************************************************************************)
EXTENDS Naturals, FiniteSets

CONSTANTS
    RoomIds,
    Sessions,       \* sessions of one event
    Labels,         \* spellings of locations and of room labels
    Normal,         \* normalize_program_location: the normal form of each spelling
    Devices,
    Enrolled,       \* the devices that may be assigned
    Requests,       \* requests that assign a device
    Writers,        \* transactions that reconcile: the operators' and the deployment's
    Snapshots,      \* the programs and Central's room mappings that are deployed
    Contents,       \* the contents of a presentation the dashboard is tried with
    MaxNow,         \* bound on the clock
    NoRoom, NoDevice, Direct

ASSUME RoomLabelsAssumption == Normal \in [Labels -> Labels] /\ \A l \in Labels : Normal[Normal[l]] = Normal[l]
ASSUME RoomDevicesAssumption == Enrolled \subseteq Devices /\ NoDevice \notin Devices
ASSUME RoomContentsAssumption ==
    [workflow |-> "EXPECTED", processing |-> "NOT_STARTED",
     media |-> {}, jobs |-> {}, transfers |-> {}] \in Contents
ASSUME RoomIdsAssumption == NoRoom \notin RoomIds /\ Direct \notin Labels /\ MaxNow \in Nat
ASSUME RoomRowsAssumption == "" \notin Labels /\ IsFiniteSet(Sessions)

VARIABLES
    rooms,          \* Room rows by room_id
    program,        \* Session rows of the event, as deployed
    mapping,        \* ProgramRoomMapping rows by normalised label
    assigned,       \* the active RoomAssignment of each session
    endpoint,       \* the active DeviceAssignment of each room and role
    request,        \* requests to assign a device that have read and not yet written
    contents,       \* what the Site has of the presentation of each session
    now,            \* the clock, in steps of the schedule
    tx,             \* the open transactions that reconcile
    outdated        \* history: sessions of which the last reconciliation had not seen the present rows

roomVars == <<rooms, program, mapping, assigned, endpoint, request, contents, now, tx, outdated>>

Normals == {Normal[l] : l \in Labels}
Roles == {"primary", "backup"}
NoTime == 0
Times == 0..MaxNow

\* Rows that do not exist.
Absent == [label |-> "", enabled |-> FALSE, archived |-> FALSE]
Inactive == [location |-> "", starts |-> NoTime, active |-> FALSE]
NoMapping == [room |-> NoRoom, by |-> ""]
Unassigned == [room |-> NoRoom, via |-> Direct, starts |-> NoTime]
NoEndpoint == [device |-> NoDevice, raced |-> FALSE]
NoRequest == [room |-> NoRoom, role |-> "primary", device |-> NoDevice, current |-> NoDevice,
              raced |-> FALSE]

\* A transaction that has not begun: what it writes of the mappings and of the rooms,
\* Central's assignments it adds, the mappings and sessions it has read, the sessions it
\* keeps as first loaded, and those with an assignment inserted since it asked for locks.
NoTx == [stage |-> "idle", deploys |-> FALSE,
         own |-> [l \in Normals |-> NoMapping], open |-> [r \in RoomIds |-> ""],
         placed |-> [s \in Sessions |-> Unassigned],
         m |-> [l \in Normals |-> NoMapping], p |-> [s \in Sessions |-> Inactive],
         loaded |-> {}, fresh |-> {}]

Expected == [workflow |-> "EXPECTED", processing |-> "NOT_STARTED",
             media |-> {}, jobs |-> {}, transfers |-> {}]

Operator == "site-operator"
Deployment == "deployment-auto-materialization"

Room == [label: Labels, enabled: BOOLEAN, archived: BOOLEAN]
ProgramSession == [location: Labels \cup {""}, starts: Times, active: BOOLEAN]
ProgramRoomMapping == [room: RoomIds \cup {NoRoom}, by: {Operator, Deployment}]
RoomAssignment == [room: RoomIds, via: Normals \cup {Direct}, starts: Times]
ReconcileTx == [stage: {"idle", "begun", "read", "locking"}, deploys: BOOLEAN,
                own: [Normals -> ProgramRoomMapping \cup {NoMapping}],
                open: [RoomIds -> Labels \cup {""}],
                placed: [Sessions -> RoomAssignment \cup {Unassigned}],
                m: [Normals -> ProgramRoomMapping \cup {NoMapping}],
                p: [Sessions -> ProgramSession],
                loaded: SUBSET Sessions, fresh: SUBSET Sessions]

ASSUME RoomSnapshotsAssumption ==
    \A x \in Snapshots : /\ x.program \in [Sessions -> ProgramSession]
                         /\ x.central \in [Normals -> RoomIds \cup {NoRoom}]

Exists(r) == rooms[r] # Absent
Usable(r) == Exists(r) /\ rooms[r].enabled /\ ~rooms[r].archived
Located(s) == program[s].active /\ program[s].location # ""
Location(s) == Normal[program[s].location]

RoomTypeOK ==
    /\ rooms \in [RoomIds -> Room \cup {Absent}]
    /\ \A r1, r2 \in RoomIds : Exists(r1) /\ rooms[r1].label = rooms[r2].label => r1 = r2
    /\ program \in [Sessions -> ProgramSession]
    /\ mapping \in [Normals -> ProgramRoomMapping \cup {NoMapping}]
    /\ assigned \in [Sessions -> RoomAssignment \cup {Unassigned}]
    /\ endpoint \in [RoomIds \X Roles -> [device: Devices \cup {NoDevice}, raced: BOOLEAN]]
    /\ request \in [Requests -> [room: RoomIds \cup {NoRoom}, role: Roles,
                                 device: Devices \cup {NoDevice},
                                 current: Devices \cup {NoDevice}, raced: BOOLEAN]]
    /\ contents \in [Sessions -> Contents]
    /\ now \in Times
    /\ tx \in [Writers -> ReconcileTx]
    /\ outdated \subseteq Sessions

RoomInit ==
    /\ rooms = [r \in RoomIds |-> Absent]
    /\ program = [s \in Sessions |-> Inactive]
    /\ mapping = [l \in Normals |-> NoMapping]
    /\ assigned = [s \in Sessions |-> Unassigned]
    /\ endpoint = [e \in RoomIds \X Roles |-> NoEndpoint]
    /\ request = [q \in Requests |-> NoRequest]
    /\ contents = [s \in Sessions |-> Expected]
    /\ now = NoTime
    /\ tx = [w \in Writers |-> NoTx]
    /\ outdated = {}

-----------------------------------------------------------------------------
(* Reconciliation of the assignments with the mappings.                    *)

\* materialize_program_room_mappings: the room a location p of the new program gets.
\* The spelling is that of the first session, the room the one of that label, else
\* the only one of the same normal form, else a new one; two of the same normal form
\* leave the location unmapped.
Spelled(p, l) == {p[s].location : s \in {s \in Sessions : p[s].active /\ p[s].location # ""
                                                         /\ Normal[p[s].location] = l}}
Alike(l) == {r \in RoomIds : Exists(r) /\ Normal[rooms[r].label] = l}
Exactly(x) == {r \in RoomIds : Exists(r) /\ rooms[r].label = x}
RoomsFor(x) == IF Exactly(x) # {} THEN Exactly(x) ELSE Alike(Normal[x])

\* The assignments of program p under mappings m, from the assignments a:
\* an assignment whose mapping no longer applies is ended, then every located session
\* of a mapped label is assigned, or unassigned if the label is mapped to no room.
Desired(p, m, s, a) ==
    /\ m[a.via].room # NoRoom
    /\ p[s].active /\ p[s].location # "" /\ Normal[p[s].location] = a.via

Kept(p, m, a) ==
    [s \in Sessions |-> IF a[s] = Unassigned \/ a[s].via = Direct \/ Desired(p, m, s, a[s])
                        THEN a[s] ELSE Unassigned]

reconcile_without_unmaps(p, m, a) ==
    [s \in Sessions |->
        IF ~(p[s].active /\ p[s].location # "") \/ m[Normal[p[s].location]].room = NoRoom
        THEN Kept(p, m, a)[s]
        ELSE [room |-> m[Normal[p[s].location]].room, via |-> Normal[p[s].location],
              starts |-> p[s].starts]]

reconcile_program_room_assignments(p, m, a) ==
    [s \in Sessions |->
        IF ~(p[s].active /\ p[s].location # "") \/ m[Normal[p[s].location]] = NoMapping
        THEN Kept(p, m, a)[s]
        ELSE LET l == Normal[p[s].location]
             IN  IF m[l].room = NoRoom THEN Unassigned
                 ELSE [room |-> m[l].room, via |-> l, starts |-> p[s].starts]]

\* The check constraint of the ended rows: the clock is past the start of each.
EndsAfterStart(a) == a.starts = NoTime \/ now > a.starts

RoomSchedule(p, m, a) ==
    \A s \in Sessions :
        /\ Kept(p, m, a)[s] = Unassigned => EndsAfterStart(a[s])
        /\ reconcile_program_room_assignments(p, m, a)[s] = Unassigned => EndsAfterStart(a[s])

-----------------------------------------------------------------------------
(* The transactions.                                                       *)

\* _upsert_snapshot with program p and Central's mapping c of normalised labels:
\* default rooms and mappings for the locations Central has not mapped, then an
\* assignment for every session Central has mapped to a room of this Site and that
\* has none, then the reconciliation.  Any failure undoes all of it.
NewSpellings(p, c) ==
    {x \in Labels : \E s \in Sessions :
        /\ p[s].active /\ p[s].location = x
        /\ mapping[Normal[x]] = NoMapping /\ c[Normal[x]] = NoRoom
        /\ x = CHOOSE y \in Spelled(p, Normal[x]) : TRUE}

materialize_over_unmaps(p, c, pick) ==
    [l \in Normals |->
        IF mapping[l].room = NoRoom /\ c[l] = NoRoom /\ Spelled(p, l) # {} /\ Alike(l) # {}
        THEN [room |-> CHOOSE r \in Alike(l) : TRUE, by |-> Deployment]
        ELSE mapping[l]]

materialize_program_room_mappings(p, c, pick) ==
    [l \in Normals |->
        IF \E x \in NewSpellings(p, c) : Normal[x] = l /\ Cardinality(RoomsFor(x)) < 2
        THEN [room |-> pick[CHOOSE x \in NewSpellings(p, c) : Normal[x] = l], by |-> Deployment]
        ELSE mapping[l]]

CentrallyAssigned(p, c) ==
    [s \in Sessions |->
        IF p[s].active /\ p[s].location # "" /\ assigned[s] = Unassigned
           /\ c[Normal[p[s].location]] # NoRoom /\ Exists(c[Normal[p[s].location]])
        THEN [room |-> c[Normal[p[s].location]], via |-> Direct, starts |-> p[s].starts]
        ELSE assigned[s]]

\* The mapping rows a transaction has inserted or locked.  A deployment inserts before
\* it reads, an operator's request locks or inserts after its first look at the program.
Owns(t, l) == /\ t.own[l] # NoMapping
              /\ t.stage \in {"read", "locking"} \/ (t.deploys /\ t.stage = "begun")

Opening(r) == \E w \in Writers : tx[w].open[r] # ""

\* One snapshot is applied at a time.
DeployProgram(w, p, c) ==
    /\ tx[w] = NoTx
    /\ \A x \in Writers : ~tx[x].deploys
    /\ \E pick \in [NewSpellings(p, c) -> RoomIds] :
        LET m == materialize_program_room_mappings(p, c, pick)
            new == {x \in NewSpellings(p, c) : RoomsFor(x) = {}}
            a == CentrallyAssigned(p, c)
        IN  /\ \A x \in NewSpellings(p, c) :
                  IF x \in new THEN ~Exists(pick[x]) ELSE pick[x] \in RoomsFor(x)
            /\ \A x, y \in new : pick[x] = pick[y] => x = y
            /\ \A l \in Normals, x \in Writers : m[l] # mapping[l] => ~Owns(tx[x], l)
            /\ tx' = [tx EXCEPT ![w] = [NoTx EXCEPT
                         !.stage = "begun", !.deploys = TRUE, !.loaded = Sessions, !.p = p,
                         !.own = [l \in Normals |-> IF m[l] = mapping[l] THEN NoMapping ELSE m[l]],
                         !.open = [r \in RoomIds |-> IF \E x \in new : pick[x] = r
                                                     THEN CHOOSE x \in new : pick[x] = r ELSE ""],
                         !.placed = [s \in Sessions |-> IF a[s] = assigned[s] THEN Unassigned ELSE a[s]]]]
    /\ UNCHANGED <<rooms, program, mapping, assigned, endpoint, request, contents, now, outdated>>

\* PUT program-room-mappings: the operator maps a location of the deployed program to
\* a usable room, or to none.
save_mapping(w, l, r) ==
    /\ tx[w] = NoTx
    /\ r # NoRoom => Usable(r)
    /\ \E s \in Sessions :
          /\ Located(s) /\ Location(s) = l
          /\ tx' = [tx EXCEPT ![w] = [NoTx EXCEPT
                       !.stage = "begun", !.loaded = {s}, !.p = program,
                       !.own = [n \in Normals |-> IF n = l THEN [room |-> r, by |-> Operator]
                                                  ELSE NoMapping]]]
    /\ UNCHANGED <<rooms, program, mapping, assigned, endpoint, request, contents, now, outdated>>

\* The rows of the sessions as a transaction reads them now: the ones it has loaded stay.
Reread(w) == [s \in Sessions |-> IF s \in tx[w].loaded THEN tx[w].p[s] ELSE program[s]]

\* The mappings with the rows of a transaction.
Overlaid(own) == [l \in Normals |-> IF own[l] # NoMapping THEN own[l] ELSE mapping[l]]

ReadMappings_unlocked(w) ==
    /\ tx[w].stage = "begun"
    /\ tx' = [tx EXCEPT ![w].stage = "read", ![w].m = Overlaid(tx[w].own), ![w].p = Reread(w)]
    /\ UNCHANGED <<rooms, program, mapping, assigned, endpoint, request, contents, now, outdated>>

\* The first half of reconcile_program_room_assignments: the mapping row is locked or
\* inserted, and the mappings and the sessions are read without locks.
ReadMappings(w) ==
    /\ tx[w].stage = "begun"
    /\ \A l \in Normals, x \in Writers \ {w} : tx[w].own[l] # NoMapping => ~Owns(tx[x], l)
    /\ tx' = [tx EXCEPT ![w].stage = "read", ![w].m = Overlaid(tx[w].own), ![w].p = Reread(w)]
    /\ UNCHANGED <<rooms, program, mapping, assigned, endpoint, request, contents, now, outdated>>

\* The sessions are read, at the latest, when the assignments are asked for FOR UPDATE.
LockAssignments(w) ==
    /\ tx[w].stage = "read"
    /\ \E p \in {tx[w].p, Reread(w)} :
          tx' = [tx EXCEPT ![w].stage = "locking", ![w].p = p, ![w].fresh = {}]
    /\ UNCHANGED <<rooms, program, mapping, assigned, endpoint, request, contents, now, outdated>>

\* The assignments a transaction sees once it has the locks: its own, and the present
\* state of those that were there when it asked.
VisibleTo(t) == [s \in Sessions |-> IF t.placed[s] # Unassigned THEN t.placed[s]
                              ELSE IF s \in t.fresh THEN Unassigned ELSE assigned[s]]

ReconciledBy(t) == reconcile_program_room_assignments(t.p, t.m, VisibleTo(t))
Unseen(t, s) == s \in t.fresh /\ assigned[s] # Unassigned

\* The assignments a commit inserts.
Inserted(t) == {s \in Sessions : \/ t.placed[s] # Unassigned
                                 \/ Kept(t.p, t.m, VisibleTo(t))[s] = Unassigned /\ ReconciledBy(t)[s] # Unassigned}

\* The sessions of which a transaction has not seen the rows that are there after it.
Overlooked(t, p, m) ==
    {s \in Sessions : \/ s \in t.fresh \/ t.p[s] # p[s]
                      \/ p[s].location # "" /\ t.m[Normal[p[s].location]] # m[Normal[p[s].location]]}

\* The second half: with the locks, all is written and committed.  The check
\* constraint, the one active assignment of a session and the labels of the rooms are
\* kept by the database, which refuses the transaction otherwise.
CommitProgram(w) ==
    LET t == tx[w]
    IN  /\ t.stage = "locking"
        /\ RoomSchedule(t.p, t.m, VisibleTo(t))
        /\ \A s \in Sessions : /\ t.placed[s] # Unassigned => assigned[s] = Unassigned
                               /\ Unseen(t, s) => ReconciledBy(t)[s] = Unassigned
        /\ \A r \in RoomIds : t.open[r] # "" => ~Exists(r) /\ Exactly(t.open[r]) = {}
        /\ program' = IF t.deploys THEN t.p ELSE program
        /\ mapping' = Overlaid(t.own)
        /\ rooms' = [r \in RoomIds |-> IF t.open[r] = "" THEN rooms[r]
                                       ELSE [label |-> t.open[r], enabled |-> TRUE, archived |-> FALSE]]
        /\ assigned' = [s \in Sessions |-> IF Unseen(t, s) THEN assigned[s] ELSE ReconciledBy(t)[s]]
        /\ outdated' = Overlooked(t, program', mapping')
        /\ tx' = [x \in Writers |->
                     IF x = w THEN NoTx
                     ELSE IF tx[x].stage = "locking" THEN [tx[x] EXCEPT !.fresh = @ \cup Inserted(t)]
                     ELSE tx[x]]
        /\ UNCHANGED <<endpoint, request, contents, now>>

\* A constraint, a deadlock or a crash undoes all of it.
RollBack(w) ==
    /\ tx[w] # NoTx
    /\ tx' = [tx EXCEPT ![w] = NoTx]
    /\ UNCHANGED <<rooms, program, mapping, assigned, endpoint, request, contents, now, outdated>>

create_room(r, l) ==
    /\ ~Exists(r) /\ ~Opening(r) /\ Exactly(l) = {}
    /\ rooms' = [rooms EXCEPT ![r] = [label |-> l, enabled |-> TRUE, archived |-> FALSE]]
    /\ UNCHANGED <<program, mapping, assigned, endpoint, request, contents, now, tx, outdated>>

\* update_room, one field of its payload at a time.
rename_room(r, l) ==
    /\ Exists(r) /\ Exactly(l) = {}
    /\ rooms' = [rooms EXCEPT ![r].label = l]
    /\ UNCHANGED <<program, mapping, assigned, endpoint, request, contents, now, tx, outdated>>

enable_room(r, on) ==
    /\ Exists(r) /\ rooms[r].enabled # on
    /\ rooms' = [rooms EXCEPT ![r].enabled = on]
    /\ UNCHANGED <<program, mapping, assigned, endpoint, request, contents, now, tx, outdated>>

archive_room_keeps_devices(r) ==
    /\ Exists(r) /\ ~rooms[r].archived
    /\ rooms' = [rooms EXCEPT ![r] = [@ EXCEPT !.archived = TRUE, !.enabled = FALSE]]
    /\ UNCHANGED <<program, mapping, assigned, endpoint, request, contents, now, tx, outdated>>

\* Archiving ends the device assignments it finds; a request that has looked at the
\* room before does not notice.
archive_room(r) ==
    /\ Exists(r) /\ ~rooms[r].archived
    /\ rooms' = [rooms EXCEPT ![r] = [@ EXCEPT !.archived = TRUE, !.enabled = FALSE]]
    /\ endpoint' = [e \in RoomIds \X Roles |-> IF e[1] = r THEN NoEndpoint ELSE endpoint[e]]
    /\ request' = [q \in Requests |-> [request[q] EXCEPT !.raced = @ \/ request[q].room = r]]
    /\ UNCHANGED <<program, mapping, assigned, contents, now, tx, outdated>>

restore_room(r) ==
    /\ Exists(r) /\ rooms[r].archived
    /\ rooms' = [rooms EXCEPT ![r] = [@ EXCEPT !.archived = FALSE, !.enabled = TRUE]]
    /\ UNCHANGED <<program, mapping, assigned, endpoint, request, contents, now, tx, outdated>>

Busy(d) == {e \in RoomIds \X Roles : endpoint[e].device = d}

\* assign_device reads the room, locks the present assignment of the role, and checks
\* the device; a second request for a locked assignment waits.
assign_device(q, r, role, d) ==
    /\ request[q] = NoRequest
    /\ Usable(r)
    /\ endpoint[<<r, role>>] # NoEndpoint =>
          \A x \in Requests : request[x].room = r => request[x].role # role
    /\ d # NoDevice => d \in Enrolled /\ Busy(d) \subseteq {<<r, role>>}
    /\ request' = [request EXCEPT ![q] = [room |-> r, role |-> role, device |-> d,
                                         current |-> endpoint[<<r, role>>].device, raced |-> FALSE]]
    /\ UNCHANGED <<rooms, program, mapping, assigned, endpoint, contents, now, tx, outdated>>

\* ... and writes, unless the device is the present one.  The two unique indexes
\* refuse a second active assignment of the role or of the device.
CommitDevice(q) ==
    LET e == <<request[q].room, request[q].role>>
        d == request[q].device
        current == request[q].current
    IN  /\ request[q] # NoRequest
        /\ request' = [request EXCEPT ![q] = NoRequest]
        /\ endpoint' = [endpoint EXCEPT ![e] =
                            IF d = current THEN @
                            ELSE IF d = NoDevice THEN NoEndpoint
                            ELSE IF Busy(d) = {} /\ @.device \in {current, NoDevice}
                                 THEN [device |-> d, raced |-> request[q].raced]
                            ELSE @]
        /\ UNCHANGED <<rooms, program, mapping, assigned, contents, now, tx, outdated>>

\* Time passes; media arrive and are processed.
RoomClock == now < MaxNow /\ now' = now + 1
             /\ UNCHANGED <<rooms, program, mapping, assigned, endpoint, request, contents, tx, outdated>>

ContentsChange(s, c) == contents' = [contents EXCEPT ![s] = c]
                        /\ UNCHANGED <<rooms, program, mapping, assigned, endpoint, request, now, tx, outdated>>

-----------------------------------------------------------------------------
(* The operator's view.                                                    *)

\* _presentation_state of the media, jobs and status of a presentation; the first
\* rule that applies decides.
Failed == {"FAILED", "EXHAUSTED"}
Waiting == {"PENDING", "RETRY_WAIT"}

_presentation_state_media_first(c) ==
    IF "AVAILABLE" \in c.media THEN "uploaded"
    ELSE IF c.jobs \cap Failed # {} \/ c.transfers \cap Failed # {} THEN "error" ELSE "missing"

_presentation_state(c) ==
    IF c.processing = "FAILED" \/ "FAILED" \in c.media
       \/ c.jobs \cap Failed # {} \/ c.transfers \cap Failed # {} THEN "error"
    ELSE IF "RUNNING" \in c.transfers THEN "transferring"
    ELSE IF c.transfers \cap Waiting # {} THEN "transfer_pending"
    ELSE IF c.media \cap {"STAGING", "FINALIZING"} # {}
            \/ c.jobs \cap (Waiting \cup {"RUNNING"}) # {}
            \/ c.processing \in {"QUEUED", "PROCESSING"} THEN "processing"
    ELSE IF "AVAILABLE" \in c.media
         THEN IF c.processing = "SUCCEEDED" \/ "SUCCEEDED" \in c.jobs THEN "ready" ELSE "uploaded"
    ELSE IF c.workflow \in {"ARCHIVED", "CANCELLED"} THEN "not_required"
    ELSE "missing"

\* The sessions of a room, and how many of their presentations are in a state.
SessionsIn(r) == {s \in Sessions : assigned[s].room = r /\ program[s].active}
Counted(r, state) == Cardinality({s \in SessionsIn(r) : _presentation_state(contents[s]) = state})

program_locations_mapped_only(l) ==
    [status |-> IF mapping[l].room = NoRoom THEN "unmapped" ELSE "mapped", room |-> mapping[l].room]

\* program_locations: the room shown for a location, from its mapping or, without one,
\* from the assignments of its sessions.
program_locations(l) ==
    LET inferred == {assigned[s].room : s \in {s \in Sessions : Located(s) /\ Location(s) = l}}
                    \ {NoRoom}
    IN  IF mapping[l] # NoMapping
        THEN [status |-> IF mapping[l].room = NoRoom THEN "unmapped" ELSE "mapped",
              room |-> mapping[l].room]
        ELSE IF Cardinality(inferred) = 1
        THEN [status |-> "mapped", room |-> CHOOSE r \in inferred : TRUE]
        ELSE [status |-> IF inferred = {} THEN "unmapped" ELSE "conflict", room |-> NoRoom]

\* _summary: an assigned device never reports telemetry.
Health(r) ==
    CASE ~Usable(r) -> "disabled"
      [] Usable(r) /\ Counted(r, "error") > 0 -> "error"
      [] Usable(r) /\ Counted(r, "error") = 0
         /\ (Counted(r, "missing") > 0 \/ endpoint[<<r, "primary">>] = NoEndpoint) -> "warning"
      [] OTHER -> "unknown"

\* operational_dashboard: what the operator's attention is drawn to.
Attention ==
    LET shown == {r \in RoomIds : Usable(r)}
    IN  {<<"primary_unassigned", r>> : r \in {r \in shown : endpoint[<<r, "primary">>] = NoEndpoint}}
        \cup {<<"media_missing", r>> : r \in {r \in shown : Counted(r, "missing") > 0}}
        \cup {<<"presentation_error", r>> : r \in {r \in shown : Counted(r, "error") > 0}}

-----------------------------------------------------------------------------

ProgramNext ==
    \/ \E w \in Writers, x \in Snapshots : DeployProgram(w, x.program, x.central)
    \/ \E w \in Writers, l \in Normals, r \in RoomIds \cup {NoRoom} : save_mapping(w, l, r)
    \/ \E w \in Writers : ReadMappings(w) \/ LockAssignments(w) \/ CommitProgram(w) \/ RollBack(w)
    \/ RoomClock

EndpointNext ==
    \/ \E q \in Requests, r \in RoomIds, role \in Roles, d \in Devices \cup {NoDevice} :
          assign_device(q, r, role, d)
    \/ \E q \in Requests : CommitDevice(q)

EditNext ==
    \/ \E r \in RoomIds, l \in Labels : create_room(r, l) \/ rename_room(r, l)
    \/ \E r \in RoomIds : archive_room(r) \/ restore_room(r)
    \/ \E r \in RoomIds, on \in BOOLEAN : enable_room(r, on)

RoomNext ==
    \/ ProgramNext \/ EndpointNext \/ EditNext
    \/ \E s \in Sessions, c \in Contents : ContentsChange(s, c)

RoomSpec == RoomInit /\ [][RoomNext]_roomVars

-----------------------------------------------------------------------------

\* Whatever the order of deployments, operator mappings and edits, a located session
\* of a mapped label is assigned to the room of the mapping, and a session of a label
\* that is mapped to no room is not assigned, unless the last reconciliation had read the
\* session or the mapping before another transaction changed it, or had asked for the
\* assignments before another one inserted that of the session
\* (reconcile_program_room_assignments).
FollowsMapping ==
    \A s \in Sessions \ outdated :
        Located(s) /\ mapping[Location(s)] # NoMapping =>
            /\ assigned[s].room = mapping[Location(s)].room
            /\ assigned[s] # Unassigned => assigned[s].via = Location(s)

\* What the operator is shown of a location is true of every session there, those of an
\* outdated reconciliation apart: none is in another room than the one shown, and none is
\* in a room when it is shown unmapped (program_locations).
LocationsTruthful ==
    \A s \in Sessions \ outdated :
        LET view == program_locations(Location(s))
        IN  Located(s) /\ assigned[s] # Unassigned /\ view.status # "conflict" =>
                view.status = "mapped" /\ assigned[s].room = view.room

\* A deployment never changes a mapping that exists, in particular not one the
\* operator has deliberately set to no room (materialize_program_room_mappings).
MappingsSurvive ==
    [][program' # program => \A l \in Normals : mapping[l] # NoMapping => mapping'[l] = mapping[l]]_roomVars

\* What is read can be written: a deployment or an operator may move or unmap every
\* location, as the authority of the Site demands (reconcile_program_room_assignments).
UpcomingMoves ==
    \A w \in Writers : tx[w].stage = "locking" => RoomSchedule(tx[w].p, tx[w].m, VisibleTo(tx[w]))

\* An archived room has no active device, unless the request that assigned it had
\* looked at the room before it was archived (update_room and assign_device).
ArchivedHasNoDevice ==
    \A r \in RoomIds, role \in Roles :
        rooms[r].archived /\ endpoint[<<r, role>>] # NoEndpoint => endpoint[<<r, role>>].raced

\* A request to assign a device that does not know of an archiving has none to know
\* of: its room is not archived (assign_device and update_room).
RequestsNotice ==
    \A q \in Requests :
        request[q].room \in RoomIds /\ rooms[request[q].room].archived => request[q].raced

\* No failed media or job of a session that is assigned to a usable room stays out of
\* the dashboard, and a room is never reported better than its worst presentation.
FailuresShown ==
    \A r \in RoomIds : \A s \in SessionsIn(r) :
        Usable(r) /\ (contents[s].transfers \cup contents[s].jobs) \cap Failed # {} =>
            <<"presentation_error", r>> \in Attention /\ Health(r) = "error"

\* Rooms at the Site: the assignments follow the mappings, what the operator is shown
\* of locations and failures is true, and an archived room has no device but one that a
\* racing request put there (reconcile_program_room_assignments, program_locations,
\* update_room, _presentation_state).
RoomsSafe ==
    /\ RoomTypeOK
    /\ FollowsMapping
    /\ LocationsTruthful
    /\ ArchivedHasNoDevice
    /\ RequestsNotice
    /\ FailuresShown

\* What a deployment may not do to the rooms: override the operator's mapping, however
\* the two transactions overlap (materialize_program_room_mappings).
RoomsKept == MappingsSurvive
=============================================================================
