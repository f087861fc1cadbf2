----------------------------- MODULE MCOperations -----------------------------
(***************************************************************************)
(* The components that do not interact in the feeds, on small instances.   *)
(* An initial state chooses a world; in a world one component runs, some   *)
(* of its operations only, and the others stand still.                     *)
(***************************************************************************)
EXTENDS RoomOperations, Enrollment, Lifecycle, PresentationVersions, MediaPush, SiteShare, SmbFolders

CONSTANTS r1, k1, k2, s1, s2, i1, i2, v1, b1, t1, f1, w1

VARIABLE world

Worlds == {"rooms", "overlap", "devices", "dashboard", "enrollment", "deletion", "sweep", "intake", "crossing", "talks", "push",
           "scan", "share", "folders"}

vars == <<world, roomVars, enrollmentVars, lifecycleVars,
          versionVars, pushVars, shareVars, folderVars>>

-----------------------------------------------------------------------------
(* Rooms: two spellings of one label, another label, and two sessions that *)
(* start at different times; one transaction at a time and the clock, or a *)
(* deployment and the requests of two operators.                           *)

MCNormal == "Hall" :> "hall" @@ "hall" :> "hall" @@ "Expo" :> "Expo"

MCContents ==
    {Expected,
     [Expected EXCEPT !.media = {"AVAILABLE"}, !.processing = "SUCCEEDED"],
     [Expected EXCEPT !.media = {"AVAILABLE"}, !.transfers = {"EXHAUSTED"}],
     [Expected EXCEPT !.media = {"STAGING"}, !.jobs = {"FAILED", "RUNNING"}],
     [Expected EXCEPT !.transfers = {"RUNNING", "PENDING"}]}

At(location, starts) == [location |-> location, starts |-> starts, active |-> TRUE]

MCSnapshots ==
    {[program |-> s1 :> x @@ s2 :> y, central |-> "hall" :> NoRoom @@ "Expo" :> r] :
        x \in {At("Hall", 1), At("Expo", 1), At("hall", 2), Inactive},
        y \in {At("Hall", 0)}, r \in {NoRoom, r1}}

Deploys(w, starts, rs) ==
    \E x \in Snapshots : /\ x.program[s1].starts \in starts /\ x.central["Expo"] \in rs
                         /\ DeployProgram(w, x.program, x.central)

Reconciles(w) == ReadMappings(w) \/ LockAssignments(w) \/ CommitProgram(w) \/ RollBack(w)

RoomsWorld ==
    \/ world = "rooms" /\ (\/ Deploys(k1, Times, {NoRoom})
                           \/ \E l \in Normals, r \in RoomIds \cup {NoRoom} : save_mapping(k1, l, r)
                           \/ Reconciles(k1) \/ RoomClock
                           \/ \E l \in {"Hall", "hall"} : create_room(r1, l)
                           \/ archive_room(r1))
    \/ world = "overlap" /\ (\/ Deploys(k1, {1}, {NoRoom, r1})
                             \/ \E r \in {r1, NoRoom} : save_mapping(k1, "hall", r) \/ save_mapping(k2, "Expo", r)
                             \/ \E w \in Writers : Reconciles(w))
    \/ world = "devices" /\ (\/ EndpointNext
                             \/ \E r \in RoomIds : create_room(r, "Hall")
                             \/ \E r \in RoomIds : archive_room(r) \/ restore_room(r))
    \/ world = "dashboard" /\ (\/ Deploys(k1, Times, {NoRoom}) \/ Reconciles(k1)
                               \/ \E l \in Labels : rename_room(r1, l)
                               \/ \E on \in BOOLEAN : enable_room(r1, on)
                               \/ \E c \in Contents : ContentsChange(s2, c))

-----------------------------------------------------------------------------
(* Deletions: of an event and of a person who joins it, or of everybody    *)
(* and of one of them as well.                                             *)

MCEnlisted == {<<i1, v1>>}

LifecycleWorld ==
    \/ world = "deletion" /\ LifecycleNext({i2, v1})
    \/ world = "sweep" /\ LifecycleNext({b1, i1})

-----------------------------------------------------------------------------
(* Versions: the files of one presentation, one file between both sides,   *)
(* and presentations of which two have the same identifier.                *)

MCIdentifier == [t \in Talks |-> IF t = t1 THEN "A" ELSE "B"]

VersionsWorld ==
    \/ world = "intake" /\ (\/ SiteReceives
                            \/ create_local_version(t1)
                            \/ \E f \in MediaIds : confirm_one(f, t1)
                            \/ apply_site_event)
    \/ world = "crossing" /\ (\/ Exchange
                              \/ push_snapshot
                              \/ promote_and_assign(t1)
                              \/ create_local_version(t1)
                              \/ \E v \in Ids : _create_staging(f1, v)
                              \/ Hashed(f1) \/ MarkAvailable(f1) \/ Replicated(f1))
    \/ world = "talks" /\ (\/ Exchange
                           \/ push_snapshot
                           \/ \E t \in Talks : \/ CentralAddsTalk(t)
                                              \/ create_local_presentation(t)
                                              \/ create_local_version(t)
                           \/ \E t \in Talks \ {t1} : promote_and_assign(t))

-----------------------------------------------------------------------------
(* The share: two workers and one file, or one worker, failures and users  *)
(* who replace files.                                                      *)

ShareWorld ==
    \/ world = "scan" /\ (\/ \E w \in ShareWorkers : \/ ShareWorks(w) \/ ShareWorkerDies(w)
                                                     \/ \E i \in LiveScans : ShareScanFails(w, i)
                          \/ \E p \in Paths : dropped = 0 /\ DropFile(p, 1)
                          \/ \E k \in Drops : OrphanCompletes(k))
    \/ world = "share" /\ (ShareWorks(w1) \/ WorkFails(w1) \/ ShareUsers \/ \E k \in Drops : OrphanCompletes(k))

-----------------------------------------------------------------------------
(* The view: three presentations of one name, or two and a third whose     *)
(* name is shortened to theirs, of one import; the second one changes.     *)

MCNamings == {[full |-> <<1, 1, 1>>, short |-> <<1, 1, 1>>],
              [full |-> <<1, 1, 2>>, short |-> <<1, 1, 1>>]}
MCIdPrefix == <<7, 7, 7>>

NoFiles == \A d \in Decks : ~decks[d].available

FoldersWorld ==
    world = "folders" /\ (ViewWorks \/ ViewService \/ GiveUpPass \/ RestartViewWorker \/ DeckChanges(2))

-----------------------------------------------------------------------------

Init == /\ world \in Worlds
        /\ RoomInit /\ EnrollmentInit /\ LifecycleInit
        /\ VersionInit /\ PushInit /\ ShareInit /\ FoldersInit
        /\ world # "folders" => NoFiles /\ naming = CHOOSE n \in Namings : TRUE

Next ==
    /\ UNCHANGED world
    /\ \/ /\ RoomsWorld
          /\ UNCHANGED <<enrollmentVars, lifecycleVars, versionVars, pushVars, shareVars, folderVars>>
       \/ /\ world = "enrollment" /\ EnrollmentNext
          /\ UNCHANGED <<roomVars, lifecycleVars, versionVars, pushVars, shareVars, folderVars>>
       \/ /\ LifecycleWorld
          /\ UNCHANGED <<roomVars, enrollmentVars, versionVars, pushVars, shareVars, folderVars>>
       \/ /\ VersionsWorld
          /\ UNCHANGED <<roomVars, enrollmentVars, lifecycleVars, pushVars, shareVars, folderVars>>
       \/ /\ world = "push" /\ PushNext
          /\ UNCHANGED <<roomVars, enrollmentVars, lifecycleVars, versionVars, shareVars, folderVars>>
       \/ /\ ShareWorld
          /\ UNCHANGED <<roomVars, enrollmentVars, lifecycleVars, versionVars, pushVars, folderVars>>
       \/ /\ FoldersWorld
          /\ UNCHANGED <<roomVars, enrollmentVars, lifecycleVars, versionVars, pushVars, shareVars>>

Spec == /\ Init /\ [][Next]_vars
        /\ WF_enrollmentVars(world = "enrollment" /\ SiteEnrolls)
        /\ WF_lifecycleVars(world \in {"deletion", "sweep"} /\ WorkerNext)
        /\ WF_pushVars(world = "push" /\ PushWorker)
        /\ WF_pushVars(world = "push" /\ PushHandler)
        /\ WF_shareVars(world = "share" /\ ShareWorks(w1))
        /\ \A w \in ShareWorkers : WF_shareVars(world = "scan" /\ ShareWorks(w))
        /\ SF_shareVars(world \in {"scan", "share"} /\ ShareClaims)
        /\ WF_folderVars(world = "folders" /\ ViewWorks)
        /\ WF_folderVars(world = "folders" /\ ViewService)
================================================================================
