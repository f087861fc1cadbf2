------------------------ MODULE PresentationVersions ------------------------
(***************************************************************************)
(* The versions of an event's presentations, which both sides make: the    *)
(* Site for a file its operators confirm, Central for a file it promotes.  *)
(* Each side numbers them by its own maximum.  The Site reports its        *)
(* versions with their ids through its outbox; a deployment snapshot       *)
(* carries the version NUMBERS only, and the Site gives them ids of its    *)
(* own.  The Site's files are replicated under the ids of their versions   *)
(* (MediaPush).  A Central import that has a destination Site is never     *)
(* promoted (MediaImport), so no file takes the other way.                 *)
(*                                                                         *)
(* Both queues are read in order, and an event whose application breaks a  *)
(* constraint of the database is tried again for ever (SiteOutbox,         *)
(* CentralFeed): it is a head that has no step.                            *)
(***************************************************************************)
EXTENDS Naturals, Sequences, FiniteSets, SequencesExt, FiniteSetsExt

CONSTANTS
    Talks,        \* presentations of the event
    SharedTalks,  \* those that both sides hold at first
    Identifier,   \* Identifier[t]: presentation_identifier, unique in an event
    MediaIds,     \* files received at the Site
    MaxVersions,  \* bound: version ids ever drawn
    MaxFeed       \* bound: snapshots sent

ASSUME TalksAssumption == SharedTalks \subseteq Talks /\ Talks \subseteq DOMAIN Identifier
ASSUME VersionBounds == MaxVersions \in Nat /\ MaxFeed \in Nat

VARIABLES
    siteTalks,     \* the Site's Presentation rows: talk -> active
    centralTalks,  \* Central's Presentation rows
    siteRows,      \* the Site's PresentationVersion rows, by id
    centralRows,   \* Central's
    versionReports, \* the Site outbox: presentations and versions made there
    snapshots,     \* the Central feed: the numbers of every presentation
    snapshotsMade, \* number of snapshots ever made
    intake,        \* the Site's MediaObject rows and their replication jobs
    originals,     \* the Site's ORIGINAL assets: <<version, file>>
    centralFiles,  \* Central's ORIGINAL assets: version -> "import" or "replica"
    early,         \* ghost: files confirmed while they were being finalized
    listed         \* ghost: talks that an applied snapshot listed

versionVars == <<siteTalks, centralTalks, siteRows, centralRows, versionReports, snapshots, snapshotsMade, intake,
                 originals, centralFiles, early, listed>>

Ids == 1..MaxVersions
NoVersion == 0
Version == [talk: Talks, number: Nat \ {0}, by: {"site", "central", "snapshot"}]
Report == [kind: {"talk", "version"}, id: Ids \cup {NoVersion}, talk: Talks]
Unreceived == [availability |-> "NONE", hashed |-> FALSE, job |-> "NONE", confirmed |-> NoVersion]

\* The unique constraint on the number of a version.
OneRowEach(rows) ==
    \A v, w \in DOMAIN rows :
        v # w => <<rows[v].talk, rows[v].number>> # <<rows[w].talk, rows[w].number>>

VersionTypeOK ==
    /\ \A t \in DOMAIN siteTalks : siteTalks[t] \in BOOLEAN
    /\ centralTalks \subseteq Talks
    /\ DOMAIN siteRows \subseteq Ids /\ \A v \in DOMAIN siteRows : siteRows[v] \in Version
    /\ DOMAIN centralRows \subseteq Ids /\ \A v \in DOMAIN centralRows : centralRows[v] \in Version
    /\ intake \in [MediaIds -> [availability: {"NONE", "STAGING", "FINALIZING", "AVAILABLE", "FAILED"},
                                hashed: BOOLEAN, job: {"NONE", "PENDING", "SUCCEEDED"},
                                confirmed: Ids \cup {NoVersion}]]
    /\ originals \subseteq (DOMAIN siteRows) \X MediaIds
    /\ DOMAIN centralFiles \subseteq DOMAIN centralRows /\ snapshotsMade \in 0..MaxFeed
    /\ OneRowEach(siteRows) /\ OneRowEach(centralRows)
    /\ DOMAIN siteTalks \cup listed \subseteq Talks /\ early \subseteq MediaIds
    /\ versionReports \in Seq(Report)
    /\ snapshots \in Seq(Range(snapshots))

VersionInit ==
    /\ siteTalks = [t \in SharedTalks |-> TRUE] /\ centralTalks = SharedTalks
    /\ siteRows = <<>> /\ centralRows = <<>>
    /\ versionReports = <<>> /\ snapshots = <<>> /\ snapshotsMade = 0
    /\ intake = [f \in MediaIds |-> Unreceived]
    /\ originals = {} /\ centralFiles = <<>> /\ early = {} /\ listed = {}

-----------------------------------------------------------------------------
(* Versions and their numbers.                                             *)

FreshId == Cardinality(DOMAIN siteRows \cup DOMAIN centralRows) + 1    \* new_uuid7()
Numbers(rows, t) == {rows[v].number : v \in {w \in DOMAIN rows : rows[w].talk = t}}

\* max(version_number) + 1, read under the lock of the presentation row.
NextNumber(rows, t) == Max(Numbers(rows, t) \cup {0}) + 1

Newest(rows, t) ==
    LET own == {v \in DOMAIN rows : rows[v].talk = t}
    IN  IF own = {} THEN NoVersion
        ELSE CHOOSE v \in own : \A w \in own : rows[w].number <= rows[v].number

OriginalOf(v) == {f \in MediaIds : <<v, f>> \in originals}
VersionOf(f) == {v \in DOMAIN siteRows : <<v, f>> \in originals}

With(rows, key, row) == [x \in DOMAIN rows \cup {key} |-> IF x = key THEN row ELSE rows[x]]

\* The version row at the Site and the outbox row that reports it.
AddSiteVersion(t) ==
    /\ FreshId \in Ids
    /\ siteRows' = With(siteRows, FreshId, [talk |-> t, number |-> NextNumber(siteRows, t), by |-> "site"])
    /\ versionReports' = Append(versionReports, [kind |-> "version", id |-> FreshId, talk |-> t])

create_local_version(t) ==
    /\ t \in DOMAIN siteTalks
    /\ AddSiteVersion(t)
    /\ UNCHANGED <<siteTalks, centralTalks, centralRows, snapshots, snapshotsMade, intake, originals, centralFiles, early, listed>>

IdentifierFree(talks, t) == \A u \in talks : u # t => Identifier[u] # Identifier[t]

create_local_presentation(t) ==
    /\ t \notin DOMAIN siteTalks \cup centralTalks
    /\ IdentifierFree(DOMAIN siteTalks, t)
    /\ siteTalks' = With(siteTalks, t, TRUE)
    /\ versionReports' = Append(versionReports, [kind |-> "talk", id |-> NoVersion, talk |-> t])
    /\ UNCHANGED <<centralTalks, siteRows, centralRows, snapshots, snapshotsMade, intake, originals, centralFiles, early, listed>>

-----------------------------------------------------------------------------
(* A file is received: the row, its hash, its availability.                *)

\* v = NoVersion is an open file.  A version has one original (unique index).
_create_staging(f, v) ==
    /\ intake[f].availability = "NONE"
    /\ v # NoVersion => v \in DOMAIN siteRows /\ OriginalOf(v) = {}
    /\ intake' = [intake EXCEPT ![f].availability = "STAGING"]
    /\ originals' = IF v = NoVersion THEN originals ELSE originals \cup {<<v, f>>}
    /\ UNCHANGED <<siteTalks, centralTalks, siteRows, centralRows, versionReports, snapshots, snapshotsMade, centralFiles, early, listed>>

Hashed(f) ==
    /\ intake[f].availability = "STAGING"
    /\ intake' = [intake EXCEPT ![f].availability = "FINALIZING", ![f].hashed = TRUE]
    /\ UNCHANGED <<siteTalks, centralTalks, siteRows, centralRows, versionReports, snapshots, snapshotsMade, originals,
                   centralFiles, early, listed>>

\* Mutant: a file is replicated only when it is confirmed later.
MarkAvailable_only(f) ==
    /\ intake[f].availability = "FINALIZING"
    /\ intake' = [intake EXCEPT ![f].availability = "AVAILABLE"]
    /\ UNCHANGED <<siteTalks, centralTalks, siteRows, centralRows, versionReports, snapshots, snapshotsMade, originals,
                   centralFiles, early, listed>>

\* A linked file gets its replication session with the availability.  A second
\* session for the file and its version breaks a unique constraint, and the file
\* stays FINALIZING.
MarkAvailable(f) ==
    /\ intake[f].availability = "FINALIZING"
    /\ VersionOf(f) # {} => intake[f].job = "NONE"
    /\ intake' = [intake EXCEPT ![f].availability = "AVAILABLE",
                                ![f].job = IF VersionOf(f) # {} THEN "PENDING" ELSE @]
    /\ UNCHANGED <<siteTalks, centralTalks, siteRows, centralRows, versionReports, snapshots, snapshotsMade, originals,
                   centralFiles, early, listed>>

\* The upload breaks off before the object is in place.
_record_upload_failure(f) ==
    /\ intake[f].availability \in {"STAGING", "FINALIZING"}
    /\ intake' = [intake EXCEPT ![f].availability = "FAILED"]
    /\ UNCHANGED <<siteTalks, centralTalks, siteRows, centralRows, versionReports, snapshots, snapshotsMade, originals,
                   centralFiles, early, listed>>

\* Mutant: an earlier assignment is not looked up.
Confirmable_again(f, t) ==
    /\ intake[f].availability # "NONE" /\ intake[f].job = "NONE"
    /\ t \in DOMAIN siteTalks

\* The file is not an original yet; nothing asks whether it is AVAILABLE.
Confirmable(f, t) ==
    /\ intake[f].availability # "NONE"
    /\ t \in DOMAIN siteTalks
    /\ VersionOf(f) = {}

\* confirm_one under the lock of the file.  A file that was confirmed before and
\* has lost its original is linked again to the version of the audit record.
confirm_one(f, t) ==
    /\ Confirmable(f, t)
    /\ IF intake[f].confirmed \in DOMAIN siteRows
       THEN /\ siteRows[intake[f].confirmed].talk = t
            /\ originals' = originals \cup {<<intake[f].confirmed, f>>}
            /\ UNCHANGED <<siteRows, versionReports, intake, early>>
       ELSE /\ AddSiteVersion(t)
            /\ originals' = originals \cup {<<FreshId, f>>}
            /\ intake' = [intake EXCEPT ![f].confirmed = FreshId,
                                        ![f].job = IF intake[f].hashed THEN "PENDING" ELSE @]
            /\ early' = IF intake[f].hashed /\ intake[f].availability # "AVAILABLE"
                        THEN early \cup {f} ELSE early
    /\ UNCHANGED <<siteTalks, centralTalks, centralRows, snapshots, snapshotsMade, centralFiles, listed>>

-----------------------------------------------------------------------------
(* Central applies the reports of the Site.                                *)

\* Mutant: the number of the version is not looked at.
ReportApplicable_unchecked(report) ==
    IF report.kind = "talk" THEN IdentifierFree(centralTalks, report.talk)
    ELSE report.talk \in centralTalks

\* A version keeps the id and the number the Site gave it; both the identifier of
\* a presentation and the number of a version are unique at Central.
ReportApplicable(report) ==
    IF report.kind = "talk" THEN IdentifierFree(centralTalks, report.talk)
    ELSE report.talk \in centralTalks
         /\ siteRows[report.id].number \notin Numbers(centralRows, report.talk)

apply_site_event ==
    /\ versionReports # <<>> /\ ReportApplicable(Head(versionReports))
    /\ LET report == Head(versionReports)
       IN  IF report.kind = "talk"
           THEN centralTalks' = centralTalks \cup {report.talk} /\ UNCHANGED centralRows
           ELSE centralRows' = With(centralRows, report.id, siteRows[report.id]) /\ UNCHANGED centralTalks
    /\ versionReports' = Tail(versionReports)
    /\ UNCHANGED <<siteTalks, siteRows, snapshots, snapshotsMade, intake, originals, centralFiles, early,
                   listed>>

-----------------------------------------------------------------------------
(* Central's own presentations, promotions and snapshots.                  *)

\* A presentation made at Central (create_presentation); one made at the Site comes with
\* apply_site_event.
CentralAddsTalk(t) ==
    /\ t \notin centralTalks \cup DOMAIN siteTalks
    /\ IdentifierFree(centralTalks, t)
    /\ centralTalks' = centralTalks \cup {t}
    /\ UNCHANGED <<siteTalks, siteRows, centralRows, versionReports, snapshots, snapshotsMade, intake, originals, centralFiles, early, listed>>

\* Mutant: an original that is there is replaced.
Vacant_never_checked(v) == TRUE

\* ensure_confirmed_original_asset: no other original.
Vacant(v) == v \notin DOMAIN centralFiles

HasImport(v) == v \in DOMAIN centralFiles /\ centralFiles[v] = "import"

\* The newest version is taken unless an import has it, whoever made it and
\* whatever the Site holds under it; else a new one is made.  A promotion that
\* finds another original fails.
promote_and_assign(t) ==
    /\ t \in centralTalks
    /\ LET latest == Newest(centralRows, t)
           reused == latest # NoVersion /\ ~HasImport(latest)
           v == IF reused THEN latest ELSE FreshId
       IN  /\ v \in Ids /\ Vacant(v)
           /\ centralRows' = IF reused THEN centralRows ELSE With(centralRows, v,
                  [talk |-> t, number |-> NextNumber(centralRows, t), by |-> "central"])
           /\ centralFiles' = With(centralFiles, v, "import")
    /\ UNCHANGED <<siteTalks, centralTalks, siteRows, versionReports, snapshots, snapshotsMade, intake,
                   originals, early, listed>>

\* The snapshot: the presentations and, of their versions, the numbers.
push_snapshot ==
    /\ snapshotsMade < MaxFeed /\ snapshotsMade' = snapshotsMade + 1
    /\ snapshots' = Append(snapshots, [t \in centralTalks |-> Numbers(centralRows, t)])
    /\ UNCHANGED <<siteTalks, centralTalks, siteRows, centralRows, versionReports, intake, originals,
                   centralFiles, early, listed>>

-----------------------------------------------------------------------------
(* MediaPush succeeds.                                                     *)

\* Mutant: the presentation alone is looked up.
Receivable_by_talk(v) == siteRows[v].talk \in centralTalks /\ v \in Ids

\* authorize_replication_context knows the version, and it has no original.
Receivable(v) == v \in DOMAIN centralRows /\ Vacant(v)

Replicated(f) ==
    /\ intake[f].job = "PENDING"
    /\ \E v \in VersionOf(f) : /\ Receivable(v)
                              /\ centralFiles' = With(centralFiles, v, "replica")
    /\ intake' = [intake EXCEPT ![f].job = "SUCCEEDED"]
    /\ UNCHANGED <<siteTalks, centralTalks, siteRows, centralRows, versionReports, snapshots,
                   snapshotsMade, originals, early, listed>>

-----------------------------------------------------------------------------
(* The Site applies Central's snapshots.                                   *)

Missing(numbers) ==
    UNION {{t} \X (numbers[t] \ Numbers(siteRows, t)) : t \in DOMAIN numbers}

\* Mutant: only a presentation that has versions counts as listed.
Listed_with_versions(numbers) == {t \in DOMAIN numbers : numbers[t] # {}}

Listed(numbers) == DOMAIN numbers

\* Every number that is missing becomes a row with an id drawn here, and every
\* presentation the snapshot does not list is deactivated.
ApplyNumbers(numbers) ==
    LET new == SetToSeq(Missing(numbers))
        copies == {FreshId + i - 1 : i \in DOMAIN new}
    IN  /\ copies \subseteq Ids
        /\ \A t \in DOMAIN numbers : IdentifierFree(DOMAIN siteTalks, t)
        /\ siteRows' = [v \in DOMAIN siteRows \cup copies |->
               IF v \in DOMAIN siteRows THEN siteRows[v]
               ELSE [talk |-> new[v - FreshId + 1][1], number |-> new[v - FreshId + 1][2], by |-> "snapshot"]]
        /\ siteTalks' = [t \in DOMAIN siteTalks \cup DOMAIN numbers |-> t \in Listed(numbers)]
        /\ listed' = listed \cup DOMAIN numbers

apply_central_event ==
    /\ snapshots # <<>>
    /\ ApplyNumbers(Head(snapshots))
    /\ snapshots' = Tail(snapshots)
    /\ UNCHANGED <<centralTalks, centralRows, versionReports, snapshotsMade, intake, originals,
                   centralFiles, early>>

-----------------------------------------------------------------------------
(* The operators' views.                                                   *)

\* Mutant: the newest version that has a file.
Displayed_with_file(t) ==
    LET own == {v \in DOMAIN siteRows : siteRows[v].talk = t /\ OriginalOf(v) # {}}
    IN  IF own = {} THEN NoVersion
        ELSE CHOOSE v \in own : \A w \in own : siteRows[w].number <= siteRows[v].number

\* Both views show the version of the highest number.
Displayed(t) == Newest(siteRows, t)

\* presentation_operations: readiness and delivery of a presentation.
DisplayedFile(t) == IF Displayed(t) = NoVersion THEN {} ELSE OriginalOf(Displayed(t))
Ready(t) == \E f \in DisplayedFile(t) : intake[f].availability = "AVAILABLE"
Delivered(t) == \E f \in DisplayedFile(t) : intake[f].job = "SUCCEEDED"

-----------------------------------------------------------------------------

SiteMakes ==
    \/ \E t \in Talks : create_local_version(t) \/ create_local_presentation(t)
    \/ \E f \in MediaIds, t \in Talks : confirm_one(f, t)

SiteReceives ==
    \/ \E f \in MediaIds, v \in Ids \cup {NoVersion} : _create_staging(f, v)
    \/ \E f \in MediaIds : \/ Hashed(f) \/ MarkAvailable(f) \/ _record_upload_failure(f)
                           \/ Replicated(f)

CentralMakes ==
    \/ \E t \in Talks : CentralAddsTalk(t) \/ promote_and_assign(t)
    \/ push_snapshot

Exchange == apply_site_event \/ apply_central_event

VersionNext == SiteMakes \/ SiteReceives \/ CentralMakes \/ Exchange

VersionSpec == VersionInit /\ [][VersionNext]_versionVars

-----------------------------------------------------------------------------
(* Properties.                                                             *)

\* A file becomes the original of at most one version, and a version has at most
\* one original, whoever confirms, uploads or retries in whichever order.
OriginalsUnique == \A x, y \in originals : x[1] = y[1] <=> x[2] = y[2]

\* Every available original is replicated, whether it was linked before, during
\* or after its upload, and only a file that was confirmed while it was being
\* finalized has a replication and is not available.
NothingForgotten ==
    \A f \in MediaIds : VersionOf(f) # {} =>
        /\ intake[f].availability = "AVAILABLE" => intake[f].job # "NONE"
        /\ intake[f].job # "NONE" => intake[f].availability = "AVAILABLE" \/ f \in early

\* An id means the same version on both sides, and where the same number of a
\* presentation has two ids the Site's row is a copy from a snapshot or its
\* report has not been applied.
VersionsAgree ==
    /\ \A v \in DOMAIN siteRows \cap DOMAIN centralRows : siteRows[v] = centralRows[v]
    /\ \A v \in DOMAIN siteRows, w \in DOMAIN centralRows :
           (v # w /\ siteRows[v].talk = centralRows[w].talk /\ siteRows[v].number = centralRows[w].number)
           => \/ siteRows[v].by = "snapshot"
              \/ \E i \in DOMAIN versionReports : versionReports[i].id = v

\* A file is replicated only under a version the Site made and reported: a file
\* uploaded to the Site's copy of one of Central's versions never is.
ReplicatedUnderSiteVersion ==
    \A f \in MediaIds : intake[f].job = "SUCCEEDED" =>
        \A v \in VersionOf(f) : siteRows[v].by = "site" /\ v \in DOMAIN centralRows

\* The original of a version at Central is never exchanged for another file: a
\* replication does not replace an import, nor an import a replica.
CentralFilesStay ==
    [][\A v \in DOMAIN centralFiles : v \in DOMAIN centralFiles' /\ centralFiles'[v] = centralFiles[v]]_versionVars

\* A presentation made at the Site may be hidden there by a snapshot that Central
\* built before the report arrived, but not after one that listed it.
HiddenOnlyBeforeListed == \A t \in listed : siteTalks[t]

\* A presentation is shown as ready or delivered for its newest version only: the
\* file can be downloaded here, and Central has the version.
ViewsTruthful ==
    \A t \in DOMAIN siteTalks :
        LET newest == {v \in DOMAIN siteRows : siteRows[v].talk = t
                                /\ siteRows[v].number = Max(Numbers(siteRows, t))}
        IN  /\ Ready(t) => \E v \in newest, f \in MediaIds :
                               <<v, f>> \in originals /\ intake[f].availability = "AVAILABLE"
            /\ Delivered(t) => newest \subseteq DOMAIN centralRows

\* An id is drawn once, whichever side draws it.
IdsDrawn == \E n \in 0..MaxVersions : DOMAIN siteRows \cup DOMAIN centralRows = 1..n

\* A version the Site has made is at Central or on its way there, and a copy the Site has made
\* of one of Central's never gets there.
RowsReported ==
    /\ \A i \in DOMAIN versionReports :
           LET report == versionReports[i]
           IN  IF report.kind = "talk" THEN report.id = NoVersion
               ELSE /\ report.id \in DOMAIN siteRows
                    /\ siteRows[report.id].talk = report.talk /\ siteRows[report.id].by = "site"
    /\ \A v \in DOMAIN siteRows :
           \/ siteRows[v].by = "snapshot" /\ v \notin DOMAIN centralRows
           \/ /\ siteRows[v].by = "site"
              /\ v \in DOMAIN centralRows \/ \E i \in DOMAIN versionReports : versionReports[i].id = v

\* What the row of a file says of its upload and of its original.
IntakeLinked ==
    \A f \in MediaIds :
        /\ intake[f].availability = "NONE" => intake[f] = Unreceived /\ VersionOf(f) = {}
        /\ intake[f].availability \in {"FINALIZING", "AVAILABLE"} => intake[f].hashed
        /\ intake[f].job # "NONE" => VersionOf(f) # {}
        /\ intake[f].confirmed # NoVersion => intake[f].confirmed \in VersionOf(f)

\* A snapshot lists what the ones before it list, and what it lists is still there.
SnapshotsGrow ==
    \A i \in 1..Len(snapshots) :
        /\ listed \subseteq DOMAIN snapshots[i]
        /\ \A j \in 1..i : DOMAIN snapshots[j] \subseteq DOMAIN snapshots[i]
        /\ \A t \in DOMAIN snapshots[i] : snapshots[i][t] \subseteq Numbers(centralRows, t)
ListedStand ==
    /\ listed \subseteq DOMAIN siteTalks \cap centralTalks
    /\ \A i \in 1..Len(snapshots) : DOMAIN snapshots[i] \subseteq centralTalks

\* What the steps of both sides keep true between them, and why the above hold.
VersionsCoherent ==
    /\ IdsDrawn
    /\ RowsReported
    /\ IntakeLinked
    /\ SnapshotsGrow
    /\ ListedStand

\* Versions made on both sides: a version has one original, no available original is
\* forgotten, an id means the same version at both, a file is replicated only under a
\* version of the Site, a presentation Central has listed is not hidden, and the views
\* are true of the newest version (create_local_version, confirm_one, apply_site_event,
\* _upsert_snapshot, presentation_operations).
VersionsSafe ==
    /\ VersionTypeOK
    /\ VersionsCoherent
    /\ OriginalsUnique
    /\ NothingForgotten
    /\ VersionsAgree
    /\ ReplicatedUnderSiteVersion
    /\ HiddenOnlyBeforeListed
    /\ ViewsTruthful
================================================================================
