----------------------------- MODULE SmbFolders -----------------------------
(***************************************************************************)
(* The read-only SMB view of the presentations at the Site: a job computes *)
(* the wanted paths from the database and has the storage service rebuild  *)
(* the tree with links to the canonical files, first what is wanted, path  *)
(* by path, then removing the rest.  The job queues its successor when it  *)
(* succeeds.                                                               *)
(*                                                                         *)
(* File names are numbers, so that the order in which the service works is *)
(* the order of the paths.  A name that is too long for the folders of a   *)
(* session is shortened in the views of the session only.                  *)
(***************************************************************************)
EXTENDS Naturals, Sequences, FiniteSets, SequencesExt, FiniteSetsExt, Functions

CONSTANTS
    Decks,            \* presentations, numbered in the order of their ids
    Namings,          \* names of the files: in full (identifier, presenters, original
                      \* name), and what a session's folders leave of that
    IdPrefix,         \* IdPrefix[d]: the first digits of the id, a time
    Halls,            \* room folders; 0 is "All Presentations"
    MaxViewAttempts,  \* ProcessingJob.max_attempts
    MaxDeckChanges,   \* bound: changes to the presentations and their files
    MaxViewFaults     \* bound: calls that fail, and deaths of the worker

ASSUME FolderAssumption ==
    /\ Decks \subseteq Nat /\ IsFiniteSet(Decks) /\ Halls \subseteq Nat \ {0}
    /\ IdPrefix \in [Decks -> Nat \ {0}]
    /\ MaxViewAttempts \in Nat \ {0} /\ MaxDeckChanges \in Nat /\ MaxViewFaults \in Nat

VARIABLES
    naming,     \* the names of the files
    decks,      \* Presentation, its newest version and that version's file
    damaged,    \* canonical files that are missing or do not have their hash
    folders,    \* the share: path -> <<presentation, version>>
    viewJob,    \* attempts of the live job, or EXHAUSTED
    pass,       \* the reconciliation the worker waits for
    latePass,   \* one it has given up, which the service goes on with
    deckChanges, viewFaults,
    exact       \* ghost: a pass has ended that read the present state, and no
                \* other has run beside it or since

folderVars == <<naming, decks, damaged, folders, viewJob, pass, latePass, deckChanges, viewFaults, exact>>

All == 0
NoHall == 0
EXHAUSTED == MaxViewAttempts
NoPass == [step |-> "none", desired |-> <<>>, stale |-> FALSE]

FoldersTypeOK ==
    /\ naming \in Namings /\ viewFaults \in 0..MaxViewFaults
    /\ decks \in [Decks -> [active: BOOLEAN, version: 1..MaxDeckChanges + 1, available: BOOLEAN,
                            hall: Halls \cup {NoHall}]]
    /\ damaged \subseteq Decks \X (1..MaxDeckChanges + 1)
    /\ \A p \in DOMAIN folders : folders[p] \in Decks \X (1..MaxDeckChanges + 1)
    /\ viewJob \in 0..EXHAUSTED /\ deckChanges \in 0..MaxDeckChanges /\ exact \in BOOLEAN
    /\ \A x \in {pass, latePass} :
           /\ x = [step |-> x.step, desired |-> x.desired, stale |-> x.stale]
           /\ x.step \in {"none", "add", "remove"} /\ x.stale \in BOOLEAN
           /\ x # NoPass => x.step # "none"
           /\ \A p \in DOMAIN x.desired : x.desired[p] \in Decks \X (1..MaxDeckChanges + 1)

FoldersInit ==
    /\ \E hall \in Halls, here \in SUBSET Decks :
           decks = [d \in Decks |-> [active |-> TRUE, version |-> 1, available |-> d \in here, hall |-> hall]]
    /\ naming \in Namings
    /\ damaged = {} /\ folders = <<>> /\ viewJob = 0 /\ pass = NoPass /\ latePass = NoPass
    /\ deckChanges = 0 /\ viewFaults = 0 /\ exact = FALSE

-----------------------------------------------------------------------------
(* What the view should be.                                                *)

\* Active, and the NEWEST version has a file that is here.
Exposed == {d \in Decks : decks[d].active /\ decks[d].available}

FileOf(d) == <<d, decks[d].version>>

\* Mutant: names are not compared.
Suffix_none(d) == 0

\* with_collision_suffixes: of the presentations with one full name the first keeps
\* it, the others add the first eight digits of their ids.
Suffix(d) ==
    LET same == {e \in Exposed : naming.full[e] = naming.full[d]}
    IN  IF d = Min(same) THEN 0 ELSE IdPrefix[d]

\* paths_for the presentation alone, and for it in its session.
PathsFor(d) ==
    {<<All, naming.full[d], Suffix(d)>>}
    \cup (IF decks[d].hall = NoHall THEN {}
          ELSE {<<view, naming.short[d], Suffix(d)>> : view \in {All, decks[d].hall}})

\* A path that several presentations want goes to the last one the query returned.
DesiredPaths(order) ==
    [p \in UNION {PathsFor(d) : d \in Exposed} |->
        FileOf(order[Max({i \in DOMAIN order : p \in PathsFor(order[i])})])]

Before(p, q) ==
    \/ p[1] < q[1] \/ (p[1] = q[1] /\ p[2] < q[2])
    \/ (p[1] = q[1] /\ p[2] = q[2] /\ p[3] < q[3])

-----------------------------------------------------------------------------
(* The service.                                                            *)

Blocking(x) == {p \in DOMAIN x.desired : x.desired[p] \in damaged}

\* Replaces, path by path; a file that is damaged ends the call there.
Added(x) ==
    LET done == {p \in DOMAIN x.desired : \A q \in Blocking(x) : Before(p, q)}
    IN  [p \in DOMAIN folders \cup done |-> IF p \in done THEN x.desired[p] ELSE folders[p]]

\* Mutant: what is not wanted stays.
KeptPaths_all(x) == folders

KeptPaths(x) == RestrictDomain(folders, LAMBDA p : p \in DOMAIN x.desired)

\* fail(): the job waits and is tried again, or has run out of attempts.
ViewFailed == viewJob' = viewJob + 1

-----------------------------------------------------------------------------
(* The job.                                                                *)

BeginPass ==
    /\ viewJob # EXHAUSTED /\ pass = NoPass
    /\ \E order \in SetToSeqs(Exposed) :
           pass' = [step |-> "add", desired |-> DesiredPaths(order), stale |-> FALSE]
    /\ UNCHANGED <<naming, decks, damaged, folders, viewJob, latePass, deckChanges, exact, viewFaults>>

AddPaths ==
    /\ pass.step = "add"
    /\ folders' = Added(pass)
    /\ IF Blocking(pass) = {}
       THEN pass' = [pass EXCEPT !.step = "remove"] /\ UNCHANGED viewJob
       ELSE pass' = NoPass /\ ViewFailed
    /\ exact' = FALSE
    /\ UNCHANGED <<naming, decks, damaged, latePass, deckChanges, viewFaults>>

\* The rest is removed; the job succeeds and another one is queued.
FinishPass ==
    /\ pass.step = "remove"
    /\ folders' = KeptPaths(pass) /\ pass' = NoPass /\ viewJob' = 0
    /\ exact' = (~pass.stale /\ latePass = NoPass)
    /\ UNCHANGED <<naming, decks, damaged, latePass, deckChanges, viewFaults>>

\* The call fails or times out; the service may go on with it.
GiveUpPass ==
    /\ pass # NoPass /\ latePass = NoPass
    /\ viewFaults < MaxViewFaults /\ viewFaults' = viewFaults + 1
    /\ pass' = NoPass /\ latePass' \in {NoPass, pass} /\ ViewFailed
    /\ UNCHANGED <<naming, decks, damaged, folders, deckChanges, exact>>

\* The worker dies, which leaves the job as it was, and starts again, which queues
\* a new one if none is live.
RestartViewWorker ==
    /\ pass = NoPass \/ latePass = NoPass
    /\ viewFaults < MaxViewFaults /\ viewFaults' = viewFaults + 1
    /\ pass' = NoPass
    /\ latePass' \in (IF latePass = NoPass THEN {NoPass, pass} ELSE {latePass})
    /\ viewJob' = IF viewJob = EXHAUSTED THEN 0 ELSE viewJob
    /\ UNCHANGED <<naming, decks, damaged, folders, deckChanges, exact>>

LateStep ==
    /\ latePass # NoPass
    /\ IF latePass.step = "add"
       THEN /\ folders' = Added(latePass)
            /\ latePass' = IF Blocking(latePass) = {} THEN [latePass EXCEPT !.step = "remove"] ELSE NoPass
       ELSE folders' = KeptPaths(latePass) /\ latePass' = NoPass
    /\ exact' = FALSE
    /\ pass' = [pass EXCEPT !.stale = pass # NoPass]
    /\ UNCHANGED <<naming, decks, damaged, viewJob, deckChanges, viewFaults>>

-----------------------------------------------------------------------------
(* The presentations change.                                               *)

DeckChange ==
    /\ deckChanges < MaxDeckChanges /\ deckChanges' = deckChanges + 1
    /\ exact' = FALSE
    /\ pass' = [pass EXCEPT !.stale = pass # NoPass]
    /\ UNCHANGED <<naming, folders, viewJob, latePass, viewFaults>>

\* A version is made; its file comes with it or later.
NewDeckVersion(d, here) ==
    /\ DeckChange
    /\ decks' = [decks EXCEPT ![d].version = @ + 1, ![d].available = here]
    /\ UNCHANGED damaged

DeckArrives(d) ==
    /\ DeckChange
    /\ ~decks[d].available
    /\ decks' = [decks EXCEPT ![d].available = TRUE]
    /\ UNCHANGED damaged

WithdrawDeck(d) ==
    /\ DeckChange
    /\ decks' = [decks EXCEPT ![d].active = ~@]
    /\ UNCHANGED damaged

MoveDeck(d, hall) ==
    /\ DeckChange
    /\ decks[d].hall # hall
    /\ decks' = [decks EXCEPT ![d].hall = hall]
    /\ UNCHANGED damaged

DamageDeck(d) ==
    /\ DeckChange
    /\ d \in Exposed /\ damaged' = damaged \cup {FileOf(d)}
    /\ UNCHANGED decks

-----------------------------------------------------------------------------

ViewWorks == BeginPass \/ AddPaths \/ FinishPass

ViewService == LateStep

DeckChanges(d) ==
    \/ \E here \in BOOLEAN : NewDeckVersion(d, here)
    \/ DeckArrives(d) \/ WithdrawDeck(d) \/ DamageDeck(d)
    \/ \E hall \in Halls \cup {NoHall} : MoveDeck(d, hall)

FoldersNext ==
    ViewWorks \/ ViewService \/ GiveUpPass \/ RestartViewWorker \/ \E d \in Decks : DeckChanges(d)

FoldersSpec ==
    /\ FoldersInit /\ [][FoldersNext]_folderVars
    /\ WF_folderVars(ViewWorks) /\ WF_folderVars(ViewService)

-----------------------------------------------------------------------------
(* Properties.                                                             *)

\* Another presentation gets the same path: one of the same full name whose id begins
\* with the same digits, when neither is the first, or one whose shortened name it is.
Contested(d) ==
    \E e \in Exposed \ {d} :
        \/ /\ naming.full[e] = naming.full[d] /\ IdPrefix[e] = IdPrefix[d]
           /\ \E f \in Exposed : naming.full[f] = naming.full[d] /\ f < d /\ f < e
        \/ naming.short[e] = naming.full[d] /\ naming.full[e] # naming.full[d]

\* After a pass over the present state every presentation with a file is found under
\* its own full name with its newest version, unless the name is contested.
EveryDeckShown ==
    exact => \A d \in Exposed : Contested(d) \/
        \E p \in DOMAIN folders : p[1] = All /\ p[2] = naming.full[d] /\ folders[p] = FileOf(d)

\* After a pass over the present state no folder holds an older version, a
\* presentation that was withdrawn, or one in a room it has left.
NothingWithdrawn ==
    exact => \A p \in DOMAIN folders : \E d \in Exposed : p \in PathsFor(d) /\ folders[p] = FileOf(d)

\* The share always comes to follow the database again, unless a presentation has a
\* damaged file, which holds up the others, or the job ran out of attempts.
FoldersFollow ==
    []<>(\/ \E order \in SetToSeqs(Exposed) : folders = DesiredPaths(order)
         \/ \E d \in Exposed : FileOf(d) \in damaged
         \/ viewJob = EXHAUSTED)

\* What the present state wants, in some order of the query.
Wanted(paths) == \E order \in SetToSeqs(Exposed) : paths = DesiredPaths(order)

\* A pass that was not overtaken has read the present state, and before it removes anything
\* the folders have all it wants; a version is made by a change; the job that a pass belongs
\* to is live.
FoldersCoherent ==
    /\ \A d \in Decks : decks[d].version <= deckChanges + 1
    /\ pass # NoPass => viewJob # EXHAUSTED
    /\ pass # NoPass /\ ~pass.stale => Wanted(pass.desired)
    /\ pass.step = "remove" /\ ~pass.stale =>
           \A p \in DOMAIN pass.desired : p \in DOMAIN folders /\ folders[p] = pass.desired[p]
    /\ exact => Wanted(folders)

\* After a pass over the present state the folders hold every presentation under its
\* name and nothing else (paths_for, reconcile_presentations).
FoldersSafe == FoldersTypeOK /\ FoldersCoherent /\ EveryDeckShown /\ NothingWithdrawn
================================================================================
