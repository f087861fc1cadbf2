----------------------------- MODULE ProgramImport -----------------------------
(***************************************************************************)
(* The import of people into an event program at Central: a file is staged *)
(* and its rows are matched with the people Central knows, an operator     *)
(* decides the doubtful ones, and the batch is committed in one            *)
(* transaction; meanwhile people and program are edited by hand.           *)
(*                                                                         *)
(* Requests run at READ COMMITTED and neither lock nor version what they   *)
(* read: a commit, a decision, a deletion and a new participant read and   *)
(* check first and write later, with whatever others committed in between  *)
(* (`call').  What the ORM has read it does not read again: a commit works *)
(* on the rows it read, and adds one to the event revision it read.        *)
(*                                                                         *)
(* A row is what its columns say of a person.  A wide row is a row of a    *)
(* session or presentation with one presenter; the session itself is in    *)
(* ProgramCatalog.  Corrected values are left out: they replace columns.   *)
(***************************************************************************)
EXTENDS Naturals, FiniteSets, Sequences

CONSTANTS
    Events,
    PersonIds,
    Emails,
    Names,
    ExternalIds,
    Files,          \* uploaded files, told apart by their digest
    FileEvent,      \* the event a file is uploaded to
    FileRows,       \* the rows of a file, in the order they are committed in
    Known,          \* the people Central knows in the beginning
    Calls,
    MaxEdits,       \* bound on the edits by hand
    None

ASSUME ProgramImportAssumption ==
    /\ IsFiniteSet(PersonIds)
    /\ FileEvent \in [Files -> Events]
    /\ \A f \in Files : FileRows[f] \in Seq([kind: {"person", "participant", "wide"},
                                            id: PersonIds \cup {None}, ref: ExternalIds \cup {None},
                                            email: Emails \cup {None}, name: Names])
    /\ None \notin Events \cup PersonIds \cup Emails \cup ExternalIds \cup Files \cup Names \cup Nat
    /\ {None} \cap {"choose", "create", "ignore", "hand", "decided", "unmatched", "REVIEW", "READY"} = {}
    /\ Files \cap {"hand", "decided", "unmatched"} = {}
    /\ DOMAIN Known \subseteq PersonIds
    /\ \A p \in DOMAIN Known : Known[p] \in
          [state: {"active", "deleted"}, email: Emails \cup {None}, name: Names, revision: Nat,
           raced: {FALSE}, origin: {"hand"}]
    /\ MaxEdits \in Nat

VARIABLES
    people,         \* Person rows
    participation,  \* EventParticipation rows, by event and person
    identifiers,    \* ExternalIdentifier rows of people
    revision,       \* Event.revision
    version,        \* the number of changes of each program that were committed, those apart
                    \* that the permanent deletion of a single person makes
    batch,          \* ImportBatch and its ImportRows, by file
    call,           \* requests between their reads and their writes
    overlapped,     \* a commit has written over a change it had not seen
    edits

importVars == <<people, participation, identifiers, revision, version, batch, call, overlapped, edits>>

NoPerson == [state |-> "absent", email |-> None, name |-> None, revision |-> 0, origin |-> None,
             raced |-> FALSE]
NoParticipation == [how |-> "none", raced |-> FALSE]
NoBatch == [status |-> "none", reviewed |-> 0, version |-> 0, checked |-> 0, conflicts |-> 0,
            rows |-> <<>>, raced |-> FALSE]
NoCall == [kind |-> "none", file |-> None, row |-> 0, person |-> None, event |-> None,
           action |-> None, status |-> None, revision |-> 0, version |-> 0, rows |-> <<>>]

\* In a row, `of' is the person whose revision was seen, and `erased' says that a person it
\* was matched with has been deleted permanently.  Of a person who is gone only the id is
\* left, in what was read before.
ImportRow == [outcome: {"exact", "ambiguous", "strong", "conflict", "none"},
              proposed: PersonIds \cup {None}, resolved: PersonIds \cup {None},
              seen: Nat \cup {None}, of: PersonIds \cup {None},
              action: {None, "choose", "create", "ignore"}, error: BOOLEAN,
              conflict: BOOLEAN, committed: BOOLEAN, person: PersonIds \cup {None},
              erased: BOOLEAN]
PersonRow == [state: {"active", "deleted", "gone"}, email: Emails \cup {None}, name: Names,
              revision: Nat, raced: BOOLEAN, origin: Files \cup {"hand", "decided", "unmatched"}]
EventParticipation == [how: {"none", "api", "row", "mixed", "wide"}, raced: BOOLEAN]
ImportBatch == [status: {"none", "REVIEW", "READY", "COMMITTED"}, reviewed: Nat, version: Nat,
                checked: Nat, conflicts: Nat, rows: Seq(ImportRow), raced: BOOLEAN]
ImportCall == [kind: {"none", "commit", "decide", "delete", "participant"}, file: Files \cup {None},
               row: Nat, person: PersonIds \cup {None}, event: Events \cup {None},
               action: {None, "choose", "create", "ignore"}, status: {None, "REVIEW", "READY"},
               revision: Nat, version: Nat, rows: Seq(ImportRow)]

ImportTypeOK ==
    /\ people \in [PersonIds -> PersonRow \cup {NoPerson}]
    /\ participation \in [Events \X PersonIds -> EventParticipation]
    /\ identifiers \in [ExternalIds -> PersonIds \cup {None}]
    /\ revision \in [Events -> Nat] /\ version \in [Events -> Nat]
    /\ batch \in [Files -> ImportBatch]
    /\ \A f \in Files :
          IF batch[f].status = "none" THEN batch[f] = NoBatch
          ELSE Len(batch[f].rows) = Len(FileRows[f]) /\ batch[f].conflicts <= Len(FileRows[f])
    /\ \A e \in Events : revision[e] <= version[e]
    /\ call \in [Calls -> ImportCall]
    /\ overlapped \in BOOLEAN /\ edits \in 0..MaxEdits

ImportInit ==
    /\ people = [p \in PersonIds |-> IF p \in DOMAIN Known THEN Known[p] ELSE NoPerson]
    /\ participation = [x \in Events \X PersonIds |-> NoParticipation]
    /\ identifiers = [x \in ExternalIds |-> None]
    /\ revision = [e \in Events |-> 0]
    /\ version = [e \in Events |-> 0]
    /\ batch = [f \in Files |-> NoBatch]
    /\ call = [q \in Calls |-> NoCall]
    /\ overlapped = FALSE
    /\ edits = 0

Participates(e, p) == participation[<<e, p>>] # NoParticipation
OnRecord(p) == people[p].state \in {"active", "deleted"}
ActiveWith(P, email) == {p \in PersonIds : email # None /\ P[p].state = "active" /\ P[p].email = email}

-----------------------------------------------------------------------------
(* Staging.                                                                *)

\* _match_person: a supplied id, an external identifier, a unique email; a name alone,
\* or an email of several people, is left to the operator.
Exact(p) == [outcome |-> "exact", proposed |-> p, seen |-> people[p].revision, of |-> p, conflict |-> FALSE]
Doubt(outcome) == [outcome |-> outcome, proposed |-> None, seen |-> None, of |-> None,
                   conflict |-> outcome \in {"ambiguous", "strong"}]

_match_person(r) ==
    LET referred == IF r.ref = None THEN None ELSE identifiers[r.ref]
        mailed == ActiveWith(people, r.email)
        named == {p \in PersonIds : people[p].state = "active" /\ people[p].name = r.name}
    IN  IF r.kind = "wide" /\ r.email = None THEN Doubt("none") ELSE
        CASE r.id # None /\ people[r.id].state = "active" -> Exact(r.id)
          [] r.id # None /\ people[r.id].state # "active" -> Doubt("conflict")
          [] r.id = None /\ referred # None /\ people[referred].state = "active" -> Exact(referred)
          [] OTHER ->
                CASE Cardinality(mailed) = 1 -> Exact(CHOOSE p \in mailed : TRUE)
                  [] Cardinality(mailed) > 1 -> Doubt("ambiguous")
                  [] mailed = {} /\ Cardinality(named) = 1 -> Doubt("strong")
                  [] mailed = {} /\ Cardinality(named) > 1 -> Doubt("ambiguous")
                  [] OTHER -> Doubt("none")

\* The row as it is staged: a match that is not certain is an error to be decided.
StagedRow(r) ==
    LET matched == _match_person(r)
    IN  [outcome |-> matched.outcome, proposed |-> matched.proposed, seen |-> matched.seen,
         of |-> matched.of, conflict |-> matched.conflict,
         error |-> matched.outcome \notin {"exact", "none"},
         resolved |-> None, action |-> None, committed |-> FALSE, person |-> None, erased |-> FALSE]

StagedStatus(rows) == IF \E i \in DOMAIN rows : rows[i].error THEN "REVIEW" ELSE "READY"

\* create_batch, for a file that has not been uploaded to the event before.
create_batch(f) ==
    /\ batch[f].status = "none"
    /\ LET rows == [i \in DOMAIN FileRows[f] |-> StagedRow(FileRows[f][i])]
       IN  batch' = [batch EXCEPT ![f] =
                        [status |-> StagedStatus(rows),
                         reviewed |-> revision[FileEvent[f]], version |-> version[FileEvent[f]],
                         checked |-> 0, rows |-> rows, raced |-> FALSE,
                         conflicts |-> Cardinality({i \in DOMAIN rows : rows[i].conflict})]]
    /\ UNCHANGED <<people, participation, identifiers, revision, version, call, overlapped, edits>>

-----------------------------------------------------------------------------
(* Decisions.                                                              *)

BeginDecision_unchecked(q, f, i, action, p) ==
    /\ call[q] = NoCall /\ batch[f].status # "none" /\ i \in DOMAIN FileRows[f]
    /\ (action = "choose") = (p # None)
    /\ p # None => people[p].state = "active"
    /\ call' = [call EXCEPT ![q] = [NoCall EXCEPT
                    !.kind = "decide", !.file = f, !.row = i, !.action = action, !.person = p,
                    !.revision = IF p = None THEN 0 ELSE people[p].revision,
                    !.version = batch[f].conflicts, !.status = batch[f].status,
                    !.rows = batch[f].rows]]
    /\ UNCHANGED <<people, participation, identifiers, revision, version, batch, overlapped, edits>>

\* decide: refused for a row that is already committed, and for a person who is gone.
BeginDecision(q, f, i, action, p) ==
    /\ call[q] = NoCall /\ batch[f].status # "none" /\ i \in DOMAIN FileRows[f]
    /\ ~batch[f].rows[i].committed
    /\ (action = "choose") = (p # None)
    /\ p # None => people[p].state = "active"
    /\ call' = [call EXCEPT ![q] = [NoCall EXCEPT
                    !.kind = "decide", !.file = f, !.row = i, !.action = action, !.person = p,
                    !.revision = IF p = None THEN 0 ELSE people[p].revision,
                    !.version = batch[f].conflicts, !.status = batch[f].status,
                    !.rows = batch[f].rows]]
    /\ UNCHANGED <<people, participation, identifiers, revision, version, batch, overlapped, edits>>

\* Only the columns whose value differs from the one that was read are written, over
\* what a commit or another decision has written meanwhile; nothing is written when the
\* person chosen is gone by now (the foreign key).
Written(new, read, present) == IF new = read THEN present ELSE new

decide(q) ==
    LET c == call[q]
        old == c.rows[c.row]
        b == batch[c.file]
        now == b.rows[c.row]
        resolved == CASE c.action = "choose" -> c.person
                      [] c.action = "create" -> None
                      [] OTHER -> old.resolved
        seen == Written(IF c.action = "choose" THEN c.revision ELSE old.seen, old.seen, now.seen)
        conflicts == IF old.conflict /\ c.version > 0 THEN c.version - 1 ELSE c.version
        status == IF conflicts = 0 THEN "READY" ELSE c.status
        row == [now EXCEPT
                    !.resolved = Written(resolved, old.resolved, now.resolved),
                    !.seen = seen,
                    !.of = IF c.action = "choose" /\ seen = c.revision THEN c.person ELSE now.of,
                    !.action = Written(c.action, old.action, now.action),
                    !.conflict = FALSE, !.error = FALSE]
    IN  /\ c.kind = "decide"
        /\ IF c.action = "choose" /\ ~OnRecord(c.person) THEN UNCHANGED batch
           ELSE batch' = [batch EXCEPT ![c.file] = [b EXCEPT
                    !.rows = [b.rows EXCEPT ![c.row] = row],
                    !.conflicts = Written(conflicts, c.version, b.conflicts),
                    !.status = Written(status, c.status, b.status),
                    !.raced = b.raced \/ now # old]]
        /\ call' = [call EXCEPT ![q] = NoCall]
        /\ UNCHANGED <<people, participation, identifiers, revision, version, overlapped, edits>>

-----------------------------------------------------------------------------
(* The commit.                                                             *)

Ignored(row) == row.action = "ignore"

\* The checks of commit_batch.
Current_any(f) == TRUE

Current(f) == batch[f].reviewed = revision[FileEvent[f]]

BeginCommit(q, f) ==
    /\ call[q] = NoCall
    /\ batch[f].status \in {"READY", "REVIEW"}
    /\ Current(f)
    /\ \A i \in DOMAIN batch[f].rows : batch[f].rows[i].error => Ignored(batch[f].rows[i])
    /\ call' = [call EXCEPT ![q] = [NoCall EXCEPT
                    !.kind = "commit", !.file = f, !.revision = revision[FileEvent[f]],
                    !.version = version[FileEvent[f]], !.rows = batch[f].rows]]
    /\ UNCHANGED <<people, participation, identifiers, revision, version, batch, overlapped, edits>>

\* The effects of a commit accumulate in a record s of tables; s.ok is lost when a row
\* is refused, which rolls everything back.
Refuse(s) == [s EXCEPT !.ok = FALSE]
NewPerson(s) == CHOOSE p \in PersonIds : s.people[p] = NoPerson
\* Whether the operator asked for the person, or the row had lost its match, or neither.
BroughtBy(f, row) == IF row.action = "create" THEN "decided" ELSE IF row.erased THEN "unmatched" ELSE f
Create(s, p, f, r, row) ==
    [s EXCEPT !.people[p] = [state |-> "active", email |-> r.email, name |-> r.name,
                             revision |-> 0, raced |-> FALSE,
                             origin |-> BroughtBy(f, row)]]
Join(s, e, p, how) ==
    IF s.participation[<<e, p>>] # NoParticipation THEN s
    ELSE [s EXCEPT !.participation[<<e, p>>] = [how |-> how, raced |-> FALSE]]

\* external_identifier: an identifier of another person is a conflict.
Identify(s, p, r) ==
    IF r.ref = None THEN s
    ELSE IF s.identifiers[r.ref] \notin {None, p} THEN Refuse(s)
    ELSE [s EXCEPT !.identifiers[r.ref] = p]

Record(s, i, p) == [s EXCEPT !.rows[i] = [@ EXCEPT !.committed = TRUE, !.person = p]]

Chosen_proposed_first(row) == IF row.proposed # None THEN row.proposed ELSE row.resolved

Chosen(row) == IF row.resolved # None THEN row.resolved ELSE row.proposed

\* The person a row was matched with is no longer there.
Vanished_never(s, row) == FALSE

Vanished(s, row) == s.people[Chosen(row)].state = "gone"

\* _person_for_row, and the participant of a participant row: a row that has lost its match
\* makes a new person.
Unreviewed_never(s, row) == FALSE

Unreviewed(s, row) == row.seen # None /\ s.people[Chosen(row)].revision # row.seen

\* A row can carry the revision of another person than it is committed with: that of a
\* choice that was withdrawn, or of another one made at the same time.
JoinedBy(row) == IF Chosen(row) \in {None, row.of} THEN "row" ELSE "mixed"

_person_for_row(s, f, i) ==
    LET r == FileRows[f][i]
        row == s.rows[i]
        p == IF Chosen(row) # None THEN Chosen(row) ELSE NewPerson(s)
        t == IF Chosen(row) # None THEN s ELSE Create(s, p, f, r, row)
        u == IF r.kind = "participant" THEN Join(t, FileEvent[f], p, JoinedBy(row)) ELSE t
    IN  IF Chosen(row) # None /\ (Vanished(s, row) \/ Unreviewed(s, row)) THEN Refuse(s)
        ELSE Record(Identify(u, p, r), i, p)

\* _ensure_wide_row_participant: a participant with the email, else the matched person
\* as it is, else the only active person with the email, else a new one; whoever participates
\* already, with another email, breaks the unique key.
Participant(s, e, email) ==
    {p \in PersonIds : s.participation[<<e, p>>] # NoParticipation /\ s.people[p].email = email}

_ensure_wide_row_participant(s, f, i) ==
    LET r == FileRows[f][i]
        e == FileEvent[f]
        row == s.rows[i]
        mailed == ActiveWith(s.people, r.email)
        enroll(t, p) == IF t.participation[<<e, p>>] # NoParticipation THEN Refuse(t)
                        ELSE Record(Join(Identify(t, p, r), e, p, "wide"), i, p)
        new == NewPerson(s)
    IN  IF r.email = None THEN Record(s, i, None)
        ELSE IF Participant(s, e, r.email) # {}
        THEN Record(s, i, CHOOSE p \in Participant(s, e, r.email) : TRUE)
        ELSE IF Chosen(row) # None /\ ~Vanished(s, row) THEN enroll(s, Chosen(row))
        ELSE IF Cardinality(mailed) > 1 THEN Refuse(s)
        ELSE IF mailed # {} THEN enroll(s, CHOOSE p \in mailed : TRUE)
        ELSE enroll(Create(s, new, f, r, row), new)

CommitRow(s, f, i) ==
    IF ~s.ok \/ s.rows[i].committed THEN s
    ELSE IF Ignored(s.rows[i]) THEN Record(s, i, None)
    ELSE IF FileRows[f][i].kind = "wide" THEN _ensure_wide_row_participant(s, f, i)
    ELSE _person_for_row(s, f, i)

CommitRows(c) ==
    LET run[n \in 0..Len(c.rows)] ==
            IF n = 0 THEN [ok |-> TRUE, people |-> people, participation |-> participation,
                           identifiers |-> identifiers, rows |-> c.rows]
            ELSE CommitRow(run[n - 1], c.file, n)
    IN  run[Len(c.rows)]

\* touch_event_program of an event whose revision was read as r.
touch_event_program(e, r) ==
    /\ revision' = [revision EXCEPT ![e] = r + 1]
    /\ version' = [version EXCEPT ![e] = @ + 1]

\* commit_batch: the rest of the transaction; a row that was read uncommitted is
\* committed again.
Changes(c, s) == \E i \in DOMAIN c.rows : ~c.rows[i].committed /\ ~Ignored(c.rows[i])

commit_batch(q) ==
    LET c == call[q]
        b == batch[c.file]
        e == FileEvent[c.file]
        s == CommitRows(c)
    IN  /\ c.kind = "commit"
        /\ Cardinality({p \in PersonIds : people[p] = NoPerson}) >= Len(c.rows)     \* bound
        /\ call' = [call EXCEPT ![q] = NoCall]
        /\ IF ~s.ok
           THEN UNCHANGED <<people, participation, identifiers, revision, version, batch, overlapped>>
           ELSE /\ people' = s.people
                /\ participation' = s.participation
                /\ identifiers' = s.identifiers
                /\ batch' = [batch EXCEPT ![c.file] = [b EXCEPT
                        !.status = "COMMITTED", !.checked = c.version,
                        !.raced = b.raced \/ b.rows # c.rows,
                        !.rows = [i \in DOMAIN c.rows |->
                                    [b.rows[i] EXCEPT !.committed = s.rows[i].committed,
                                                      !.person = s.rows[i].person]]]]
                /\ IF Changes(c, s) THEN touch_event_program(e, c.revision)
                   ELSE UNCHANGED <<revision, version>>
                /\ overlapped' = (overlapped \/ version[e] # c.version \/ b.rows # c.rows)
        /\ UNCHANGED edits

-----------------------------------------------------------------------------
(* Edits by hand.                                                          *)

Edit == edits < MaxEdits /\ edits' = edits + 1

create_person(email, name) ==
    /\ Edit
    /\ \E p \in PersonIds :
          /\ people[p] = NoPerson
          /\ p = CHOOSE x \in PersonIds : people[x] = NoPerson
          /\ people' = [people EXCEPT ![p] = [state |-> "active", email |-> email, name |-> name,
                                             revision |-> 0, raced |-> FALSE, origin |-> "hand"]]
    /\ UNCHANGED <<participation, identifiers, revision, version, batch, call, overlapped>>

\* update_person of a person as last read; it touches every event of the person.
TouchedBy_no_event(p) == {}

TouchedBy(p) == {e \in Events : Participates(e, p)}

update_person(p, email) ==
    /\ Edit
    /\ OnRecord(p)
    /\ people' = [people EXCEPT ![p] = [people[p] EXCEPT !.email = email, !.origin = "hand",
                                                         !.revision = people[p].revision + 1]]
    /\ revision' = [e \in Events |-> IF e \in TouchedBy(p) THEN revision[e] + 1 ELSE revision[e]]
    /\ version' = [e \in Events |-> IF Participates(e, p) THEN version[e] + 1 ELSE version[e]]
    /\ UNCHANGED <<participation, identifiers, batch, call, overlapped>>

\* create_external_identifier of a person.
create_external_identifier(p, x) ==
    /\ Edit
    /\ OnRecord(p) /\ identifiers[x] \in {None, p}
    /\ identifiers' = [identifiers EXCEPT ![x] = p]
    /\ revision' = [e \in Events |-> IF e \in TouchedBy(p) THEN revision[e] + 1 ELSE revision[e]]
    /\ version' = [e \in Events |-> IF Participates(e, p) THEN version[e] + 1 ELSE version[e]]
    /\ UNCHANGED <<people, participation, batch, call, overlapped>>

\* delete_person: refused while the person participates anywhere.
BeginDelete(q, p) ==
    /\ Edit
    /\ call[q] = NoCall
    /\ OnRecord(p) /\ \A e \in Events : ~Participates(e, p)
    /\ call' = [call EXCEPT ![q] = [NoCall EXCEPT !.kind = "delete", !.person = p,
                                                  !.revision = people[p].revision]]
    /\ UNCHANGED <<people, participation, identifiers, revision, version, batch, overlapped>>

Raced(x) == IF x = NoParticipation THEN x ELSE [x EXCEPT !.raced = TRUE]

delete_person(q) ==
    LET c == call[q]
        old == people[c.person]
    IN  /\ c.kind = "delete"
        /\ IF ~OnRecord(c.person) THEN UNCHANGED <<people, participation>>    \* no row to update
           ELSE /\ people' = [people EXCEPT ![c.person] =
                                [old EXCEPT !.state = "deleted", !.revision = c.revision + 1,
                                            !.raced = old.raced \/ old.revision # c.revision]]
                /\ participation' = [x \in Events \X PersonIds |->
                                        IF x[2] = c.person THEN Raced(participation[x])
                                        ELSE participation[x]]
        /\ call' = [call EXCEPT ![q] = NoCall]
        /\ UNCHANGED <<identifiers, revision, version, batch, overlapped, edits>>

\* create_participant: refused for a deleted person and for one who participates.
BeginParticipant(q, e, p) ==
    /\ Edit
    /\ call[q] = NoCall
    /\ people[p].state = "active" /\ ~Participates(e, p)
    /\ call' = [call EXCEPT ![q] = [NoCall EXCEPT !.kind = "participant", !.event = e, !.person = p,
                                                  !.revision = revision[e], !.version = version[e]]]
    /\ UNCHANGED <<people, participation, identifiers, revision, version, batch, overlapped>>

create_participant(q) ==
    LET c == call[q]
    IN  /\ c.kind = "participant"
        /\ call' = [call EXCEPT ![q] = NoCall]
        /\ IF Participates(c.event, c.person) \/ ~OnRecord(c.person)   \* unique and foreign key
           THEN UNCHANGED <<participation, revision, version, overlapped>>
           ELSE /\ participation' = [participation EXCEPT ![<<c.event, c.person>>] =
                        [how |-> "api", raced |-> people[c.person].state = "deleted"]]
                /\ touch_event_program(c.event, c.revision)
                /\ overlapped' = (overlapped \/ version[c.event] # c.version)
        /\ UNCHANGED <<people, identifiers, batch, edits>>

\* _delete_person, for one person or for all of them (bulk): the rows matched with the person
\* lose both their matches, and only the deletion of all touches the events.
Unmatched(row, p) ==
    IF p \notin {row.proposed, row.resolved} THEN row
    ELSE [row EXCEPT !.proposed = None, !.resolved = None, !.erased = TRUE]

erase_person(p, bulk) ==
    /\ Edit
    /\ OnRecord(p)
    /\ people' = [people EXCEPT ![p] = [people[p] EXCEPT !.state = "gone"]]
    /\ participation' = [x \in Events \X PersonIds |->
                            IF x[2] = p THEN NoParticipation ELSE participation[x]]
    /\ identifiers' = [x \in ExternalIds |-> IF identifiers[x] = p THEN None ELSE identifiers[x]]
    /\ batch' = [f \in Files |-> [batch[f] EXCEPT !.rows =
                    [i \in DOMAIN batch[f].rows |-> Unmatched(batch[f].rows[i], p)]]]
    /\ IF bulk
       THEN /\ revision' = [e \in Events |-> IF e \in TouchedBy(p) THEN revision[e] + 1 ELSE revision[e]]
            /\ version' = [e \in Events |-> IF Participates(e, p) THEN version[e] + 1 ELSE version[e]]
       ELSE UNCHANGED <<revision, version>>
    /\ UNCHANGED <<call, overlapped>>

-----------------------------------------------------------------------------

StageAndCommit ==
    \/ \E f \in Files : create_batch(f)
    \/ \E q \in Calls, f \in Files : BeginCommit(q, f)
    \/ \E q \in Calls : commit_batch(q)

Decisions ==
    \/ \E q \in Calls, f \in Files : \E i \in DOMAIN FileRows[f] :
          \/ \E action \in {"create", "ignore"} : BeginDecision(q, f, i, action, None)
          \/ \E p \in PersonIds : BeginDecision(q, f, i, "choose", p)
    \/ \E q \in Calls : decide(q)

HandEdits ==
    \/ \E email \in Emails, name \in Names : create_person(email, name)
    \/ \E p \in PersonIds, email \in Emails : update_person(p, email)
    \/ \E p \in PersonIds, x \in ExternalIds : create_external_identifier(p, x)
    \/ \E p \in PersonIds, bulk \in BOOLEAN : erase_person(p, bulk)
    \/ \E q \in Calls, p \in PersonIds : BeginDelete(q, p)
    \/ \E q \in Calls, e \in Events, p \in PersonIds : BeginParticipant(q, e, p)
    \/ \E q \in Calls : delete_person(q) \/ create_participant(q)

ImportNext == StageAndCommit \/ Decisions \/ HandEdits

ImportSpec == ImportInit /\ [][ImportNext]_importVars

-----------------------------------------------------------------------------

\* A batch is committed against the program its reviewer saw: nothing but the permanent
\* deletion of a person, which leaves the event's revision as it is (_delete_person), has
\* changed the event between create_batch and the check of commit_batch, unless some request
\* has written its stale revision number over a newer one before.
StaleOnlyAfterOverlap ==
    \A f \in Files : batch[f].status = "COMMITTED" /\ ~overlapped => batch[f].checked = batch[f].version

\* A person who was deleted permanently participates in no event, whatever was read of them
\* before.  One who has been deleted does not participate either, except through a wide row, which
\* does not look at the person it was matched with again, through a row with the revision of
\* somebody else (see JoinedBy), or through a request that overlapped the deletion: one that
\* added the participation, or one whose change of the person's revision the deletion
\* repeated (delete_person, _person_for_row).
DeletedStayOut ==
    \A e \in Events, p \in PersonIds : Participates(e, p) =>
        /\ people[p].state # "gone"
        /\ people[p].state = "deleted" =>
              \/ participation[<<e, p>>].raced \/ people[p].raced
              \/ participation[<<e, p>>].how \in {"wide", "mixed"}

\* A batch is reported committed only if, and unless a decision overlapped its commit or
\* the file has no row also if, every one of its rows is committed or ignored (decide
\* against commit_batch).
BatchStatusHonest ==
    \A f \in Files : batch[f].status # "none" =>
        LET done == \A i \in DOMAIN FileRows[f] : batch[f].rows[i].committed
        IN  /\ batch[f].status = "COMMITTED" => done
            /\ done /\ FileRows[f] # <<>> /\ ~batch[f].raced => batch[f].status = "COMMITTED"

\* What the operator decided is what the commit did, unless the two overlapped: a row
\* of a person or participant is committed with the person chosen, with nobody, or with
\* a new person, the last only if the row had no match of its own: for a matched row
\* the decision to create a person is ignored (decide, _person_for_row).  The exception is a
\* row that lost a person to a permanent deletion and was not decided again: both its matches
\* are erased, and its commit makes a new person without asking (_delete_person).
MatchLost(row) == row.erased /\ row.resolved = None

DecisionsHonoured ==
    \A f \in Files : \A i \in DOMAIN batch[f].rows :
        LET row == batch[f].rows[i]
        IN  row.committed /\ ~batch[f].raced /\ FileRows[f][i].kind # "wide" /\ ~MatchLost(row) =>
                CASE row.action = "ignore" -> row.person = None
                  [] row.action = "choose" -> row.person = row.resolved
                  [] row.action = "create" ->
                        IF row.proposed # None THEN row.person = row.proposed
                        ELSE row.person # None /\ people[row.person].origin \in {"decided", "hand"}
                  [] OTHER -> row.proposed # None => row.person = row.proposed

\* Imports do not give two active people one email, except where the file repeats it, where
\* the operator asked for it, where the person a row was matched with was deleted permanently,
\* where the imports went to two events, or where two commits or two decisions about one of
\* the files overlapped (_match_person, kept true by
\* the revision check of the commit).
OneIdentity ==
    \A p, q \in PersonIds :
        /\ p # q /\ people[p].state = "active" /\ people[q].state = "active"
        /\ people[p].origin \in Files /\ people[q].origin \in Files
        /\ people[p].email # None /\ people[p].email = people[q].email
        => \/ people[p].origin = people[q].origin
           \/ FileEvent[people[p].origin] # FileEvent[people[q].origin]
           \/ overlapped \/ batch[people[p].origin].raced \/ batch[people[q].origin].raced

\* A revision n of person p, read while p was there, is not that of a deleted person, unless
\* two changes of the person overlapped.  P are the people.
Reviewed(P, p, n) ==
    /\ P[p] # NoPerson
    /\ \/ P[p].raced \/ n < P[p].revision \/ P[p].state = "gone"
       \/ n = P[p].revision /\ P[p].state = "active"

\* Rows as a batch has them, or as a request has read them.
RowsCoherent(P, f, rows) ==
    \A i \in DOMAIN FileRows[f] :
        /\ rows[i].of # None => rows[i].seen # None /\ Reviewed(P, rows[i].of, rows[i].seen)
        /\ /\ rows[i].action = None /\ rows[i].proposed = None /\ ~rows[i].error /\ ~rows[i].erased
           => rows[i].outcome = "none"

\* What no request changes of a row that was read, unless its match is erased, and that no
\* decision is taken back to none.
Descends(f, now, rows) ==
    \A i \in DOMAIN FileRows[f] :
        /\ now[i].outcome = rows[i].outcome
        /\ now[i].erased \/ now[i].proposed = rows[i].proposed
        /\ rows[i].erased => now[i].erased
        /\ rows[i].action # None => now[i].action # None

\* The decisions that were not made at the same time as others.
Undisputed(f, rows) ==
    \A i \in DOMAIN FileRows[f] :
        /\ rows[i].action \in {None, "create"} => rows[i].resolved = None
        /\ rows[i].action = "choose" => rows[i].resolved # None \/ rows[i].erased

BatchCoherent(f) ==
    /\ RowsCoherent(people, f, batch[f].rows)
    /\ batch[f].version <= version[FileEvent[f]]
    /\ ~overlapped => batch[f].reviewed = batch[f].version
    /\ ~batch[f].raced => Undisputed(f, batch[f].rows)

\* A person of an email that a file did not know came after the file was staged.
LaterPeople(f) ==
    \A i \in DOMAIN FileRows[f], p \in PersonIds :
        /\ FileRows[f][i].kind # "wide" /\ batch[f].rows[i].outcome = "none"
        /\ p \in ActiveWith(people, FileRows[f][i].email)
        /\ people[p].origin \in Files \ {f} /\ FileEvent[people[p].origin] = FileEvent[f]
        => version[FileEvent[f]] > batch[f].version

CallCoherent(c) ==
    /\ c.kind \in {"commit", "decide"} =>
          /\ c.file \in Files /\ batch[c.file].status # "none" /\ Len(c.rows) = Len(FileRows[c.file])
          /\ RowsCoherent(people, c.file, c.rows) /\ Descends(c.file, batch[c.file].rows, c.rows)
    /\ c.kind = "commit" =>
          /\ c.revision <= version[FileEvent[c.file]]
          /\ ~overlapped => c.revision = c.version /\ c.version = batch[c.file].version
          /\ \A i \in DOMAIN FileRows[c.file] : c.rows[i].error => Ignored(c.rows[i])
    /\ c.kind = "decide" =>
          /\ c.row \in DOMAIN FileRows[c.file] /\ ~c.rows[c.row].committed /\ c.status # None
          /\ c.version <= Len(FileRows[c.file]) /\ c.action # None
          /\ c.action = "choose" => c.person # None /\ Reviewed(people, c.person, c.revision)
    /\ c.kind \in {"delete", "participant"} => c.person # None /\ people[c.person] # NoPerson
    /\ c.kind = "participant" =>
          /\ c.event # None /\ c.revision <= version[c.event]
          /\ ~overlapped => c.revision = c.version

\* What batches and requests may rely on: the numbers of a program agree until two requests
\* overlap, and what was read of people and rows was once true.
ImportCoherent ==
    /\ ~overlapped => \A e \in Events : revision[e] = version[e]
    /\ \A f \in Files : batch[f].status # "none" => BatchCoherent(f) /\ LaterPeople(f)
    /\ \A q \in Calls : CallCoherent(call[q])

\* Imports of people beside edits and deletions, with the exceptions each part names: no
\* stale review is applied, nobody who was deleted returns, a batch is what it says, the
\* operator's decisions hold, and an email belongs to one person (create_batch, decide,
\* commit_batch, delete_person).
ImportSafe ==
    /\ ImportTypeOK
    /\ StaleOnlyAfterOverlap
    /\ DeletedStayOut
    /\ BatchStatusHonest
    /\ DecisionsHonoured
    /\ OneIdentity
    /\ ImportCoherent
=============================================================================
