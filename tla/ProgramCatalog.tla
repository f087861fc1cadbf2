---------------------------- MODULE ProgramCatalog ----------------------------
(***************************************************************************)
(* The sessions and presentations of an event program at Central, the      *)
(* links between them and their presenters: edited by hand, imported, and  *)
(* materialized, which gives every imported session a presentation.        *)
(*                                                                         *)
(* Every request is one transaction, and its checks are those of one row   *)
(* (overlapping requests are in ProgramImport).  Sessions and              *)
(* presentations are numbered in the order they are made.  A presentation  *)
(* has a code and an identifier, both unique in the event: a new one has   *)
(* its code as identifier, or a generated one (NoCode), and keeps it when  *)
(* its code changes.  Titles, times, revisions and the status that         *)
(* archiving sets, which neither an import nor a repair looks at, are left *)
(* out.                                                                    *)
(***************************************************************************)
EXTENDS Naturals, FiniteSets, Sequences

CONSTANTS
    MaxSessions, MaxPresentations,  \* bounds on the rows
    Codes, NoCode,
    Presenters, Nobody,             \* event participations
    Sheets,                         \* files to import
    SheetRows,                      \* their rows, in the order of commit_batch
    MaxHandEdits                    \* bound on the edits by hand and from Sites

ASSUME CatalogAssumption ==
    /\ MaxSessions \in Nat /\ MaxPresentations \in Nat /\ MaxHandEdits \in Nat
    /\ NoCode \notin Codes /\ Nobody \notin Presenters
    /\ \A f \in Sheets : SheetRows[f] \in
          Seq([kind: {"session", "presentation"}, code: Codes \cup {NoCode},
               session: Codes \cup {NoCode}, titled: BOOLEAN, presenter: Presenters \cup {Nobody}])

VARIABLES
    catalog,        \* the tables, see CatalogTypeOK
    imported,       \* files that have been committed
    repairs,        \* repairs since the last other change
    handEdits

catalogVars == <<catalog, imported, repairs, handEdits>>

SessionIds == 1..MaxSessions
PresentationIds == 1..MaxPresentations
Unset == 0
NoSession == [code |-> NoCode, source |-> "none"]
NoPresentation == [code |-> NoCode, ident |-> NoCode, session |-> Unset, source |-> "none", unlinked |-> FALSE]

Live(t) == {s \in SessionIds : t.sessions[s] # NoSession}
Shown(t) == {p \in PresentationIds : t.presentations[p] # NoPresentation}
Coded(t, c) == {s \in Live(t) : c # NoCode /\ t.sessions[s].code = c}
Named(t, c) == {p \in Shown(t) : c # NoCode /\ t.presentations[p].code = c}
Identified(t, c) == {p \in Shown(t) : c # NoCode /\ t.presentations[p].ident = c}
Of(t, s) == {p \in Shown(t) : t.presentations[p].session = s}
Least(S) == CHOOSE x \in S : \A y \in S : x <= y

\* Inside a transaction, ok tells whether it still stands and touched which sessions the
\* rows of an import have met.
Tables ==
    [sessions: [SessionIds -> [code: Codes \cup {NoCode}, source: {"import", "hand"}] \cup {NoSession}],
     presentations: [PresentationIds ->
            [code: Codes \cup {NoCode}, ident: Codes \cup {NoCode}, session: SessionIds \cup {Unset},
             source: {"import", "materialized", "hand", "site"}, unlinked: BOOLEAN] \cup {NoPresentation}],
     links: SUBSET (PresentationIds \X SessionIds),
     roster: [SessionIds -> SUBSET Presenters],
     presenters: [PresentationIds -> SUBSET Presenters],
     ok: BOOLEAN, touched: Seq(SessionIds)]

\* Rows are numbered without gaps, their codes and identifiers are unique in the event,
\* and what they refer to exists.
Consistent(t) ==
    /\ \E n \in 0..MaxSessions : Live(t) = 1..n
    /\ \E n \in 0..MaxPresentations : Shown(t) = 1..n
    /\ \A s, r \in Live(t) : t.sessions[s].code = t.sessions[r].code /\ s # r => t.sessions[s].code = NoCode
    /\ \A p, q \in Shown(t) :
           t.presentations[p].code = t.presentations[q].code /\ p # q => t.presentations[p].code = NoCode
    /\ \A p, q \in Shown(t) :
           t.presentations[p].ident = t.presentations[q].ident /\ p # q => t.presentations[p].ident = NoCode
    /\ \A p \in Shown(t) : t.presentations[p].session \in Live(t) \cup {Unset}
    /\ t.links \subseteq Shown(t) \X Live(t)

CatalogTypeOK ==
    /\ catalog \in Tables /\ Consistent(catalog)
    /\ catalog.ok /\ catalog.touched = <<>>
    /\ imported \subseteq Sheets
    /\ repairs \in 0..(MaxSessions + 1)
    /\ handEdits \in 0..MaxHandEdits

CatalogInit ==
    /\ catalog = [sessions |-> [s \in SessionIds |-> NoSession],
                  presentations |-> [p \in PresentationIds |-> NoPresentation],
                  links |-> {}, roster |-> [s \in SessionIds |-> {}],
                  presenters |-> [p \in PresentationIds |-> {}],
                  ok |-> TRUE, touched |-> <<>>]
    /\ imported = {}
    /\ repairs = 0
    /\ handEdits = 0

-----------------------------------------------------------------------------
(* Rows of the tables.  The record t is the state inside a transaction; t.ok *)
(* is lost when the request is refused.                                      *)

NextSession(t) == Cardinality(Live(t)) + 1
NextPresentation(t) == Cardinality(Shown(t)) + 1

AddSession(t, c, source) ==
    IF NextSession(t) > MaxSessions \/ Coded(t, c) # {} THEN [t EXCEPT !.ok = FALSE]
    ELSE [t EXCEPT !.sessions[NextSession(t)] = [code |-> c, source |-> source]]

\* A row with code c and identifier i.
InsertPresentation(t, c, i, source) ==
    IF NextPresentation(t) > MaxPresentations \/ Named(t, c) # {} \/ Identified(t, i) # {}
    THEN [t EXCEPT !.ok = FALSE]
    ELSE [t EXCEPT !.presentations[NextPresentation(t)] =
            [code |-> c, ident |-> i, session |-> Unset, source |-> source, unlinked |-> FALSE]]

AddPresentation(t, c, source) == InsertPresentation(t, c, c, source)

\* The primary session of a presentation and its link.
Place(t, p, s) ==
    [t EXCEPT !.presentations[p] = [@ EXCEPT !.session = s, !.unlinked = FALSE],
              !.links = @ \cup {<<p, s>>}]

Present(t, p, S) == [t EXCEPT !.presenters[p] = @ \cup S]
Enlist(t, s, x) == IF x = Nobody THEN t ELSE [t EXCEPT !.roster[s] = @ \cup {x}]

-----------------------------------------------------------------------------
(* Materialization.                                                        *)

_materialize_without_moving(t, s) ==
    LET c == t.sessions[s].code
        u == IF Of(t, s) \cup Named(t, c) # {} THEN t ELSE AddPresentation(t, c, "materialized")
        p == IF Of(t, s) # {} THEN Least(Of(t, s))
             ELSE IF Named(t, c) # {} THEN Least(Named(t, c)) ELSE NextPresentation(t)
    IN  IF ~u.ok THEN u
        ELSE IF p = NextPresentation(t) THEN Present(Place(u, p, s), p, u.roster[s])
        ELSE Present([u EXCEPT !.links = @ \cup {<<p, s>>}], p, u.roster[s])

\* _materialize_session_presentation: the first presentation of the session, else the
\* one with the session's code, wherever it is, else a new one.
_materialize_session_presentation(t, s) ==
    LET c == t.sessions[s].code
        u == IF Of(t, s) \cup Named(t, c) # {} THEN t ELSE AddPresentation(t, c, "materialized")
        p == IF Of(t, s) # {} THEN Least(Of(t, s))
             ELSE IF Named(t, c) # {} THEN Least(Named(t, c)) ELSE NextPresentation(t)
    IN  IF ~u.ok THEN u
        ELSE Present(Place(u, p, s), p, u.roster[s])

\* One session after the other; Unset stands for none.
MaterializeOne(t, s) == IF t.ok /\ s # Unset THEN _materialize_session_presentation(t, s) ELSE t

Materialize(t, order) ==
    LET run[n \in 0..Len(order)] == IF n = 0 THEN t ELSE MaterializeOne(run[n - 1], order[n])
    IN  run[Len(order)]

\* unmaterialized_imported_sessions
Imported(t) == {s \in Live(t) : t.sessions[s].source = "import" /\ t.sessions[s].code # NoCode}
Unmaterialized(t) == {s \in Imported(t) : Of(t, s) = {}}

\* repair_event_presentation_materialization: in whatever order the query returns them.
Orders(S) == {q \in [1..Cardinality(S) -> S] : \A i, j \in DOMAIN q : q[i] = q[j] => i = j}

\* A repair in which a new row breaks an index is rolled back as a whole.
repair(order) ==
    LET t == Materialize(catalog, order)
    IN  /\ catalog' = IF t.ok THEN t ELSE catalog
        /\ repairs' = IF repairs > MaxSessions THEN repairs ELSE repairs + 1
        /\ UNCHANGED <<imported, handEdits>>

-----------------------------------------------------------------------------
(* The import.                                                             *)

\* A session row updates the session with its code, whoever made it, else makes one.
ImportSession(t, r) ==
    LET s == IF Coded(t, r.code) # {} THEN Least(Coded(t, r.code)) ELSE NextSession(t)
        u == IF Coded(t, r.code) # {} THEN t ELSE AddSession(t, r.code, "import")
    IN  IF ~u.ok THEN u ELSE [Enlist(u, s, r.presenter) EXCEPT !.touched = Append(@, s)]

\* A presentation row without a session leaves the presentation where it is.
ImportPresentation_clears(t, r) ==
    LET p == IF Named(t, r.code) # {} THEN Least(Named(t, r.code)) ELSE NextPresentation(t)
        u == IF Named(t, r.code) # {} THEN t ELSE AddPresentation(t, r.code, "import")
        v == IF r.session = NoCode \/ Coded(u, r.session) # {} THEN u
             ELSE IF r.titled THEN AddSession(u, r.session, "import") ELSE [u EXCEPT !.ok = FALSE]
        x == IF r.presenter = Nobody THEN {} ELSE {r.presenter}
    IN  IF ~v.ok THEN v
        ELSE IF r.session = NoCode
             THEN Present([v EXCEPT !.presentations[p].session = Unset], p, x)
        ELSE LET s == Least(Coded(v, r.session))
             IN  [Present(Enlist(Place(v, p, s), s, r.presenter), p, x)
                     EXCEPT !.touched = Append(@, s)]

\* A presentation row updates the presentation with its code, else makes one, and puts
\* it in the session of its session code, which is made if the row has its title.
ImportPresentation(t, r) ==
    LET p == IF Named(t, r.code) # {} THEN Least(Named(t, r.code)) ELSE NextPresentation(t)
        u == IF Named(t, r.code) # {} THEN t ELSE AddPresentation(t, r.code, "import")
        v == IF r.session = NoCode \/ Coded(u, r.session) # {} THEN u
             ELSE IF r.titled THEN AddSession(u, r.session, "import") ELSE [u EXCEPT !.ok = FALSE]
        x == IF r.presenter = Nobody THEN {} ELSE {r.presenter}
    IN  IF ~v.ok THEN v
        ELSE IF r.session = NoCode THEN Present(v, p, x)
        ELSE LET s == Least(Coded(v, r.session))
             IN  [Present(Enlist(Place(v, p, s), s, r.presenter), p, x)
                     EXCEPT !.touched = Append(@, s)]

ImportLine(t, r) ==
    IF ~t.ok THEN t
    ELSE IF r.kind = "session" THEN ImportSession(t, r) ELSE ImportPresentation(t, r)

ImportRows(f) ==
    LET run[n \in 0..Len(SheetRows[f])] ==
            IF n = 0 THEN catalog ELSE ImportLine(run[n - 1], SheetRows[f][n])
    IN  run[Len(SheetRows[f])]

\* The sessions of the rows, each once, in the order of their first row.
FirstTouches(q) == [i \in DOMAIN q |-> IF \E j \in 1..(i - 1) : q[j] = q[i] THEN Unset ELSE q[i]]

Assignable(t, q) == \A i \in DOMAIN q : Of(t, q[i]) # {}

\* commit_batch: the rows, the presentations of their sessions, and the final check that
\* every session of the batch has one.
ImportSheet(f) ==
    LET rows == ImportRows(f)
        t == Materialize(rows, FirstTouches(rows.touched))
    IN  /\ f \notin imported
        /\ rows.ok /\ t.ok /\ Assignable(t, rows.touched)
        /\ catalog' = [t EXCEPT !.touched = <<>>]
        /\ imported' = imported \cup {f}
        /\ repairs' = 0
        /\ UNCHANGED handEdits

-----------------------------------------------------------------------------
(* Edits by hand, and presentations made at a Site.                        *)

Apply(t) ==
    /\ handEdits < MaxHandEdits /\ handEdits' = handEdits + 1
    /\ t.ok
    /\ catalog' = t
    /\ repairs' = 0
    /\ UNCHANGED imported

create_session(c) == Apply(AddSession(catalog, c, "hand"))

update_session(s, c) ==
    /\ s \in Live(catalog) /\ Coded(catalog, c) \subseteq {s}
    /\ Apply([catalog EXCEPT !.sessions[s].code = c])

create_presentation(c, s) ==
    LET t == AddPresentation(catalog, c, "hand")
    IN  /\ s \in Live(catalog) \cup {Unset}
        /\ Apply(IF t.ok /\ s # Unset THEN Place(t, NextPresentation(catalog), s) ELSE t)

\* The preferred session is stored without a link.
update_presentation(p, c, s) ==
    /\ p \in Shown(catalog) /\ s \in Live(catalog) \cup {Unset}
    /\ Named(catalog, c) \subseteq {p}
    /\ Apply([catalog EXCEPT !.presentations[p] =
                [@ EXCEPT !.code = c, !.session = s, !.unlinked = <<p, s>> \notin catalog.links]])

\* apply_site_event on site.presentation.upserted, which a Site sends once, for a
\* presentation it has made: without its code, and the session without a link.
site_presentation_upserted(i, s) ==
    LET t == InsertPresentation(catalog, NoCode, i, "site")
    IN  /\ s \in Live(catalog) \cup {Unset}
        /\ Apply(IF ~t.ok THEN t
                 ELSE [t EXCEPT !.presentations[NextPresentation(catalog)] =
                            [@ EXCEPT !.session = s, !.unlinked = (s # Unset)]])

link_presentation_session(p, s, primary) ==
    /\ p \in Shown(catalog) /\ s \in Live(catalog)
    /\ <<p, s>> \notin catalog.links
    /\ Apply(IF primary THEN Place(catalog, p, s)
             ELSE [catalog EXCEPT !.links = @ \cup {<<p, s>>}])

remove_presentation_session_keeps_primary(p, s) ==
    /\ <<p, s>> \in catalog.links
    /\ Apply([catalog EXCEPT !.links = @ \ {<<p, s>>}])

remove_presentation_session(p, s) ==
    /\ <<p, s>> \in catalog.links
    /\ Apply([catalog EXCEPT !.links = @ \ {<<p, s>>},
                             !.presentations[p].session = IF @ = s THEN Unset ELSE @])

assign_session_presenter(s, x) ==
    s \in Live(catalog) /\ x \notin catalog.roster[s] /\ Apply(Enlist(catalog, s, x))

remove_session_presenter(s, x) ==
    x \in catalog.roster[s] /\ Apply([catalog EXCEPT !.roster[s] = @ \ {x}])

link_presentation_presenter(p, x) ==
    p \in Shown(catalog) /\ x \notin catalog.presenters[p] /\ Apply(Present(catalog, p, {x}))

remove_presentation_presenter(p, x) ==
    x \in catalog.presenters[p] /\ Apply([catalog EXCEPT !.presenters[p] = @ \ {x}])

-----------------------------------------------------------------------------

MaterializeNext ==
    \/ \E f \in Sheets : ImportSheet(f)
    \/ \E order \in Orders(Imported(catalog)) : repair(order)

EditSessions ==
    \/ \E c \in Codes \cup {NoCode} : create_session(c)
    \/ \E s \in SessionIds, c \in Codes \cup {NoCode} : update_session(s, c)
    \/ \E c \in Codes \cup {NoCode}, s \in SessionIds \cup {Unset} : create_presentation(c, s)
    \/ \E i \in Codes \cup {NoCode}, s \in SessionIds \cup {Unset} : site_presentation_upserted(i, s)
    \/ \E p \in PresentationIds, c \in Codes \cup {NoCode}, s \in SessionIds \cup {Unset} :
          update_presentation(p, c, s)

EditLinks ==
    \/ \E p \in PresentationIds, s \in SessionIds :
          \/ \E primary \in BOOLEAN : link_presentation_session(p, s, primary)
          \/ remove_presentation_session(p, s)
    \/ \E x \in Presenters :
          \/ \E s \in SessionIds : assign_session_presenter(s, x) \/ remove_session_presenter(s, x)
          \/ \E p \in PresentationIds :
                link_presentation_presenter(p, x) \/ remove_presentation_presenter(p, x)

CatalogNext == MaterializeNext \/ EditSessions \/ EditLinks

CatalogSpec == CatalogInit /\ [][CatalogNext]_catalogVars

-----------------------------------------------------------------------------

\* The primary session of a presentation is among its links, unless update_presentation
\* or the report of a Site has set it, which make no link (remove_presentation_session,
\* Place, apply_site_event).
PrimaryIsLinked ==
    \A p \in Shown(catalog) :
        LET x == catalog.presentations[p]
        IN  x.session # Unset /\ ~x.unlinked => <<p, x.session>> \in catalog.links

\* An import or a repair takes a presentation away from an imported session only to put
\* it into the session that has its code, or that its own row names.  It may be the only
\* one the session had, and of a session of an earlier import nobody notices
\* (_materialize_session_presentation, commit_batch).
MovesExplained ==
    [][handEdits' = handEdits =>
          \A p \in Shown(catalog) :
              LET x == catalog.presentations[p]
                  y == catalog'.presentations[p]
              IN  x.session # Unset /\ y.session # x.session =>
                      \/ y.session \in Coded(catalog', x.code)
                      \/ \E f \in imported' \ imported : \E i \in DOMAIN SheetRows[f] :
                            /\ SheetRows[f][i].code = x.code
                            /\ y.session \in Coded(catalog', SheetRows[f][i].session)]_catalogVars

\* The imported sessions whose code no presentation has, though it is the identifier of
\* one whose code was changed, or of one made at a Site.
Usurped(t) == {s \in Imported(t) : LET c == t.sessions[s].code
                                   IN  Named(t, c) = {} /\ Identified(t, c) # {}}

\* A repair can leave a session it has passed already without a presentation, when a
\* later session takes it; but as many repairs as there are sessions give every imported
\* session a presentation with all its presenters, and the next one changes nothing.
\* The exception: the code of a session is the identifier of a presentation that has not
\* this code.  A session that has no other presentation then never gets one, and the
\* failed row takes the whole repair with it (repair_event_presentation_materialization).
RepairsConverge ==
    repairs >= MaxSessions /\ Usurped(catalog) = {} =>
        /\ Unmaterialized(catalog) = {}
        /\ \A s \in Imported(catalog) :
              \E p \in Of(catalog, s) : catalog.roster[s] \subseteq catalog.presenters[p]
        /\ \A order \in Orders(Imported(catalog)) : Materialize(catalog, order) = catalog

\* The catalog after any imports and edits: the primary session of a presentation is
\* among its links unless update_presentation or a Site set it, codes and identifiers are
\* unique and nothing refers to a row that is not there (commit_batch,
\* remove_presentation_session).
CatalogSafe == CatalogTypeOK /\ PrimaryIsLinked
=============================================================================
