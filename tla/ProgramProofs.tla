---------------------------- MODULE ProgramProofs ----------------------------
(***************************************************************************)
(* Proofs about the event program at Central: ProgramCatalog, for any      *)
(* number of sessions, presentations, codes, presenters and files, and     *)
(* rows in any order, and ProgramImport, for any number of people, files,  *)
(* rows, events and concurrent requests.                                   *)
(***************************************************************************)
EXTENDS ProgramCatalog, ProgramImport, FiniteSetTheorems, NaturalsInduction,
        WellFoundedInduction, TLAPS

-----------------------------------------------------------------------------
(* The catalog: numbers, folds and rows.                                   *)

LEMMA LeastOf ==
    ASSUME NEW T, T \subseteq Nat, T # {}
    PROVE  \E x \in T : \A y \in T : x <= y
<1> DEFINE R == OpToRel(<, Nat)
<1>1. IsWellFoundedOn(R, Nat)
  BY NatLessThanWellFounded
<1>2. \A x, y \in Nat : <<x, y>> \in R <=> x < y
  BY DEF OpToRel
<1> HIDE DEF R
<1>3. \E x \in T : \A y \in T : <<y, x>> \notin R
  BY <1>1, WFMin
<1>4. PICK x \in T : \A y \in T : <<y, x>> \notin R
  BY <1>3
<1>5. \A y \in T : ~(y < x)
  BY <1>2, <1>4
<1> QED
  BY <1>5

LEMMA LeastIsIn ==
    ASSUME NEW T, T \subseteq Nat, T # {}
    PROVE  Least(T) \in T
BY LeastOf DEF Least

SessionRowType == [code: Codes \cup {NoCode}, source: {"import", "hand"}]
PresentationRowType == [code: Codes \cup {NoCode}, ident: Codes \cup {NoCode}, session: SessionIds \cup {Unset},
                        source: {"import", "materialized", "hand", "site"}, unlinked: BOOLEAN]

\* The tables inside a transaction that stands.
Linked(t) ==
    \A p \in Shown(t) : t.presentations[p].session # Unset /\ ~t.presentations[p].unlinked =>
                            <<p, t.presentations[p].session>> \in t.links
Sound(t) == t \in Tables /\ Consistent(t) /\ Linked(t)

\* What an import and a repair keep of the tables: every row with its code.
Kept(t, u) ==
    /\ Live(t) \subseteq Live(u) /\ \A s \in Live(t) : u.sessions[s].code = t.sessions[s].code
    /\ Shown(t) \subseteq Shown(u)
    /\ \A p \in Shown(t) : u.presentations[p].code = t.presentations[p].code

\* A presentation is where it was, in the session with its code, or in the one that a row
\* of R with its code names.
ExplainedBy(t, u, R, p) ==
    LET y == u.presentations[p].session
        c == t.presentations[p].code
    IN  \/ y = t.presentations[p].session
        \/ y \in Coded(u, c)
        \/ \E r \in R : r.code = c /\ y \in Coded(u, r.session)
Explained(t, u, R) == \A p \in Shown(t) : ExplainedBy(t, u, R, p)

LEMMA CatalogConstants ==
    /\ MaxSessions \in Nat /\ MaxPresentations \in Nat /\ NoCode \notin Codes /\ Unset = 0
    /\ SessionIds = 1..MaxSessions /\ PresentationIds = 1..MaxPresentations
    /\ Unset \notin SessionIds
BY CatalogAssumption DEF SessionIds, PresentationIds, Unset

LEMMA TableParts ==
    ASSUME NEW t
    PROVE  t \in Tables <=>
              /\ t = [sessions |-> t.sessions, presentations |-> t.presentations, links |-> t.links,
                      roster |-> t.roster, presenters |-> t.presenters, ok |-> t.ok,
                      touched |-> t.touched]
              /\ t.sessions \in [SessionIds -> SessionRowType \cup {NoSession}]
              /\ t.presentations \in [PresentationIds -> PresentationRowType \cup {NoPresentation}]
              /\ t.links \subseteq PresentationIds \X SessionIds
              /\ t.roster \in [SessionIds -> SUBSET Presenters]
              /\ t.presenters \in [PresentationIds -> SUBSET Presenters]
              /\ t.ok \in BOOLEAN /\ t.touched \in Seq(SessionIds)
BY DEF Tables, SessionRowType, PresentationRowType

\* The number of the next row.
LEMMA NextNumbers ==
    ASSUME NEW t, Sound(t)
    PROVE  /\ \E n \in 0..MaxSessions : Live(t) = 1..n /\ NextSession(t) = n + 1
           /\ \E n \in 0..MaxPresentations : Shown(t) = 1..n /\ NextPresentation(t) = n + 1
<1>1. PICK n \in 0..MaxSessions : Live(t) = 1..n
  BY DEF Sound, Consistent
<1>2. PICK m \in 0..MaxPresentations : Shown(t) = 1..m
  BY DEF Sound, Consistent
<1>3. \A k \in Nat : Cardinality(1..k) = k
  BY FS_Interval
<1>4. n \in Nat /\ m \in Nat
  BY CatalogConstants
<1>5. Cardinality(Live(t)) = n /\ Cardinality(Shown(t)) = m
  BY <1>1, <1>2, <1>3, <1>4
<1> QED
  BY <1>1, <1>2, <1>5 DEF NextSession, NextPresentation

LEMMA KeptIsReflexive == \A t : Kept(t, t)
BY DEF Kept

LEMMA KeptIsTransitive ==
    ASSUME NEW t, NEW u, NEW v, Kept(t, u), Kept(u, v)
    PROVE  Kept(t, v)
BY DEF Kept

LEMMA CodedKept ==
    ASSUME NEW t, NEW u, NEW c, Kept(t, u)
    PROVE  Coded(t, c) \subseteq Coded(u, c)
BY DEF Kept, Coded

LEMMA NothingMoved == \A t, R : Explained(t, t, R)
BY DEF Explained, ExplainedBy

LEMMA ExplainedTogether ==
    ASSUME NEW t, NEW u, NEW v, NEW R, Kept(t, u), Kept(u, v), Explained(t, u, R), Explained(u, v, R)
    PROVE  Explained(t, v, R)
<1> SUFFICES ASSUME NEW p \in Shown(t)
             PROVE  ExplainedBy(t, v, R, p)
  BY DEF Explained
<1>1. p \in Shown(u) /\ u.presentations[p].code = t.presentations[p].code
  BY DEF Kept
<1>2. \A c : Coded(u, c) \subseteq Coded(v, c)
  BY CodedKept
<1>3. ExplainedBy(t, u, R, p) /\ ExplainedBy(u, v, R, p)
  BY <1>1 DEF Explained
<1> QED
  BY <1>1, <1>2, <1>3 DEF ExplainedBy

-----------------------------------------------------------------------------
(* The catalog: what one write does.                                       *)

LEMMA RowNames ==
    /\ \A x \in SessionRowType : x # NoSession
    /\ \A x \in PresentationRowType : x # NoPresentation
<1>1. \A x \in SessionRowType : x.source # NoSession.source
  BY DEF SessionRowType, NoSession
<1>2. \A x \in PresentationRowType : x.source # NoPresentation.source
  BY DEF PresentationRowType, NoPresentation
<1> QED
  BY <1>1, <1>2

LEMMA LiveRows ==
    ASSUME NEW t \in Tables
    PROVE  /\ Live(t) \subseteq SessionIds /\ Shown(t) \subseteq PresentationIds
           /\ \A s \in Live(t) : t.sessions[s] \in SessionRowType
           /\ \A p \in Shown(t) : t.presentations[p] \in PresentationRowType
<1>1. /\ t.sessions \in [SessionIds -> SessionRowType \cup {NoSession}]
      /\ t.presentations \in [PresentationIds -> PresentationRowType \cup {NoPresentation}]
  BY TableParts
<1> QED
  BY <1>1 DEF Live, Shown

LEMMA AddSessionSound ==
    ASSUME NEW t, Sound(t), t.ok, NEW c \in Codes \cup {NoCode}, NEW source \in {"import", "hand"},
           AddSession(t, c, source).ok
    PROVE  LET u == AddSession(t, c, source)
               k == NextSession(t)
           IN  /\ Sound(u) /\ Kept(t, u) /\ Explained(t, u, {}) /\ u.touched = t.touched
               /\ k \in Live(u) /\ u.sessions[k].code = c /\ Live(u) = Live(t) \cup {k}
               /\ Shown(u) = Shown(t)
<1> DEFINE k == NextSession(t)
           row == [code |-> c, source |-> source]
           u == AddSession(t, c, source)
<1>1. PICK n \in 0..MaxSessions : Live(t) = 1..n /\ k = n + 1
  BY NextNumbers
<1>2. t \in Tables /\ Consistent(t) /\ Linked(t)
  BY DEF Sound
<1>3. ~(k > MaxSessions) /\ Coded(t, c) = {}
  <2> SUFFICES ASSUME k > MaxSessions \/ Coded(t, c) # {} PROVE FALSE
    OBVIOUS
  <2>1. u = [t EXCEPT !.ok = FALSE]
    BY DEF AddSession
  <2>2. ~u.ok
    BY <1>2, <2>1 DEF Tables
  <2> QED
    BY <2>2
<1>4. k \in SessionIds /\ k \notin Live(t) /\ row \in SessionRowType /\ row # NoSession
  BY <1>1, <1>3, CatalogConstants, RowNames DEF SessionRowType
<1>5. u = [t EXCEPT !.sessions[k] = row]
  BY <1>3 DEF AddSession
<1> HIDE DEF u, row
<1>6. /\ u \in Tables /\ u.sessions = [t.sessions EXCEPT ![k] = row] /\ u.presentations = t.presentations
      /\ u.links = t.links /\ u.touched = t.touched
  BY <1>2, <1>4, <1>5 DEF Tables, SessionRowType
<1>7. t.sessions \in [SessionIds -> SessionRowType \cup {NoSession}]
  BY <1>2, TableParts
<1>8. u.sessions[k] = row /\ \A s \in SessionIds \ {k} : u.sessions[s] = t.sessions[s]
  BY <1>4, <1>6, <1>7
<1>9. Live(u) = Live(t) \cup {k} /\ Shown(u) = Shown(t)
  BY <1>4, <1>6, <1>8 DEF Live, Shown
<1>10. row.code = c
  BY DEF row
<1>11. Live(u) = 1..(n + 1) /\ n + 1 \in 0..MaxSessions
  BY <1>1, <1>3, <1>9, CatalogConstants
<1>12. \A s \in Live(t) : s # k /\ s \in SessionIds /\ u.sessions[s] = t.sessions[s]
  BY <1>2, <1>4, <1>8, LiveRows
<1>13. \A s \in Live(t) : t.sessions[s].code = c => c = NoCode
  BY <1>3 DEF Coded
<1>14. \A s, r \in Live(u) : u.sessions[s].code = u.sessions[r].code /\ s # r => u.sessions[s].code = NoCode
  BY <1>2, <1>8, <1>9, <1>10, <1>12, <1>13 DEF Consistent
<1>15. Consistent(u)
  BY <1>2, <1>6, <1>9, <1>11, <1>14 DEF Consistent
<1>16. Linked(u)
  BY <1>2, <1>6, <1>9 DEF Linked
<1>17. Kept(t, u)
  BY <1>6, <1>9, <1>12 DEF Kept
<1>18. Explained(t, u, {})
  BY <1>6 DEF Explained, ExplainedBy
<1> QED
  BY <1>6, <1>8, <1>9, <1>10, <1>15, <1>16, <1>17, <1>18 DEF Sound, u

LEMMA InsertPresentationSound ==
    ASSUME NEW t, Sound(t), t.ok, NEW c \in Codes \cup {NoCode}, NEW i \in Codes \cup {NoCode},
           NEW source \in {"import", "materialized", "hand", "site"}, InsertPresentation(t, c, i, source).ok
    PROVE  LET u == InsertPresentation(t, c, i, source)
               k == NextPresentation(t)
           IN  /\ Sound(u) /\ Kept(t, u) /\ Explained(t, u, {}) /\ u.touched = t.touched
               /\ k \in Shown(u) \ Shown(t) /\ Live(u) = Live(t) /\ u.presentations[k].code = c
               /\ u.presentations[k].ident = i
<1> DEFINE k == NextPresentation(t)
           row == [code |-> c, ident |-> i, session |-> Unset, source |-> source, unlinked |-> FALSE]
           u == InsertPresentation(t, c, i, source)
<1>1. PICK n \in 0..MaxPresentations : Shown(t) = 1..n /\ k = n + 1
  BY NextNumbers
<1>2. t \in Tables /\ Consistent(t) /\ Linked(t)
  BY DEF Sound
<1>3. ~(k > MaxPresentations) /\ Named(t, c) = {} /\ Identified(t, i) = {}
  <2> SUFFICES ASSUME k > MaxPresentations \/ Named(t, c) # {} \/ Identified(t, i) # {} PROVE FALSE
    OBVIOUS
  <2>1. u = [t EXCEPT !.ok = FALSE]
    BY DEF InsertPresentation
  <2>2. ~u.ok
    BY <1>2, <2>1 DEF Tables
  <2> QED
    BY <2>2
<1>4. k \in PresentationIds /\ k \notin Shown(t) /\ row \in PresentationRowType /\ row # NoPresentation
  <2>1. k \in PresentationIds /\ k \notin Shown(t)
    BY <1>1, <1>3, CatalogConstants
  <2>2. row \in PresentationRowType
    BY DEF PresentationRowType
  <2> QED
    BY <2>1, <2>2, RowNames
<1>5. u = [t EXCEPT !.presentations[k] = row]
  BY <1>3 DEF InsertPresentation
<1> HIDE DEF u, row
<1>6. /\ u \in Tables /\ u.presentations = [t.presentations EXCEPT ![k] = row] /\ u.sessions = t.sessions
      /\ u.links = t.links /\ u.touched = t.touched
  BY <1>2, <1>4, <1>5 DEF Tables, PresentationRowType
<1>7. t.presentations \in [PresentationIds -> PresentationRowType \cup {NoPresentation}]
  BY <1>2, TableParts
<1>8. u.presentations[k] = row /\ \A p \in PresentationIds \ {k} : u.presentations[p] = t.presentations[p]
  BY <1>4, <1>6, <1>7
<1>9. Shown(u) = Shown(t) \cup {k} /\ Live(u) = Live(t)
  BY <1>4, <1>6, <1>8 DEF Live, Shown
<1>10. row.code = c /\ row.ident = i /\ row.session = Unset
  BY DEF row
<1>11. Shown(u) = 1..(n + 1) /\ n + 1 \in 0..MaxPresentations
  BY <1>1, <1>3, <1>9, CatalogConstants
<1>12. \A p \in Shown(t) : p # k /\ p \in PresentationIds /\ u.presentations[p] = t.presentations[p]
  BY <1>2, <1>4, <1>8, LiveRows
<1>13. \A p \in Shown(t) : /\ t.presentations[p].code = c => c = NoCode
                           /\ t.presentations[p].ident = i => i = NoCode
  BY <1>3 DEF Named, Identified
<1>14. \A p, q \in Shown(u) :
          /\ u.presentations[p].code = u.presentations[q].code /\ p # q => u.presentations[p].code = NoCode
          /\ u.presentations[p].ident = u.presentations[q].ident /\ p # q => u.presentations[p].ident = NoCode
  <2>1. \A p, q \in Shown(t) :
          /\ t.presentations[p].code = t.presentations[q].code /\ p # q => t.presentations[p].code = NoCode
          /\ t.presentations[p].ident = t.presentations[q].ident /\ p # q => t.presentations[p].ident = NoCode
    BY <1>2 DEF Consistent
  <2> QED
    BY <1>8, <1>9, <1>10, <1>12, <1>13, <2>1
<1>15. Consistent(u)
  <2>1. \A p \in Shown(u) : u.presentations[p].session \in Live(u) \cup {Unset}
    BY <1>2, <1>8, <1>9, <1>10, <1>12 DEF Consistent
  <2> QED
    BY <1>2, <1>6, <1>9, <1>11, <1>14, <2>1 DEF Consistent
<1>16. Linked(u)
  BY <1>2, <1>6, <1>8, <1>9, <1>10, <1>12 DEF Linked
<1>17. Kept(t, u)
  BY <1>6, <1>9, <1>12 DEF Kept
<1>18. Explained(t, u, {})
  BY <1>12 DEF Explained, ExplainedBy
<1> QED
  BY <1>4, <1>6, <1>8, <1>9, <1>10, <1>15, <1>16, <1>17, <1>18 DEF Sound, u

LEMMA AddPresentationSound ==
    ASSUME NEW t, Sound(t), t.ok, NEW c \in Codes \cup {NoCode},
           NEW source \in {"import", "materialized", "hand"}, AddPresentation(t, c, source).ok
    PROVE  LET u == AddPresentation(t, c, source)
               k == NextPresentation(t)
           IN  /\ Sound(u) /\ Kept(t, u) /\ Explained(t, u, {}) /\ u.touched = t.touched
               /\ k \in Shown(u) \ Shown(t) /\ Live(u) = Live(t) /\ u.presentations[k].code = c
BY InsertPresentationSound DEF AddPresentation

\* A presentation that is written otherwise keeps its place in the numbering.
PresentationPut(t, p, row, links) == [t EXCEPT !.presentations[p] = row, !.links = links]

LEMMA PresentationWritten ==
    ASSUME NEW t \in Tables, NEW u, NEW p \in Shown(t), NEW row \in PresentationRowType, NEW links,
           links \subseteq PresentationIds \X SessionIds,
           u = PresentationPut(t, p, row, links)
    PROVE  /\ u \in Tables /\ u.presentations[p] = row /\ u.links = links /\ u.sessions = t.sessions
           /\ u.touched = t.touched /\ u.ok = t.ok
           /\ \A q \in PresentationIds \ {p} : u.presentations[q] = t.presentations[q]
           /\ Live(u) = Live(t) /\ Shown(u) = Shown(t)
<1>1. p \in PresentationIds /\ t.presentations \in [PresentationIds -> PresentationRowType \cup {NoPresentation}]
  BY LiveRows, TableParts
<1>2. /\ u.presentations = [t.presentations EXCEPT ![p] = row] /\ u.links = links /\ u.sessions = t.sessions
      /\ u.touched = t.touched /\ u.ok = t.ok
  BY DEF Tables, PresentationPut
<1>3. u \in Tables
  BY <1>1 DEF Tables, PresentationRowType, PresentationPut
<1>4. u.presentations[p] = row /\ \A q \in PresentationIds \ {p} : u.presentations[q] = t.presentations[q]
  BY <1>1, <1>2
<1>5. Live(u) = Live(t) /\ Shown(u) = Shown(t)
  BY <1>1, <1>2, <1>4, RowNames DEF Live, Shown
<1> QED
  BY <1>2, <1>3, <1>4, <1>5

\* A presentation is placed: moved to the session that has its code, or that a row names.
LEMMA PlaceSound ==
    ASSUME NEW t, Sound(t), NEW p \in Shown(t), NEW s \in Live(t)
    PROVE  LET u == Place(t, p, s)
           IN  /\ Sound(u) /\ Kept(t, u) /\ u.touched = t.touched /\ u.ok = t.ok
               /\ Live(u) = Live(t) /\ Shown(u) = Shown(t)
               /\ \A q \in Shown(t) \ {p} : u.presentations[q] = t.presentations[q]
               /\ u.presentations[p].session = s /\ u.sessions = t.sessions
<1> DEFINE row == [t.presentations[p] EXCEPT !.session = s, !.unlinked = FALSE]
           links == t.links \cup {<<p, s>>}
           u == Place(t, p, s)
<1>1. t \in Tables /\ Consistent(t) /\ Linked(t)
  BY DEF Sound
<1>2. t.presentations[p] \in PresentationRowType /\ p \in PresentationIds /\ s \in SessionIds
  BY <1>1, LiveRows
<1>3. /\ row \in PresentationRowType /\ row.session = s /\ row.code = t.presentations[p].code
      /\ row.ident = t.presentations[p].ident
  BY <1>2 DEF PresentationRowType
<1>4. links \subseteq PresentationIds \X SessionIds /\ links \subseteq Shown(t) \X Live(t)
  <2>1. t.links \subseteq PresentationIds \X SessionIds /\ t.links \subseteq Shown(t) \X Live(t)
    BY <1>1, TableParts DEF Consistent
  <2> QED
    BY <1>2, <2>1
<1>5. u = PresentationPut(t, p, row, links)
  BY DEF Place, PresentationPut
<1> HIDE DEF u, row, links
<1>6. /\ u \in Tables /\ u.presentations[p] = row /\ u.links = links /\ u.sessions = t.sessions
      /\ u.touched = t.touched /\ u.ok = t.ok
      /\ \A q \in PresentationIds \ {p} : u.presentations[q] = t.presentations[q]
      /\ Live(u) = Live(t) /\ Shown(u) = Shown(t)
  BY <1>1, <1>3, <1>4, <1>5, PresentationWritten
<1>7. \A q \in Shown(t) : /\ u.presentations[q].code = t.presentations[q].code
                          /\ u.presentations[q].ident = t.presentations[q].ident
                          /\ q # p => u.presentations[q] = t.presentations[q]
  BY <1>1, <1>3, <1>6, LiveRows
<1>8. \A q \in Shown(u) : u.presentations[q].session \in Live(u) \cup {Unset}
  BY <1>1, <1>3, <1>6, <1>7 DEF Consistent
<1>9. Consistent(u)
  BY <1>1, <1>4, <1>6, <1>7, <1>8 DEF Consistent
<1>10. Linked(u)
  BY <1>1, <1>3, <1>6, <1>7 DEF Linked, links
<1>11. Kept(t, u)
  BY <1>6, <1>7 DEF Kept
<1> QED
  BY <1>3, <1>6, <1>7, <1>9, <1>10, <1>11 DEF Sound, u

\* Presenters and the list of touched sessions leave everything else alone.
SameRows(t, u) ==
    u.sessions = t.sessions /\ u.presentations = t.presentations /\ u.links = t.links

LEMMA SameRowsSound ==
    ASSUME NEW t, NEW u \in Tables, Sound(t), SameRows(t, u)
    PROVE  Sound(u) /\ Kept(t, u) /\ Live(u) = Live(t) /\ Shown(u) = Shown(t)
<1>1. Live(u) = Live(t) /\ Shown(u) = Shown(t)
  BY DEF SameRows, Live, Shown
<1>2. Consistent(u) /\ Linked(u) /\ Kept(t, u)
  BY <1>1 DEF SameRows, Sound, Consistent, Linked, Kept
<1> QED
  BY <1>1, <1>2 DEF Sound

LEMMA PresentSame ==
    ASSUME NEW t \in Tables, NEW p \in PresentationIds, NEW S, S \subseteq Presenters
    PROVE  LET u == Present(t, p, S)
           IN  u \in Tables /\ SameRows(t, u) /\ u.touched = t.touched /\ u.ok = t.ok /\ u.roster = t.roster
BY DEF Present, Tables, SameRows

LEMMA EnlistSame ==
    ASSUME NEW t \in Tables, NEW s \in SessionIds, NEW x \in Presenters \cup {Nobody}
    PROVE  LET u == Enlist(t, s, x)
           IN  u \in Tables /\ SameRows(t, u) /\ u.touched = t.touched /\ u.ok = t.ok
BY DEF Enlist, Tables, SameRows

LEMMA TouchSame ==
    ASSUME NEW t \in Tables, NEW s \in SessionIds
    PROVE  LET u == [t EXCEPT !.touched = Append(@, s)]
           IN  u \in Tables /\ SameRows(t, u) /\ u.touched = Append(t.touched, s) /\ u.ok = t.ok
<1>1. t.touched \in Seq(SessionIds)
  BY DEF Tables
<1>2. Append(t.touched, s) \in Seq(SessionIds)
  BY <1>1
<1> DEFINE q == Append(t.touched, s)
<1> HIDE DEF q
<1>3. LET u == [t EXCEPT !.touched = q]
      IN  u \in Tables /\ SameRows(t, u) /\ u.touched = q /\ u.ok = t.ok
  BY <1>2 DEF Tables, SameRows, q
<1> QED
  BY <1>3 DEF q

-----------------------------------------------------------------------------
(* The catalog: materialization.                                           *)

Advances(t, u, R) == Sound(u) /\ u.ok /\ Kept(t, u) /\ Explained(t, u, R)

LEMMA AdvanceTogether ==
    ASSUME NEW t, NEW u, NEW v, NEW R, Advances(t, u, R), Advances(u, v, R)
    PROVE  Advances(t, v, R)
BY KeptIsTransitive, ExplainedTogether DEF Advances

LEMMA AdvanceNowhere ==
    ASSUME NEW t, NEW R, Sound(t), t.ok
    PROVE  Advances(t, t, R)
BY KeptIsReflexive, NothingMoved DEF Advances

LEMMA ExplainedMore ==
    ASSUME NEW t, NEW u, NEW R, NEW Q, R \subseteq Q, Advances(t, u, R)
    PROVE  Advances(t, u, Q)
BY DEF Advances, Explained, ExplainedBy

LEMMA SameAdvances ==
    ASSUME NEW t, NEW u \in Tables, NEW R, Sound(t), t.ok, u.ok, SameRows(t, u)
    PROVE  Advances(t, u, R)
<1>1. Sound(u) /\ Kept(t, u)
  BY SameRowsSound
<1>2. Explained(t, u, R)
  BY DEF Explained, ExplainedBy, SameRows
<1> QED
  BY <1>1, <1>2 DEF Advances

\* The presentation of a code is put into a session.
LEMMA PlaceAdvances ==
    ASSUME NEW t, Sound(t), t.ok, NEW p \in Shown(t), NEW s \in Live(t), NEW R,
           \/ t.presentations[p].session = s
           \/ s \in Coded(t, t.presentations[p].code)
           \/ \E r \in R : r.code = t.presentations[p].code /\ s \in Coded(t, r.session)
    PROVE  Advances(t, Place(t, p, s), R)
<1> DEFINE u == Place(t, p, s)
<1>1. /\ Sound(u) /\ Kept(t, u) /\ u.ok /\ Live(u) = Live(t) /\ u.sessions = t.sessions
      /\ \A q \in Shown(t) \ {p} : u.presentations[q] = t.presentations[q]
      /\ u.presentations[p].session = s
  BY PlaceSound
<1> HIDE DEF u
<1>2. \A c : Coded(u, c) = Coded(t, c)
  BY <1>1 DEF Coded
<1>3. \A q \in Shown(t) : ExplainedBy(t, u, R, q)
  BY <1>1, <1>2 DEF ExplainedBy
<1> QED
  BY <1>1, <1>3 DEF Advances, Explained, u

\* Putting a row into the sheet before does not matter for what was there already.
LEMMA NewPlaceAdvances ==
    ASSUME NEW t, NEW u, Advances(t, u, {}), NEW p \in Shown(u) \ Shown(t), NEW s \in Live(u)
    PROVE  Advances(t, Place(u, p, s), {})
<1> DEFINE v == Place(u, p, s)
<1>0. Sound(u) /\ u.ok /\ Kept(t, u) /\ Explained(t, u, {})
  BY DEF Advances
<1>1. /\ Sound(v) /\ Kept(u, v) /\ v.ok /\ Live(v) = Live(u) /\ v.sessions = u.sessions
      /\ \A q \in Shown(u) \ {p} : v.presentations[q] = u.presentations[q]
  BY <1>0, PlaceSound
<1> HIDE DEF v
<1>2. \A c : Coded(v, c) = Coded(u, c)
  BY <1>1 DEF Coded
<1>3. Kept(t, v)
  BY <1>0, <1>1, KeptIsTransitive
<1>4. \A q \in Shown(t) : q \in Shown(u) \ {p} /\ ExplainedBy(t, u, {}, q)
  BY <1>0 DEF Kept, Explained
<1>5. \A q \in Shown(t) : ExplainedBy(t, v, {}, q)
  BY <1>1, <1>2, <1>4 DEF ExplainedBy
<1> QED
  BY <1>1, <1>3, <1>5 DEF Advances, Explained, v

LEMMA OfAndNamed ==
    ASSUME NEW t, Sound(t), NEW s, NEW c
    PROVE  /\ Of(t, s) \subseteq Shown(t) /\ Named(t, c) \subseteq Shown(t) /\ Coded(t, c) \subseteq Live(t)
           /\ Of(t, s) # {} => Least(Of(t, s)) \in Of(t, s)
           /\ Named(t, c) # {} => Least(Named(t, c)) \in Named(t, c)
           /\ Coded(t, c) # {} => Least(Coded(t, c)) \in Coded(t, c)
<1>1. Shown(t) \subseteq Nat /\ Live(t) \subseteq Nat
  BY CatalogConstants, LiveRows DEF Sound
<1>2. Of(t, s) \subseteq Shown(t) /\ Named(t, c) \subseteq Shown(t) /\ Coded(t, c) \subseteq Live(t)
  BY DEF Of, Named, Coded
<1>3. Of(t, s) \subseteq Nat /\ Named(t, c) \subseteq Nat /\ Coded(t, c) \subseteq Nat
  BY <1>1, <1>2
<1> QED
  BY <1>2, <1>3, LeastIsIn

LEMMA MaterializeSound ==
    ASSUME NEW t, Sound(t), t.ok, NEW s \in Live(t), _materialize_session_presentation(t, s).ok
    PROVE  LET v == _materialize_session_presentation(t, s)
           IN  Advances(t, v, {}) /\ v.touched = t.touched
<1> DEFINE c == t.sessions[s].code
           u == IF Of(t, s) \cup Named(t, c) # {} THEN t ELSE AddPresentation(t, c, "materialized")
           p == IF Of(t, s) # {} THEN Least(Of(t, s))
                ELSE IF Named(t, c) # {} THEN Least(Named(t, c)) ELSE NextPresentation(t)
           y == Place(u, p, s)
           v == _materialize_session_presentation(t, s)
<1>0. t \in Tables /\ s \in SessionIds /\ c \in Codes \cup {NoCode}
  BY LiveRows DEF Sound, SessionRowType
<1>1. v = IF ~u.ok THEN u ELSE Present(y, p, u.roster[s])
  BY DEF _materialize_session_presentation
<1>2. u.ok /\ v = Present(y, p, u.roster[s])
  BY <1>1
<1>3. Sound(u) /\ p \in Shown(u) /\ s \in Live(u) /\ u.touched = t.touched /\ Advances(t, y, {})
  <2>1. CASE Of(t, s) # {}
    <3>1. u = t /\ p = Least(Of(t, s)) /\ p \in Of(t, s)
      BY <2>1, OfAndNamed
    <3> HIDE DEF u, p
    <3>2. p \in Shown(t) /\ t.presentations[p].session = s
      BY <3>1 DEF Of
    <3>3. Advances(t, Place(t, p, s), {})
      BY <3>2, PlaceAdvances
    <3> QED
      BY <3>1, <3>2, <3>3
  <2>2. CASE Of(t, s) = {} /\ Named(t, c) # {}
    <3>1. u = t /\ p = Least(Named(t, c)) /\ p \in Named(t, c)
      BY <2>2, OfAndNamed
    <3>2. p \in Shown(t) /\ t.presentations[p].code = c /\ c # NoCode
      BY <3>1 DEF Named
    <3>3. s \in Coded(t, c)
      BY <3>2 DEF Coded
    <3> HIDE DEF u, p, c
    <3>4. Advances(t, Place(t, p, s), {})
      BY <3>2, <3>3, PlaceAdvances
    <3> QED
      BY <3>1, <3>2, <3>4
  <2>3. CASE Of(t, s) = {} /\ Named(t, c) = {}
    <3>1. u = AddPresentation(t, c, "materialized") /\ p = NextPresentation(t)
      BY <2>3
    <3> HIDE DEF u, p, c
    <3>2. /\ Sound(u) /\ Kept(t, u) /\ Explained(t, u, {}) /\ u.touched = t.touched
          /\ p \in Shown(u) \ Shown(t) /\ Live(u) = Live(t)
      BY <1>0, <1>2, <3>1, AddPresentationSound
    <3>3. Advances(t, u, {})
      BY <1>2, <3>2 DEF Advances
    <3> QED
      BY <3>2, <3>3, NewPlaceAdvances
  <2> QED
    BY <2>1, <2>2, <2>3
<1> HIDE DEF u, p, c, v
<1>4. /\ y \in Tables /\ y.touched = u.touched /\ Sound(y) /\ y.ok
      /\ p \in PresentationIds /\ u.roster[s] \subseteq Presenters
  <2>1. u \in Tables
    BY <1>3 DEF Sound
  <2> QED
    BY <1>0, <1>2, <1>3, <2>1, PlaceSound, LiveRows DEF Sound, Tables
<1> HIDE DEF y
<1>5. v \in Tables /\ SameRows(y, v) /\ v.touched = y.touched /\ v.ok = y.ok
  BY <1>2, <1>4, PresentSame
<1>6. Advances(y, v, {})
  BY <1>4, <1>5, SameAdvances
<1> QED
  BY <1>3, <1>4, <1>5, <1>6, AdvanceTogether DEF v

\* The runs of a recursive function exist: the shortest one that did not could be
\* continued from the one before it.
MaterializeRun(t, order, m, g) ==
    g = [n \in 0..m |-> IF n = 0 THEN t ELSE MaterializeOne(g[n - 1], order[n])]

LEMMA MaterializeRuns ==
    ASSUME NEW t, NEW order, Len(order) \in Nat
    PROVE  \E g : MaterializeRun(t, order, Len(order), g) /\ Materialize(t, order) = g[Len(order)]
<1> DEFINE Bad == {m \in 0..Len(order) : ~\E g : MaterializeRun(t, order, m, g)}
<1>1. Bad = {}
  <2> SUFFICES ASSUME Bad # {} PROVE FALSE
    OBVIOUS
  <2>1. Bad \subseteq Nat
    OBVIOUS
  <2>2. PICK m \in Bad : \A k \in Bad : m <= k
    BY <2>1, LeastOf
  <2>3. m # 0
    <3>1. MaterializeRun(t, order, 0, [n \in 0..0 |-> t])
      BY DEF MaterializeRun
    <3> QED
      BY <3>1
  <2>4. m \in Nat /\ m - 1 \in 0..Len(order) /\ m - 1 \notin Bad
    BY <2>2, <2>3
  <2>5. PICK g : MaterializeRun(t, order, m - 1, g)
    BY <2>4
  <2> DEFINE h == [n \in 0..m |-> IF n = m THEN MaterializeOne(g[m - 1], order[m]) ELSE g[n]]
  <2>6. \A n \in 0..m : h[n] = IF n = 0 THEN t ELSE MaterializeOne(h[n - 1], order[n])
    <3> TAKE n \in 0..m
    <3>1. CASE n = m
      <4>1. m - 1 \in 0..m /\ m - 1 # m
        BY <2>3, <2>4
      <4>2. h[m - 1] = g[m - 1] /\ h[m] = MaterializeOne(g[m - 1], order[m])
        BY <2>4, <4>1
      <4> QED
        BY <2>3, <3>1, <4>2
    <3>2. CASE n # m
      <4>1. n \in 0..(m - 1) /\ h[n] = g[n]
        BY <2>4, <3>2
      <4>2. g[n] = IF n = 0 THEN t ELSE MaterializeOne(g[n - 1], order[n])
        BY <2>5, <4>1 DEF MaterializeRun
      <4>3. n # 0 => n - 1 \in 0..m /\ n - 1 # m
        BY <2>4, <4>1
      <4>4. n # 0 => h[n - 1] = g[n - 1]
        BY <4>3
      <4> QED
        BY <4>1, <4>2, <4>4
    <3> QED
      BY <3>1, <3>2
  <2>7. h = [n \in 0..m |-> IF n = 0 THEN t ELSE MaterializeOne(h[n - 1], order[n])]
    BY <2>6
  <2>8. MaterializeRun(t, order, m, h)
    BY <2>7 DEF MaterializeRun
  <2> QED
    BY <2>2, <2>8
<1>2. Len(order) \in 0..Len(order)
  OBVIOUS
<1>3. \E g : MaterializeRun(t, order, Len(order), g)
  BY <1>1, <1>2
<1> DEFINE run == CHOOSE g : g = [n \in 0..Len(order) |-> IF n = 0 THEN t ELSE MaterializeOne(g[n - 1], order[n])]
<1>4. MaterializeRun(t, order, Len(order), run)
  BY <1>3 DEF MaterializeRun
<1>5. Materialize(t, order) = run[Len(order)]
  BY DEF Materialize
<1> QED
  BY <1>4, <1>5

LEMMA MaterializeAll ==
    ASSUME NEW t, Sound(t), t.ok, NEW order, Len(order) \in Nat,
           \A n \in 1..Len(order) : order[n] \in Live(t) \cup {Unset}, Materialize(t, order).ok
    PROVE  Advances(t, Materialize(t, order), {}) /\ Materialize(t, order).touched = t.touched
<1>1. PICK g : MaterializeRun(t, order, Len(order), g) /\ Materialize(t, order) = g[Len(order)]
  BY MaterializeRuns
<1> DEFINE N == Len(order)
           Good(n) == g[n].ok => Advances(t, g[n], {}) /\ g[n].touched = t.touched
           Bad == {n \in 0..N : ~Good(n)}
<1>2. \A n \in 0..N : g[n] = IF n = 0 THEN t ELSE MaterializeOne(g[n - 1], order[n])
  BY <1>1 DEF MaterializeRun
<1>3. Bad = {}
  <2> SUFFICES ASSUME Bad # {} PROVE FALSE
    OBVIOUS
  <2>1. PICK m \in Bad : \A k \in Bad : m <= k
    <3>1. Bad \subseteq Nat
      OBVIOUS
    <3> HIDE DEF Bad
    <3> QED
      BY <3>1, LeastOf
  <2>2. g[m].ok /\ ~(Advances(t, g[m], {}) /\ g[m].touched = t.touched) /\ m \in 0..N
    OBVIOUS
  <2>3. m # 0
    BY <1>2, <2>2, AdvanceNowhere
  <2>4. m \in 1..N /\ m - 1 \in 0..N /\ m - 1 \notin Bad /\ g[m] = MaterializeOne(g[m - 1], order[m])
    BY <1>2, <2>1, <2>2, <2>3
  <2>5. Good(m - 1)
    BY <2>4
  <2> HIDE DEF Bad
  <2> DEFINE u == g[m - 1]
             s == order[m]
  <2>6. u.ok => Advances(t, u, {}) /\ u.touched = t.touched
    BY <2>5
  <2>7. s \in Live(t) \cup {Unset} /\ Unset \notin Live(t)
    BY <2>4, LiveRows, CatalogConstants DEF Sound
  <2> HIDE DEF u, s
  <2>8. g[m] = IF u.ok /\ s # Unset THEN _materialize_session_presentation(u, s) ELSE u
    BY <2>4 DEF MaterializeOne, u, s
  <2>9. CASE u.ok /\ s # Unset
    <3>1. Sound(u) /\ s \in Live(u)
      BY <2>6, <2>7, <2>9 DEF Advances, Kept
    <3>2. Advances(u, g[m], {}) /\ g[m].touched = u.touched
      BY <2>2, <2>8, <2>9, <3>1, MaterializeSound
    <3> QED
      BY <2>2, <2>6, <2>9, <3>2, AdvanceTogether
  <2>10. CASE ~(u.ok /\ s # Unset)
    BY <2>2, <2>6, <2>8, <2>10
  <2> QED
    BY <2>9, <2>10
<1>4. N \in 0..N
  OBVIOUS
<1>5. Good(N)
  BY <1>3, <1>4
<1> QED
  BY <1>1, <1>5

-----------------------------------------------------------------------------
(* The catalog: the rows of an import.                                     *)

SheetRow == [kind: {"session", "presentation"}, code: Codes \cup {NoCode},
             session: Codes \cup {NoCode}, titled: BOOLEAN, presenter: Presenters \cup {Nobody}]

\* The sessions the rows have met are there.
TouchesLive(t) == \A i \in DOMAIN t.touched : t.touched[i] \in Live(t)

LEMMA TouchesKept ==
    ASSUME NEW t, NEW u, TouchesLive(t), Kept(t, u), u.touched = t.touched
    PROVE  TouchesLive(u)
BY DEF TouchesLive, Kept

LEMMA TouchAdvances ==
    ASSUME NEW t, Sound(t), t.ok, TouchesLive(t), NEW s \in Live(t), NEW R
    PROVE  LET u == [t EXCEPT !.touched = Append(@, s)] IN Advances(t, u, R) /\ TouchesLive(u)
<1> DEFINE u == [t EXCEPT !.touched = Append(@, s)]
<1>1. t \in Tables /\ s \in SessionIds /\ t.touched \in Seq(SessionIds)
  BY LiveRows, TableParts DEF Sound
<1>2. u \in Tables /\ SameRows(t, u) /\ u.touched = Append(t.touched, s) /\ u.ok = t.ok
  BY <1>1, TouchSame
<1> HIDE DEF u
<1>3. Advances(t, u, R) /\ Live(u) = Live(t)
  BY <1>2, SameAdvances, SameRowsSound
<1>4. TouchesLive(u)
  BY <1>1, <1>2, <1>3 DEF TouchesLive
<1> QED
  BY <1>3, <1>4 DEF u

LEMMA EnlistAdvances ==
    ASSUME NEW t, Sound(t), t.ok, NEW s \in Live(t), NEW x \in Presenters \cup {Nobody}, NEW R
    PROVE  LET u == Enlist(t, s, x) IN Advances(t, u, R) /\ u.touched = t.touched
<1>1. t \in Tables /\ s \in SessionIds
  BY LiveRows DEF Sound
<1> QED
  BY <1>1, EnlistSame, SameAdvances

LEMMA PresentAdvances ==
    ASSUME NEW t, Sound(t), t.ok, NEW p \in Shown(t), NEW S, S \subseteq Presenters, NEW R
    PROVE  LET u == Present(t, p, S) IN Advances(t, u, R) /\ u.touched = t.touched
<1>1. t \in Tables /\ p \in PresentationIds
  BY LiveRows DEF Sound
<1> QED
  BY <1>1, PresentSame, SameAdvances

LEMMA ImportSessionSound ==
    ASSUME NEW t, Sound(t), t.ok, TouchesLive(t), NEW r \in SheetRow, ImportSession(t, r).ok
    PROVE  LET v == ImportSession(t, r) IN Advances(t, v, {r}) /\ TouchesLive(v)
<1> DEFINE c == r.code
           s == IF Coded(t, c) # {} THEN Least(Coded(t, c)) ELSE NextSession(t)
           u == IF Coded(t, c) # {} THEN t ELSE AddSession(t, c, "import")
           y == Enlist(u, s, r.presenter)
           v == ImportSession(t, r)
<1>0. c \in Codes \cup {NoCode} /\ r.presenter \in Presenters \cup {Nobody}
  BY DEF SheetRow
<1>1. v = IF ~u.ok THEN u ELSE [y EXCEPT !.touched = Append(@, s)]
  BY DEF ImportSession
<1>2. u.ok /\ v = [y EXCEPT !.touched = Append(@, s)]
  BY <1>1
<1>3. Advances(t, u, {r}) /\ s \in Live(u) /\ TouchesLive(u)
  <2>1. CASE Coded(t, c) # {}
    <3>1. u = t /\ s \in Live(t)
      BY <2>1, OfAndNamed
    <3> QED
      BY <3>1, AdvanceNowhere
  <2>2. CASE Coded(t, c) = {}
    <3>1. u = AddSession(t, c, "import") /\ s = NextSession(t)
      BY <2>2
    <3> HIDE DEF u, s, c
    <3>2. Sound(u) /\ Kept(t, u) /\ Explained(t, u, {}) /\ u.touched = t.touched /\ s \in Live(u)
      BY <1>0, <1>2, <3>1, AddSessionSound
    <3>3. Advances(t, u, {})
      BY <1>2, <3>2 DEF Advances
    <3> QED
      BY <3>2, <3>3, ExplainedMore, TouchesKept
  <2> QED
    BY <2>1, <2>2
<1> HIDE DEF u, s, c, v
<1>4. Advances(u, y, {r}) /\ y.touched = u.touched
  BY <1>0, <1>3, EnlistAdvances DEF Advances
<1> HIDE DEF y
<1>5. s \in Live(y) /\ TouchesLive(y) /\ Sound(y) /\ y.ok
  BY <1>3, <1>4, TouchesKept DEF Advances, Kept
<1>6. Advances(y, v, {r}) /\ TouchesLive(v)
  BY <1>2, <1>5, TouchAdvances
<1> QED
  BY <1>3, <1>4, <1>6, AdvanceTogether DEF v

LEMMA ImportPresentationSound ==
    ASSUME NEW t, Sound(t), t.ok, TouchesLive(t), NEW r \in SheetRow, ImportPresentation(t, r).ok
    PROVE  LET z == ImportPresentation(t, r) IN Advances(t, z, {r}) /\ TouchesLive(z)
<1> DEFINE c == r.code
           d == r.session
           p == IF Named(t, c) # {} THEN Least(Named(t, c)) ELSE NextPresentation(t)
           u == IF Named(t, c) # {} THEN t ELSE AddPresentation(t, c, "import")
           v == IF d = NoCode \/ Coded(u, d) # {} THEN u
                ELSE IF r.titled THEN AddSession(u, d, "import") ELSE [u EXCEPT !.ok = FALSE]
           x == IF r.presenter = Nobody THEN {} ELSE {r.presenter}
           s == Least(Coded(v, d))
           z == ImportPresentation(t, r)
<1>0. /\ c \in Codes \cup {NoCode} /\ d \in Codes \cup {NoCode} /\ r.presenter \in Presenters \cup {Nobody}
      /\ x \subseteq Presenters
  BY DEF SheetRow
<1>1. z = IF ~v.ok THEN v
          ELSE IF d = NoCode THEN Present(v, p, x)
          ELSE [Present(Enlist(Place(v, p, s), s, r.presenter), p, x) EXCEPT !.touched = Append(@, s)]
  BY DEF ImportPresentation
<1>2. v.ok
  BY <1>1
<1>3. u.ok => /\ Advances(t, u, {r}) /\ TouchesLive(u) /\ p \in Shown(u)
              /\ u.presentations[p].code = c
  <2>1. CASE Named(t, c) # {}
    <3>1. u = t /\ p \in Named(t, c) /\ Named(t, c) \subseteq Shown(t)
      BY <2>1, OfAndNamed
    <3>2. p \in Shown(t) /\ t.presentations[p].code = c
      BY <3>1 DEF Named
    <3> HIDE DEF u, p
    <3> QED
      BY <3>1, <3>2, AdvanceNowhere
  <2>2. CASE Named(t, c) = {}
    <3>1. u = AddPresentation(t, c, "import") /\ p = NextPresentation(t)
      BY <2>2
    <3> HIDE DEF u, p, c
    <3>2. u.ok => /\ Sound(u) /\ Kept(t, u) /\ Explained(t, u, {}) /\ u.touched = t.touched
                  /\ p \in Shown(u) /\ u.presentations[p].code = c
      BY <1>0, <3>1, AddPresentationSound
    <3>3. u.ok => Advances(t, u, {})
      BY <3>2 DEF Advances
    <3> QED
      BY <3>2, <3>3, ExplainedMore, TouchesKept
  <2> QED
    BY <2>1, <2>2
<1>4. /\ u.ok /\ Advances(u, v, {r}) /\ v.touched = u.touched
      /\ d # NoCode => Coded(v, d) # {}
  <2> HIDE DEF u, p, c
  <2>1. CASE d = NoCode \/ Coded(u, d) # {}
    <3>1. v = u
      BY <2>1
    <3> QED
      BY <1>2, <1>3, <2>1, <3>1, AdvanceNowhere DEF Advances
  <2>2. CASE ~(d = NoCode \/ Coded(u, d) # {}) /\ r.titled
    <3>1. v = AddSession(u, d, "import")
      BY <2>2
    <3>2. CASE u.ok
      <4>1. Sound(u)
        BY <1>3, <3>2 DEF Advances
      <4> HIDE DEF v, d
      <4>2. /\ Sound(v) /\ Kept(u, v) /\ Explained(u, v, {}) /\ v.touched = u.touched
            /\ NextSession(u) \in Live(v) /\ v.sessions[NextSession(u)].code = d
        BY <1>0, <1>2, <3>1, <3>2, <4>1, AddSessionSound
      <4>3. Advances(u, v, {})
        BY <1>2, <4>2 DEF Advances
      <4>4. NextSession(u) \in Coded(v, d)
        BY <2>2, <4>2 DEF Coded
      <4> QED
        BY <3>2, <4>2, <4>3, <4>4, ExplainedMore
    <3>3. CASE ~u.ok
      <4>1. u = AddPresentation(t, c, "import") /\ Named(t, c) = {}
        BY <3>3 DEF u
      <4>2. u \in Tables
        BY <3>3, <4>1 DEF AddPresentation, InsertPresentation, Tables, Sound
      <4>3. ~v.ok
        BY <3>1, <3>3, <4>2 DEF AddSession, Tables
      <4> QED
        BY <1>2, <4>3
    <3> QED
      BY <3>2, <3>3
  <2>3. CASE ~(d = NoCode \/ Coded(u, d) # {}) /\ ~r.titled
    <3>1. v = [u EXCEPT !.ok = FALSE]
      BY <2>3
    <3>2. u \in Tables
      <4>1. CASE u.ok
        BY <1>3, <4>1 DEF Advances, Sound
      <4>2. CASE ~u.ok
        <5>1. u = AddPresentation(t, c, "import") /\ Named(t, c) = {}
          BY <4>2 DEF u
        <5> QED
          BY <4>2, <5>1 DEF AddPresentation, InsertPresentation, Tables, Sound
      <4> QED
        BY <4>1, <4>2
    <3>3. ~v.ok
      BY <3>1, <3>2 DEF Tables
    <3> QED
      BY <1>2, <3>3
  <2> QED
    BY <2>1, <2>2, <2>3
<1>5. Advances(t, u, {r}) /\ TouchesLive(u) /\ p \in Shown(u) /\ u.presentations[p].code = c
  BY <1>3, <1>4
<1> HIDE DEF u, p, x, v, z, c, d
<1>6. /\ Advances(t, v, {r}) /\ TouchesLive(v) /\ p \in Shown(v) /\ v.presentations[p].code = c
      /\ Sound(v) /\ v.ok
  BY <1>4, <1>5, AdvanceTogether, TouchesKept DEF Advances, Kept
<1>7. CASE d = NoCode
  <2>1. z = Present(v, p, x)
    BY <1>1, <1>2, <1>7
  <2>2. Advances(v, z, {r}) /\ z.touched = v.touched
    BY <1>0, <1>6, <2>1, PresentAdvances
  <2> QED
    BY <1>6, <2>2, AdvanceTogether, TouchesKept DEF Advances, z
<1>8. CASE d # NoCode
  <2>1. s \in Coded(v, d) /\ s \in Live(v)
    BY <1>4, <1>6, <1>8, OfAndNamed
  <2> HIDE DEF s
  <2> DEFINE a == Place(v, p, s)
             b == Enlist(a, s, r.presenter)
             e == Present(b, p, x)
  <2>2. Advances(v, a, {r}) /\ a.touched = v.touched /\ Live(a) = Live(v) /\ Shown(a) = Shown(v)
    <3>1. r.code = v.presentations[p].code /\ s \in Coded(v, r.session)
      BY <1>6, <2>1 DEF c, d
    <3>2. Advances(v, Place(v, p, s), {r})
      BY <1>6, <2>1, <3>1, PlaceAdvances
    <3> QED
      BY <1>6, <2>1, <3>2, PlaceSound
  <2> HIDE DEF a
  <2>3. Advances(a, b, {r}) /\ b.touched = a.touched
    BY <1>0, <2>1, <2>2, EnlistAdvances DEF Advances
  <2> HIDE DEF b
  <2>4. p \in Shown(b) /\ Sound(b) /\ b.ok /\ s \in Live(b)
    BY <1>6, <2>1, <2>2, <2>3 DEF Advances, Kept
  <2>5. Advances(b, e, {r}) /\ e.touched = b.touched
    BY <1>0, <2>4, PresentAdvances
  <2> HIDE DEF e
  <2>6. Advances(v, b, {r})
    BY <2>2, <2>3, AdvanceTogether
  <2>7. Advances(v, e, {r}) /\ e.touched = v.touched
    BY <2>2, <2>3, <2>5, <2>6, AdvanceTogether
  <2>8. Sound(e) /\ e.ok /\ TouchesLive(e) /\ s \in Live(e)
    BY <1>6, <2>1, <2>7, TouchesKept DEF Advances, Kept
  <2>9. z = [e EXCEPT !.touched = Append(@, s)]
    BY <1>1, <1>2, <1>8 DEF e, b, a
  <2>10. Advances(e, z, {r}) /\ TouchesLive(z)
    BY <2>8, <2>9, TouchAdvances
  <2> QED
    BY <1>6, <2>7, <2>10, AdvanceTogether DEF z
<1> QED
  BY <1>7, <1>8

ImportRun(f, m, g) ==
    g = [n \in 0..m |-> IF n = 0 THEN catalog ELSE ImportLine(g[n - 1], SheetRows[f][n])]

LEMMA ImportRuns ==
    ASSUME NEW f, Len(SheetRows[f]) \in Nat
    PROVE  \E g : ImportRun(f, Len(SheetRows[f]), g) /\ ImportRows(f) = g[Len(SheetRows[f])]
<1> DEFINE N == Len(SheetRows[f])
           Bad == {m \in 0..N : ~\E g : ImportRun(f, m, g)}
<1>1. Bad = {}
  <2> SUFFICES ASSUME Bad # {} PROVE FALSE
    OBVIOUS
  <2>1. Bad \subseteq Nat
    OBVIOUS
  <2>2. PICK m \in Bad : \A k \in Bad : m <= k
    BY <2>1, LeastOf
  <2>3. m # 0
    <3>1. ImportRun(f, 0, [n \in 0..0 |-> catalog])
      BY DEF ImportRun
    <3> QED
      BY <3>1
  <2>4. m \in Nat /\ m - 1 \in 0..N /\ m - 1 \notin Bad
    BY <2>2, <2>3
  <2>5. PICK g : ImportRun(f, m - 1, g)
    BY <2>4
  <2> DEFINE h == [n \in 0..m |-> IF n = m THEN ImportLine(g[m - 1], SheetRows[f][m]) ELSE g[n]]
  <2>6. \A n \in 0..m : h[n] = IF n = 0 THEN catalog ELSE ImportLine(h[n - 1], SheetRows[f][n])
    <3> TAKE n \in 0..m
    <3>1. CASE n = m
      <4>1. m - 1 \in 0..m /\ m - 1 # m
        BY <2>3, <2>4
      <4>2. h[m - 1] = g[m - 1] /\ h[m] = ImportLine(g[m - 1], SheetRows[f][m])
        BY <2>4, <4>1
      <4> QED
        BY <2>3, <3>1, <4>2
    <3>2. CASE n # m
      <4>1. n \in 0..(m - 1) /\ h[n] = g[n]
        BY <2>4, <3>2
      <4>2. g[n] = IF n = 0 THEN catalog ELSE ImportLine(g[n - 1], SheetRows[f][n])
        BY <2>5, <4>1 DEF ImportRun
      <4>3. n # 0 => n - 1 \in 0..m /\ n - 1 # m
        BY <2>4, <4>1
      <4>4. n # 0 => h[n - 1] = g[n - 1]
        BY <4>3
      <4> QED
        BY <4>1, <4>2, <4>4
    <3> QED
      BY <3>1, <3>2
  <2>7. h = [n \in 0..m |-> IF n = 0 THEN catalog ELSE ImportLine(h[n - 1], SheetRows[f][n])]
    BY <2>6
  <2>8. ImportRun(f, m, h)
    BY <2>7 DEF ImportRun
  <2> QED
    BY <2>2, <2>8
<1>2. N \in 0..N
  OBVIOUS
<1>3. \E g : ImportRun(f, N, g)
  BY <1>1, <1>2
<1> DEFINE run == CHOOSE g : g = [n \in 0..N |-> IF n = 0 THEN catalog ELSE ImportLine(g[n - 1], SheetRows[f][n])]
<1>4. ImportRun(f, N, run)
  BY <1>3 DEF ImportRun
<1>5. ImportRows(f) = run[N]
  BY DEF ImportRows
<1> QED
  BY <1>4, <1>5

RowsOf(f) == {SheetRows[f][i] : i \in DOMAIN SheetRows[f]}

LEMMA SheetFacts ==
    ASSUME NEW f \in Sheets
    PROVE  /\ SheetRows[f] \in Seq(SheetRow) /\ Len(SheetRows[f]) \in Nat
           /\ DOMAIN SheetRows[f] = 1..Len(SheetRows[f])
           /\ \A n \in 1..Len(SheetRows[f]) : SheetRows[f][n] \in SheetRow
<1>1. SheetRows[f] \in Seq(SheetRow)
  BY CatalogAssumption DEF SheetRow
<1> QED
  BY <1>1

LEMMA ImportRowsSound ==
    ASSUME Sound(catalog), catalog.ok, catalog.touched = <<>>, NEW f \in Sheets, ImportRows(f).ok
    PROVE  Advances(catalog, ImportRows(f), RowsOf(f)) /\ TouchesLive(ImportRows(f))
<1>0. /\ Len(SheetRows[f]) \in Nat /\ \A n \in 1..Len(SheetRows[f]) : SheetRows[f][n] \in SheetRow
      /\ \A n \in 1..Len(SheetRows[f]) : {SheetRows[f][n]} \subseteq RowsOf(f)
  BY SheetFacts DEF RowsOf
<1>1. PICK g : ImportRun(f, Len(SheetRows[f]), g) /\ ImportRows(f) = g[Len(SheetRows[f])]
  BY <1>0, ImportRuns
<1> DEFINE N == Len(SheetRows[f])
           Good(n) == g[n].ok => Advances(catalog, g[n], RowsOf(f)) /\ TouchesLive(g[n])
           Bad == {n \in 0..N : ~Good(n)}
<1>2. \A n \in 0..N : g[n] = IF n = 0 THEN catalog ELSE ImportLine(g[n - 1], SheetRows[f][n])
  BY <1>1 DEF ImportRun
<1>3. Bad = {}
  <2> SUFFICES ASSUME Bad # {} PROVE FALSE
    OBVIOUS
  <2>1. PICK m \in Bad : \A k \in Bad : m <= k
    <3>1. Bad \subseteq Nat
      BY <1>0
    <3> HIDE DEF Bad
    <3> QED
      BY <3>1, LeastOf
  <2>2. g[m].ok /\ ~(Advances(catalog, g[m], RowsOf(f)) /\ TouchesLive(g[m])) /\ m \in 0..N
    OBVIOUS
  <2>3. m # 0
    <3>1. TouchesLive(catalog)
      BY DEF TouchesLive
    <3> QED
      BY <1>0, <1>2, <2>2, <3>1, AdvanceNowhere
  <2>4. m \in 1..N /\ m - 1 \in 0..N /\ m - 1 \notin Bad /\ g[m] = ImportLine(g[m - 1], SheetRows[f][m])
    BY <1>0, <1>2, <2>1, <2>2, <2>3
  <2>5. Good(m - 1)
    BY <2>4
  <2> HIDE DEF Bad
  <2> DEFINE u == g[m - 1]
             r == SheetRows[f][m]
  <2>6. u.ok => Advances(catalog, u, RowsOf(f)) /\ TouchesLive(u)
    BY <2>5
  <2>7. r \in SheetRow /\ {r} \subseteq RowsOf(f)
    BY <1>0, <2>4
  <2> HIDE DEF u, r
  <2>8. g[m] = IF ~u.ok THEN u ELSE IF r.kind = "session" THEN ImportSession(u, r) ELSE ImportPresentation(u, r)
    BY <2>4 DEF ImportLine, u, r
  <2>9. CASE u.ok
    <3>1. Sound(u)
      BY <2>6, <2>9 DEF Advances
    <3>2. Advances(u, g[m], {r}) /\ TouchesLive(g[m])
      BY <2>2, <2>6, <2>7, <2>8, <2>9, <3>1, ImportSessionSound, ImportPresentationSound
    <3>3. Advances(u, g[m], RowsOf(f))
      BY <2>7, <3>2, ExplainedMore
    <3> QED
      BY <2>2, <2>6, <2>9, <3>2, <3>3, AdvanceTogether
  <2>10. CASE ~u.ok
    BY <2>2, <2>8, <2>10
  <2> QED
    BY <2>9, <2>10
<1>4. N \in 0..N
  BY <1>0
<1>5. Good(N)
  BY <1>3, <1>4
<1> QED
  BY <1>1, <1>5

LEMMA ImportSheetSound ==
    ASSUME CatalogSafe, NEW f \in Sheets, ImportSheet(f)
    PROVE  Advances(catalog, catalog', RowsOf(f)) /\ catalog'.touched = <<>>
<1>0. Sound(catalog) /\ catalog.ok /\ catalog.touched = <<>>
  BY DEF CatalogSafe, CatalogTypeOK, PrimaryIsLinked, Sound, Linked
<1> DEFINE rows == ImportRows(f)
           q == FirstTouches(rows.touched)
           t == Materialize(rows, q)
<1>1. rows.ok /\ t.ok /\ catalog' = [t EXCEPT !.touched = <<>>]
  BY DEF ImportSheet
<1>2. Advances(catalog, rows, RowsOf(f)) /\ TouchesLive(rows)
  BY <1>0, <1>1, ImportRowsSound
<1> HIDE DEF rows
<1>3. Sound(rows) /\ rows.touched \in Seq(SessionIds)
  BY <1>2, TableParts DEF Advances, Sound
<1>4. Len(q) \in Nat /\ \A n \in 1..Len(q) : q[n] \in Live(rows) \cup {Unset}
  <2>1. DOMAIN rows.touched = 1..Len(rows.touched) /\ Len(rows.touched) \in Nat
    BY <1>3
  <2>2. q \in [1..Len(rows.touched) -> Live(rows) \cup {Unset}]
    BY <1>2, <2>1 DEF FirstTouches, TouchesLive
  <2>3. q \in Seq(Live(rows) \cup {Unset}) /\ Len(q) = Len(rows.touched)
    BY <2>1, <2>2
  <2> HIDE DEF q
  <2> QED
    BY <2>1, <2>2, <2>3
<1> HIDE DEF q
<1>5. Advances(rows, t, {})
  BY <1>1, <1>3, <1>4, MaterializeAll
<1>6. Advances(catalog, t, RowsOf(f))
  <2>1. Advances(rows, t, RowsOf(f))
    BY <1>5, ExplainedMore
  <2> QED
    BY <1>2, <2>1, AdvanceTogether
<1> HIDE DEF t
<1>7. t \in Tables /\ Sound(t)
  BY <1>6 DEF Advances, Sound
<1>8. catalog' \in Tables /\ SameRows(t, catalog') /\ catalog'.touched = <<>> /\ catalog'.ok = t.ok
  <2> DEFINE e == <<>>
  <2>1. e \in Seq(SessionIds)
    OBVIOUS
  <2>2. catalog' = [t EXCEPT !.touched = e]
    BY <1>1
  <2> HIDE DEF e
  <2>3. catalog' \in Tables /\ SameRows(t, catalog') /\ catalog'.touched = e /\ catalog'.ok = t.ok
    BY <1>7, <2>1, <2>2 DEF Tables, SameRows
  <2> QED
    BY <2>3 DEF e
<1>9. Advances(t, catalog', RowsOf(f))
  BY <1>1, <1>7, <1>8, SameAdvances
<1> QED
  BY <1>6, <1>8, <1>9, AdvanceTogether

LEMMA RepairSound ==
    ASSUME CatalogSafe, NEW order \in Orders(Imported(catalog)), repair(order)
    PROVE  Advances(catalog, catalog', {}) /\ catalog'.touched = <<>>
<1>0. Sound(catalog) /\ catalog.ok /\ catalog.touched = <<>>
  BY DEF CatalogSafe, CatalogTypeOK, PrimaryIsLinked, Sound, Linked
<1> DEFINE S == Imported(catalog)
           N == Cardinality(S)
<1>1. S \subseteq Live(catalog)
  BY DEF Imported
<1>2. N \in Nat
  <2>1. Live(catalog) \subseteq 1..MaxSessions /\ IsFiniteSet(1..MaxSessions)
    BY <1>0, LiveRows, CatalogConstants, FS_Interval DEF Sound
  <2> QED
    BY <1>1, <2>1, FS_Subset, FS_CardinalityType
<1>3. order \in [1..N -> S]
  BY DEF Orders
<1> HIDE DEF N, S
<1>4. Len(order) = N /\ \A n \in 1..N : order[n] \in Live(catalog)
  BY <1>1, <1>2, <1>3
<1> DEFINE t == Materialize(catalog, order)
<1>5. catalog' = IF t.ok THEN t ELSE catalog
  BY DEF repair
<1>6. Advances(catalog, catalog', {}) /\ catalog'.touched = catalog.touched
  <2>1. CASE t.ok
    BY <1>0, <1>2, <1>4, <1>5, <2>1, MaterializeAll
  <2>2. CASE ~t.ok
    BY <1>0, <1>5, <2>2, AdvanceNowhere
  <2> QED
    BY <2>1, <2>2
<1> QED
  BY <1>0, <1>6

-----------------------------------------------------------------------------
(* The catalog: edits by hand.                                             *)

\* What an edit leaves: sound tables, and no list of touched sessions.
Edited(t, u) == Sound(u) /\ u.touched = t.touched

LEMMA SessionRecoded ==
    ASSUME NEW t, Sound(t), NEW s \in Live(t), NEW c \in Codes \cup {NoCode}, Coded(t, c) \subseteq {s}
    PROVE  Edited(t, [t EXCEPT !.sessions[s].code = c])
<1> DEFINE row == [t.sessions[s] EXCEPT !.code = c]
           u == [t EXCEPT !.sessions[s] = row]
<1>1. t \in Tables /\ Consistent(t) /\ Linked(t)
  BY DEF Sound
<1>2. t.sessions[s] \in SessionRowType /\ s \in SessionIds
  BY <1>1, LiveRows
<1>3. row \in SessionRowType /\ row.code = c
  BY <1>2 DEF SessionRowType
<1>4. u = [t EXCEPT !.sessions[s].code = c]
  OBVIOUS
<1> HIDE DEF row
<1>5. row # NoSession
  BY <1>3, RowNames
<1>6. /\ u \in Tables /\ u.sessions = [t.sessions EXCEPT ![s] = row] /\ u.presentations = t.presentations
      /\ u.links = t.links /\ u.touched = t.touched
  BY <1>1, <1>2, <1>3 DEF Tables, SessionRowType
<1> HIDE DEF u
<1>7. t.sessions \in [SessionIds -> SessionRowType \cup {NoSession}]
  BY <1>1, TableParts
<1>8. u.sessions[s] = row /\ \A r \in SessionIds \ {s} : u.sessions[r] = t.sessions[r]
  BY <1>2, <1>6, <1>7
<1>9. Live(u) = Live(t) /\ Shown(u) = Shown(t)
  BY <1>2, <1>5, <1>6, <1>8 DEF Live, Shown
<1>10. \A r \in Live(t) \ {s} : u.sessions[r] = t.sessions[r] /\ (t.sessions[r].code = c => c = NoCode)
  <2> TAKE r \in Live(t) \ {s}
  <2>1. r \in SessionIds \ {s} /\ r \notin Coded(t, c)
    BY <1>1, LiveRows
  <2> QED
    BY <1>8, <2>1 DEF Coded
<1>11. \A r, v \in Live(u) : u.sessions[r].code = u.sessions[v].code /\ r # v => u.sessions[r].code = NoCode
  <2> SUFFICES ASSUME NEW r \in Live(t), NEW v \in Live(t), u.sessions[r].code = u.sessions[v].code, r # v
               PROVE  u.sessions[r].code = NoCode
    BY <1>9
  <2>1. CASE r = s \/ v = s
    BY <1>3, <1>8, <1>10, <2>1
  <2>2. CASE r # s /\ v # s
    BY <1>1, <1>10, <2>2 DEF Consistent
  <2> QED
    BY <2>1, <2>2
<1>12. Consistent(u)
  BY <1>1, <1>6, <1>9, <1>11 DEF Consistent
<1>13. Linked(u)
  BY <1>1, <1>6, <1>9 DEF Linked
<1> QED
  BY <1>4, <1>6, <1>12, <1>13 DEF Sound, Edited

\* A presentation is written again: its code is still its own, its session is there, and
\* it has its link unless the row is marked.
LEMMA PresentationRewritten ==
    ASSUME NEW t, Sound(t), NEW u, NEW p \in Shown(t), NEW row \in PresentationRowType, NEW links,
           u = PresentationPut(t, p, row, links), links \subseteq Shown(t) \X Live(t),
           Named(t, row.code) \subseteq {p}, Identified(t, row.ident) \subseteq {p},
           row.session \in Live(t) \cup {Unset},
           row.session # Unset /\ ~row.unlinked => <<p, row.session>> \in links,
           \A q \in Shown(t) \ {p} : \A s : <<q, s>> \in t.links => <<q, s>> \in links
    PROVE  Edited(t, u)
<1>1. t \in Tables /\ Consistent(t) /\ Linked(t)
  BY DEF Sound
<1>2. links \subseteq PresentationIds \X SessionIds
  BY <1>1, LiveRows
<1>3. /\ u \in Tables /\ u.presentations[p] = row /\ u.links = links /\ u.sessions = t.sessions
      /\ u.touched = t.touched
      /\ \A q \in PresentationIds \ {p} : u.presentations[q] = t.presentations[q]
      /\ Live(u) = Live(t) /\ Shown(u) = Shown(t)
  BY <1>1, <1>2, PresentationWritten
<1>4. \A q \in Shown(t) \ {p} :
          /\ u.presentations[q] = t.presentations[q]
          /\ t.presentations[q].code = row.code => row.code = NoCode
          /\ t.presentations[q].ident = row.ident => row.ident = NoCode
  <2> TAKE q \in Shown(t) \ {p}
  <2>1. q \in PresentationIds \ {p} /\ q \notin Named(t, row.code) /\ q \notin Identified(t, row.ident)
    BY <1>1, LiveRows
  <2> QED
    BY <1>3, <2>1 DEF Named, Identified
<1>5. \A q, r \in Shown(u) :
          /\ u.presentations[q].code = u.presentations[r].code /\ q # r => u.presentations[q].code = NoCode
          /\ u.presentations[q].ident = u.presentations[r].ident /\ q # r => u.presentations[q].ident = NoCode
  <2> SUFFICES ASSUME NEW q \in Shown(t), NEW r \in Shown(t), q # r
               PROVE  /\ u.presentations[q].code = u.presentations[r].code => u.presentations[q].code = NoCode
                      /\ u.presentations[q].ident = u.presentations[r].ident => u.presentations[q].ident = NoCode
    BY <1>3
  <2>1. CASE q = p \/ r = p
    BY <1>3, <1>4, <2>1
  <2>2. CASE q # p /\ r # p
    BY <1>1, <1>4, <2>2 DEF Consistent
  <2> QED
    BY <2>1, <2>2
<1>6. \A q \in Shown(u) : u.presentations[q].session \in Live(u) \cup {Unset}
  BY <1>1, <1>3, <1>4 DEF Consistent
<1>7. Consistent(u)
  BY <1>1, <1>3, <1>5, <1>6 DEF Consistent
<1>8. Linked(u)
  <2> SUFFICES ASSUME NEW q \in Shown(t), u.presentations[q].session # Unset, ~u.presentations[q].unlinked
               PROVE  <<q, u.presentations[q].session>> \in links
    BY <1>3 DEF Linked
  <2>1. CASE q = p
    BY <1>3, <2>1
  <2>2. CASE q # p
    BY <1>1, <1>4, <2>2 DEF Linked
  <2> QED
    BY <2>1, <2>2
<1> QED
  BY <1>3, <1>7, <1>8 DEF Sound, Edited

LEMMA NamesItself ==
    ASSUME NEW t, Sound(t), NEW p \in Shown(t)
    PROVE  Named(t, t.presentations[p].code) \subseteq {p} /\ Identified(t, t.presentations[p].ident) \subseteq {p}
BY DEF Sound, Consistent, Named, Identified

LEMMA SafeIsSound ==
    CatalogSafe <=> /\ Sound(catalog) /\ catalog.ok /\ catalog.touched = <<>> /\ imported \subseteq Sheets
                    /\ repairs \in 0..(MaxSessions + 1) /\ handEdits \in 0..MaxHandEdits
BY DEF CatalogSafe, CatalogTypeOK, PrimaryIsLinked, Sound, Linked

LEMMA SafeIsSoundNext ==
    CatalogSafe' <=> /\ Sound(catalog') /\ catalog'.ok /\ catalog'.touched = <<>> /\ imported' \subseteq Sheets
                     /\ repairs' \in 0..(MaxSessions + 1) /\ handEdits' \in 0..MaxHandEdits
BY DEF CatalogSafe, CatalogTypeOK, PrimaryIsLinked, Sound, Linked

LEMMA ApplySafe ==
    ASSUME CatalogSafe, NEW u, Apply(u), u.ok => Edited(catalog, u)
    PROVE  CatalogSafe' /\ handEdits' # handEdits
<1>1. /\ catalog.touched = <<>> /\ imported \subseteq Sheets /\ handEdits \in 0..MaxHandEdits
  BY SafeIsSound
<1>2. /\ u.ok /\ catalog' = u /\ repairs' = 0 /\ imported' = imported
      /\ handEdits < MaxHandEdits /\ handEdits' = handEdits + 1
  BY DEF Apply
<1>3. handEdits' \in 0..MaxHandEdits /\ repairs' \in 0..(MaxSessions + 1) /\ handEdits' # handEdits
  BY <1>1, <1>2, CatalogAssumption
<1>4. Sound(catalog') /\ catalog'.touched = <<>>
  BY <1>1, <1>2 DEF Edited
<1> QED
  BY <1>1, <1>2, <1>3, <1>4, SafeIsSoundNext

LEMMA SessionEdits ==
    ASSUME CatalogSafe, NEW c \in Codes \cup {NoCode}, NEW s,
           create_session(c) \/ update_session(s, c)
    PROVE  CatalogSafe' /\ handEdits' # handEdits
<1>0. Sound(catalog) /\ catalog.ok
  BY SafeIsSound
<1>1. CASE create_session(c)
  <2> DEFINE u == AddSession(catalog, c, "hand")
  <2>1. Apply(u)
    BY <1>1 DEF create_session
  <2>2. u.ok => Edited(catalog, u)
    BY <1>0, AddSessionSound DEF Edited
  <2> HIDE DEF u
  <2> QED
    BY <2>1, <2>2, ApplySafe
<1>2. CASE update_session(s, c)
  <2> DEFINE u == [catalog EXCEPT !.sessions[s].code = c]
  <2>1. Apply(u) /\ s \in Live(catalog) /\ Coded(catalog, c) \subseteq {s}
    BY <1>2 DEF update_session
  <2>2. Edited(catalog, u)
    BY <1>0, <2>1, SessionRecoded
  <2> HIDE DEF u
  <2> QED
    BY <2>1, <2>2, ApplySafe
<1> QED
  BY <1>1, <1>2

LEMMA PresentationEdits ==
    ASSUME CatalogSafe, NEW c \in Codes \cup {NoCode}, NEW s \in SessionIds \cup {Unset}, NEW p,
           create_presentation(c, s) \/ update_presentation(p, c, s) \/ site_presentation_upserted(c, s)
    PROVE  CatalogSafe' /\ handEdits' # handEdits
<1>0. Sound(catalog) /\ catalog.ok
  BY SafeIsSound
<1>1. CASE create_presentation(c, s)
  <2> DEFINE t == AddPresentation(catalog, c, "hand")
             k == NextPresentation(catalog)
             u == IF t.ok /\ s # Unset THEN Place(t, k, s) ELSE t
  <2>1. Apply(u) /\ s \in Live(catalog) \cup {Unset}
    BY <1>1 DEF create_presentation
  <2>2. t.ok => Sound(t) /\ t.touched = catalog.touched /\ k \in Shown(t) /\ Live(t) = Live(catalog)
    BY <1>0, AddPresentationSound
  <2> HIDE DEF t, k
  <2>3. CASE t.ok /\ s # Unset
    <3>1. u = Place(t, k, s) /\ s \in Live(t)
      BY <2>1, <2>2, <2>3
    <3>2. Edited(catalog, Place(t, k, s))
      BY <2>2, <2>3, <3>1, PlaceSound DEF Edited
    <3> HIDE DEF u
    <3> QED
      BY <2>1, <3>1, <3>2, ApplySafe
  <2>4. CASE ~(t.ok /\ s # Unset)
    <3>1. u = t
      BY <2>4
    <3> HIDE DEF u
    <3>2. u.ok => Edited(catalog, u)
      BY <2>2, <3>1 DEF Edited
    <3> QED
      BY <2>1, <3>2, ApplySafe
  <2> QED
    BY <2>3, <2>4
<1>2. CASE update_presentation(p, c, s)
  <2> DEFINE row == [catalog.presentations[p] EXCEPT !.code = c, !.session = s,
                                                     !.unlinked = <<p, s>> \notin catalog.links]
             links == catalog.links
             u == [catalog EXCEPT !.presentations[p] =
                      [@ EXCEPT !.code = c, !.session = s, !.unlinked = <<p, s>> \notin catalog.links]]
  <2>1. /\ Apply(u) /\ p \in Shown(catalog) /\ s \in Live(catalog) \cup {Unset}
        /\ Named(catalog, c) \subseteq {p}
    BY <1>2 DEF update_presentation
  <2>2. catalog \in Tables /\ links \subseteq Shown(catalog) \X Live(catalog)
    BY <1>0 DEF Sound, Consistent
  <2>3. catalog.presentations[p] \in PresentationRowType
    BY <2>1, <2>2, LiveRows
  <2>4. /\ row \in PresentationRowType /\ row.code = c /\ row.session = s
        /\ row.ident = catalog.presentations[p].ident /\ row.unlinked = (<<p, s>> \notin links)
    BY <2>3 DEF PresentationRowType
  <2>5. u = PresentationPut(catalog, p, row, links)
    BY <2>2 DEF PresentationPut, Tables
  <2> HIDE DEF u, row, links
  <2>6. row.session # Unset /\ ~row.unlinked => <<p, row.session>> \in links
    BY <2>4
  <2>7. /\ Named(catalog, row.code) \subseteq {p} /\ row.session \in Live(catalog) \cup {Unset}
        /\ Identified(catalog, row.ident) \subseteq {p}
    BY <1>0, <2>1, <2>4, NamesItself
  <2>8. \A q \in Shown(catalog) \ {p} : \A r : <<q, r>> \in catalog.links => <<q, r>> \in links
    BY DEF links
  <2>9. Edited(catalog, u)
    BY <1>0, <2>1, <2>2, <2>4, <2>5, <2>6, <2>7, <2>8, PresentationRewritten
  <2> QED
    BY <2>1, <2>9, ApplySafe
<1>3. CASE site_presentation_upserted(c, s)
  <2> DEFINE t == InsertPresentation(catalog, NoCode, c, "site")
             k == NextPresentation(catalog)
             row == [t.presentations[k] EXCEPT !.session = s, !.unlinked = (s # Unset)]
             links == t.links
             w == [t EXCEPT !.presentations[k] = [@ EXCEPT !.session = s, !.unlinked = (s # Unset)]]
             u == IF ~t.ok THEN t ELSE w
  <2>1. Apply(u) /\ s \in Live(catalog) \cup {Unset}
    BY <1>3 DEF site_presentation_upserted
  <2>2. CASE t.ok
    <3>1. Sound(t) /\ t.touched = catalog.touched /\ k \in Shown(t) /\ Live(t) = Live(catalog)
      BY <1>0, <2>2, InsertPresentationSound
    <3>2. t \in Tables /\ links \subseteq Shown(t) \X Live(t)
      BY <3>1 DEF Sound, Consistent
    <3>3. u = w
      BY <2>2
    <3> HIDE DEF t, k, u
    <3>4. t.presentations[k] \in PresentationRowType
      BY <3>1, <3>2, LiveRows
    <3>5. /\ row \in PresentationRowType /\ row.code = t.presentations[k].code /\ row.session = s
          /\ row.ident = t.presentations[k].ident /\ row.unlinked = (s # Unset)
      BY <3>4 DEF PresentationRowType
    <3>6. w = PresentationPut(t, k, row, links)
      BY <3>2 DEF PresentationPut, Tables
    <3> HIDE DEF row, links, w
    <3>7. row.session # Unset /\ ~row.unlinked => <<k, row.session>> \in links
      BY <3>5
    <3>8. /\ Named(t, row.code) \subseteq {k} /\ row.session \in Live(t) \cup {Unset}
          /\ Identified(t, row.ident) \subseteq {k}
      BY <2>1, <3>1, <3>5, NamesItself
    <3>9. \A q \in Shown(t) \ {k} : \A r : <<q, r>> \in t.links => <<q, r>> \in links
      BY DEF links
    <3>10. Edited(t, w)
      BY <3>1, <3>2, <3>5, <3>6, <3>7, <3>8, <3>9, PresentationRewritten
    <3> QED
      BY <2>1, <3>1, <3>3, <3>10, ApplySafe DEF Edited
  <2>3. CASE ~t.ok
    BY <2>1, <2>3 DEF Apply
  <2> QED
    BY <2>2, <2>3
<1> QED
  BY <1>1, <1>2, <1>3

LEMMA LinkEdits ==
    ASSUME CatalogSafe, NEW p \in PresentationIds, NEW s \in SessionIds, NEW primary \in BOOLEAN,
           link_presentation_session(p, s, primary) \/ remove_presentation_session(p, s)
    PROVE  CatalogSafe' /\ handEdits' # handEdits
<1>0. Sound(catalog) /\ catalog.ok /\ catalog \in Tables /\ catalog.links \subseteq Shown(catalog) \X Live(catalog)
  BY SafeIsSound DEF Sound, Consistent
<1>1. CASE link_presentation_session(p, s, primary)
  <2> DEFINE links == catalog.links \cup {<<p, s>>}
             row == catalog.presentations[p]
             w == [catalog EXCEPT !.links = @ \cup {<<p, s>>}]
             u == IF primary THEN Place(catalog, p, s) ELSE w
  <2>1. Apply(u) /\ p \in Shown(catalog) /\ s \in Live(catalog)
    BY <1>1 DEF link_presentation_session
  <2>2. CASE primary
    <3>1. u = Place(catalog, p, s)
      BY <2>2
    <3>2. Edited(catalog, Place(catalog, p, s))
      BY <1>0, <2>1, PlaceSound DEF Edited
    <3> HIDE DEF u
    <3> QED
      BY <2>1, <3>1, <3>2, ApplySafe
  <2>3. CASE ~primary
    <3>1. u = w
      BY <2>3
    <3>2. row \in PresentationRowType /\ links \subseteq Shown(catalog) \X Live(catalog)
      BY <1>0, <2>1, LiveRows
    <3>3. w = PresentationPut(catalog, p, row, links)
      BY <1>0, <2>1 DEF PresentationPut, Tables
    <3>4. /\ row.session \in Live(catalog) \cup {Unset} /\ Named(catalog, row.code) \subseteq {p}
          /\ Identified(catalog, row.ident) \subseteq {p}
      BY <1>0, <2>1, NamesItself DEF Sound, Consistent
    <3>5. row.session # Unset /\ ~row.unlinked => <<p, row.session>> \in links
      BY <1>0, <2>1 DEF Sound, Linked
    <3>6. \A q \in Shown(catalog) \ {p} : \A r : <<q, r>> \in catalog.links => <<q, r>> \in links
      OBVIOUS
    <3> HIDE DEF w, u, row, links
    <3>7. Edited(catalog, w)
      BY <1>0, <2>1, <3>2, <3>3, <3>4, <3>5, <3>6, PresentationRewritten
    <3> QED
      BY <2>1, <3>1, <3>7, ApplySafe
  <2> QED
    BY <2>2, <2>3
<1>2. CASE remove_presentation_session(p, s)
  <2> DEFINE links == catalog.links \ {<<p, s>>}
             old == catalog.presentations[p]
             row == [old EXCEPT !.session = IF @ = s THEN Unset ELSE @]
             u == [catalog EXCEPT !.links = @ \ {<<p, s>>},
                                  !.presentations[p].session = IF @ = s THEN Unset ELSE @]
  <2>1. Apply(u) /\ p \in Shown(catalog) /\ s \in Live(catalog)
    BY <1>0, <1>2 DEF remove_presentation_session
  <2>2. old \in PresentationRowType /\ links \subseteq Shown(catalog) \X Live(catalog)
    BY <1>0, <2>1, LiveRows
  <2>3. /\ row \in PresentationRowType /\ row.code = old.code /\ row.ident = old.ident /\ row.unlinked = old.unlinked
        /\ row.session = IF old.session = s THEN Unset ELSE old.session
    BY <2>2 DEF PresentationRowType
  <2>4. u = PresentationPut(catalog, p, row, links)
    BY <1>0, <2>1 DEF PresentationPut, Tables
  <2>5. /\ old.session \in Live(catalog) \cup {Unset} /\ Named(catalog, old.code) \subseteq {p}
        /\ Identified(catalog, old.ident) \subseteq {p}
    BY <1>0, <2>1, NamesItself DEF Sound, Consistent
  <2>6. old.session # Unset /\ ~old.unlinked => <<p, old.session>> \in catalog.links
    BY <1>0, <2>1 DEF Sound, Linked
  <2>7. \A q \in Shown(catalog) \ {p} : \A r : <<q, r>> \in catalog.links => <<q, r>> \in links
    OBVIOUS
  <2>8. <<p, old.session>> \in catalog.links /\ old.session # s => <<p, old.session>> \in links
    OBVIOUS
  <2> HIDE DEF u, row, links, old
  <2>9. row.session # Unset /\ ~row.unlinked => <<p, row.session>> \in links
    BY <2>3, <2>6, <2>8
  <2>10. /\ Named(catalog, row.code) \subseteq {p} /\ row.session \in Live(catalog) \cup {Unset}
         /\ Identified(catalog, row.ident) \subseteq {p}
    BY <2>3, <2>5
  <2>11. Edited(catalog, u)
    BY <1>0, <2>1, <2>2, <2>3, <2>4, <2>7, <2>9, <2>10, PresentationRewritten
  <2> QED
    BY <2>1, <2>11, ApplySafe
<1> QED
  BY <1>1, <1>2

LEMMA PresenterEdits ==
    ASSUME CatalogSafe, NEW p, NEW s, NEW x \in Presenters,
           \/ s \in SessionIds /\ (assign_session_presenter(s, x) \/ remove_session_presenter(s, x))
           \/ p \in PresentationIds /\ (link_presentation_presenter(p, x) \/ remove_presentation_presenter(p, x))
    PROVE  CatalogSafe' /\ handEdits' # handEdits
<1>0. Sound(catalog) /\ catalog \in Tables
  BY SafeIsSound DEF Sound
<1>1. \A u \in Tables : SameRows(catalog, u) /\ u.touched = catalog.touched => Edited(catalog, u)
  BY <1>0, SameRowsSound DEF Edited
<1>2. CASE s \in SessionIds /\ assign_session_presenter(s, x)
  <2> DEFINE u == Enlist(catalog, s, x)
  <2>1. Apply(u)
    BY <1>2 DEF assign_session_presenter
  <2>2. u \in Tables /\ SameRows(catalog, u) /\ u.touched = catalog.touched
    BY <1>0, <1>2, EnlistSame
  <2> HIDE DEF u
  <2> QED
    BY <1>1, <2>1, <2>2, ApplySafe
<1>3. CASE s \in SessionIds /\ remove_session_presenter(s, x)
  <2> DEFINE u == [catalog EXCEPT !.roster[s] = @ \ {x}]
  <2>1. Apply(u)
    BY <1>3 DEF remove_session_presenter
  <2>2. u \in Tables /\ SameRows(catalog, u) /\ u.touched = catalog.touched
    BY <1>0, <1>3 DEF Tables, SameRows
  <2> HIDE DEF u
  <2> QED
    BY <1>1, <2>1, <2>2, ApplySafe
<1>4. CASE p \in PresentationIds /\ link_presentation_presenter(p, x)
  <2> DEFINE u == Present(catalog, p, {x})
  <2>1. Apply(u)
    BY <1>4 DEF link_presentation_presenter
  <2>2. u \in Tables /\ SameRows(catalog, u) /\ u.touched = catalog.touched
    BY <1>0, <1>4, PresentSame
  <2> HIDE DEF u
  <2> QED
    BY <1>1, <2>1, <2>2, ApplySafe
<1>5. CASE p \in PresentationIds /\ remove_presentation_presenter(p, x)
  <2> DEFINE u == [catalog EXCEPT !.presenters[p] = @ \ {x}]
  <2>1. Apply(u)
    BY <1>5 DEF remove_presentation_presenter
  <2>2. u \in Tables /\ SameRows(catalog, u) /\ u.touched = catalog.touched
    BY <1>0, <1>5 DEF Tables, SameRows
  <2> HIDE DEF u
  <2> QED
    BY <1>1, <2>1, <2>2, ApplySafe
<1> QED
  BY <1>2, <1>3, <1>4, <1>5

LEMMA EditSteps ==
    ASSUME CatalogSafe, EditSessions \/ EditLinks
    PROVE  CatalogSafe' /\ handEdits' # handEdits
<1>1. CASE EditSessions
  BY <1>1, SessionEdits, PresentationEdits DEF EditSessions
<1>2. CASE EditLinks
  <2>1. CASE \E p \in PresentationIds, s \in SessionIds :
                \/ \E primary \in BOOLEAN : link_presentation_session(p, s, primary)
                \/ remove_presentation_session(p, s)
    BY <2>1, LinkEdits
  <2>2. CASE \E x \in Presenters :
                \/ \E s \in SessionIds : assign_session_presenter(s, x) \/ remove_session_presenter(s, x)
                \/ \E p \in PresentationIds :
                      link_presentation_presenter(p, x) \/ remove_presentation_presenter(p, x)
    BY <2>2, PresenterEdits
  <2> QED
    BY <1>2, <2>1, <2>2 DEF EditLinks
<1> QED
  BY <1>1, <1>2

LEMMA CatalogInitSafe == CatalogInit => CatalogSafe
<1> SUFFICES ASSUME CatalogInit PROVE CatalogSafe
  OBVIOUS
<1> DEFINE sessions == [s \in SessionIds |-> NoSession]
           presentations == [p \in PresentationIds |-> NoPresentation]
           roster == [s \in SessionIds |-> {}]
           presenters == [p \in PresentationIds |-> {}]
           none == <<>>
<1>1. catalog = [sessions |-> sessions, presentations |-> presentations, links |-> {}, roster |-> roster,
                 presenters |-> presenters, ok |-> TRUE, touched |-> none]
  BY DEF CatalogInit
<1>2. none \in Seq(SessionIds)
  OBVIOUS
<1>3. /\ sessions \in [SessionIds -> SessionRowType \cup {NoSession}]
      /\ presentations \in [PresentationIds -> PresentationRowType \cup {NoPresentation}]
      /\ roster \in [SessionIds -> SUBSET Presenters]
      /\ presenters \in [PresentationIds -> SUBSET Presenters]
  OBVIOUS
<1>4. (\A s \in SessionIds : sessions[s] = NoSession) /\ \A p \in PresentationIds : presentations[p] = NoPresentation
  OBVIOUS
<1> HIDE DEF sessions, presentations, roster, presenters, none
<1>5. catalog \in Tables
  BY <1>1, <1>2, <1>3, TableParts
<1>6. Live(catalog) = {} /\ Shown(catalog) = {}
  BY <1>1, <1>4 DEF Live, Shown
<1>7. Consistent(catalog)
  <2>1. 0 \in 0..MaxSessions /\ 0 \in 0..MaxPresentations /\ 1..0 = {}
    BY CatalogConstants
  <2> QED
    BY <1>1, <1>6, <2>1 DEF Consistent
<1>8. Sound(catalog) /\ catalog.ok /\ catalog.touched = <<>>
  BY <1>1, <1>5, <1>6, <1>7 DEF Sound, Linked, none
<1> QED
  BY <1>8, SafeIsSound, CatalogAssumption DEF CatalogInit

LEMMA ImportSafeStep ==
    ASSUME CatalogSafe, NEW f \in Sheets, ImportSheet(f)
    PROVE  CatalogSafe'
<1>1. Sound(catalog') /\ catalog'.ok /\ catalog'.touched = <<>>
  BY ImportSheetSound DEF Advances
<1>2. imported' = imported \cup {f} /\ repairs' = 0 /\ handEdits' = handEdits
  BY DEF ImportSheet
<1> QED
  BY <1>1, <1>2, SafeIsSound, SafeIsSoundNext, CatalogConstants

LEMMA RepairSafeStep ==
    ASSUME CatalogSafe, NEW order \in Orders(Imported(catalog)), repair(order)
    PROVE  CatalogSafe'
<1>1. Sound(catalog') /\ catalog'.ok /\ catalog'.touched = <<>>
  BY RepairSound DEF Advances
<1>2. /\ imported' = imported /\ handEdits' = handEdits
      /\ repairs' = IF repairs > MaxSessions THEN repairs ELSE repairs + 1
  BY DEF repair
<1>3. repairs' \in 0..(MaxSessions + 1)
  BY <1>2, SafeIsSound, CatalogConstants
<1> QED
  BY <1>1, <1>2, <1>3, SafeIsSound, SafeIsSoundNext

\* The catalog after any imports, repairs, edits and reports of Sites: codes and
\* identifiers are unique, nothing refers to a row that is not there, and the primary
\* session of a presentation is among its links unless update_presentation or a Site set
\* it (commit_batch, remove_presentation_session, _materialize_session_presentation).
THEOREM CatalogIsSafe == CatalogSpec => []CatalogSafe
<1>1. CatalogInit => CatalogSafe
  BY CatalogInitSafe
<1>2. CatalogSafe /\ [CatalogNext]_catalogVars => CatalogSafe'
  <2> SUFFICES ASSUME CatalogSafe, [CatalogNext]_catalogVars PROVE CatalogSafe'
    OBVIOUS
  <2>1. CASE MaterializeNext
    BY <2>1, ImportSafeStep, RepairSafeStep DEF MaterializeNext
  <2>2. CASE EditSessions \/ EditLinks
    BY <2>2, EditSteps
  <2>3. CASE UNCHANGED catalogVars
    BY <2>3, SafeIsSound, SafeIsSoundNext DEF catalogVars
  <2> QED
    BY <2>1, <2>2, <2>3 DEF CatalogNext
<1> QED
  BY <1>1, <1>2, PTL DEF CatalogSpec

\* An import or a repair takes a presentation out of its session only to put it into the
\* session that has its code or that a row of the imported file with its code names
\* (_materialize_session_presentation, commit_batch).
THEOREM CatalogMovesAreExplained == CatalogSpec => MovesExplained
<1> DEFINE Allowed ==
        handEdits' = handEdits =>
          \A p \in Shown(catalog) :
              LET x == catalog.presentations[p]
                  y == catalog'.presentations[p]
              IN  x.session # Unset /\ y.session # x.session =>
                      \/ y.session \in Coded(catalog', x.code)
                      \/ \E f \in imported' \ imported : \E i \in DOMAIN SheetRows[f] :
                            /\ SheetRows[f][i].code = x.code
                            /\ y.session \in Coded(catalog', SheetRows[f][i].session)
<1>1. CatalogSafe /\ [CatalogNext]_catalogVars => [Allowed]_catalogVars
  <2> SUFFICES ASSUME CatalogSafe, CatalogNext PROVE Allowed
    OBVIOUS
  <2>1. ASSUME NEW f \in Sheets, ImportSheet(f) PROVE Allowed
    <3>1. Explained(catalog, catalog', RowsOf(f))
      BY <2>1, ImportSheetSound DEF Advances
    <3>2. f \in imported' \ imported
      BY <2>1 DEF ImportSheet
    <3> SUFFICES ASSUME NEW p \in Shown(catalog),
                        catalog'.presentations[p].session # catalog.presentations[p].session,
                        catalog'.presentations[p].session \notin Coded(catalog', catalog.presentations[p].code)
                 PROVE  \E i \in DOMAIN SheetRows[f] :
                            /\ SheetRows[f][i].code = catalog.presentations[p].code
                            /\ catalog'.presentations[p].session \in Coded(catalog', SheetRows[f][i].session)
      BY <3>2
    <3>3. ExplainedBy(catalog, catalog', RowsOf(f), p)
      BY <3>1 DEF Explained
    <3> QED
      BY <3>3 DEF ExplainedBy, RowsOf
  <2>2. ASSUME NEW order \in Orders(Imported(catalog)), repair(order) PROVE Allowed
    <3>1. Explained(catalog, catalog', {})
      BY <2>2, RepairSound DEF Advances
    <3> QED
      BY <3>1 DEF Explained, ExplainedBy
  <2>3. CASE EditSessions \/ EditLinks
    BY <2>3, EditSteps
  <2> QED
    BY <2>1, <2>2, <2>3 DEF CatalogNext, MaterializeNext
<1>2. CatalogSpec => []CatalogSafe
  BY CatalogIsSafe
<1>3. MovesExplained <=> [][Allowed]_catalogVars
  BY DEF MovesExplained
<1> QED
  BY <1>1, <1>2, <1>3, PTL DEF CatalogSpec

-----------------------------------------------------------------------------
(* Imports of people: the tables of a commit.                              *)

FileRow == [kind: {"person", "participant", "wide"}, id: PersonIds \cup {None},
            ref: ExternalIds \cup {None}, email: Emails \cup {None}, name: Names]
PeopleTable == [PersonIds -> PersonRow \cup {NoPerson}]
ParticipationTable == [Events \X PersonIds -> EventParticipation]
IdentifierTable == [ExternalIds -> PersonIds \cup {None}]

CommitTables == [ok: BOOLEAN, people: PeopleTable, participation: ParticipationTable,
                 identifiers: IdentifierTable, rows: Seq(ImportRow)]

LEMMA FileFacts ==
    ASSUME NEW f \in Files
    PROVE  /\ FileRows[f] \in Seq(FileRow) /\ Len(FileRows[f]) \in Nat
           /\ DOMAIN FileRows[f] = 1..Len(FileRows[f])
           /\ \A i \in 1..Len(FileRows[f]) : FileRows[f][i] \in FileRow
           /\ FileEvent[f] \in Events
<1>1. FileRows[f] \in Seq(FileRow) /\ FileEvent[f] \in Events
  BY ProgramImportAssumption DEF FileRow
<1> QED
  BY <1>1

LEMMA PersonIsThere == \A x \in PersonRow : x # NoPerson /\ x.state # "absent"
<1>1. \A x \in PersonRow : x.state # NoPerson.state
  BY DEF PersonRow, NoPerson
<1> QED
  BY <1>1 DEF PersonRow

LEMMA NobodyIsAbsent == NoPerson.state = "absent" /\ NoPerson.origin = None
BY DEF NoPerson

\* The person that a row makes.
NewRow(f, i, row) ==
    [state |-> "active", email |-> FileRows[f][i].email, name |-> FileRows[f][i].name, revision |-> 0,
     raced |-> FALSE, origin |-> BroughtBy(f, row)]

LEMMA NewRowType ==
    ASSUME NEW f \in Files, NEW i \in DOMAIN FileRows[f], NEW row
    PROVE  NewRow(f, i, row) \in PersonRow
<1>1. FileRows[f][i] \in FileRow
  BY FileFacts
<1>2. FileRows[f][i].email \in Emails \cup {None} /\ FileRows[f][i].name \in Names
  BY <1>1 DEF FileRow
<1> QED
  BY <1>2 DEF NewRow, PersonRow, BroughtBy

Put(P, p, x) == [P EXCEPT ![p] = x]
\* Nobody but p joins an event, and p joins as it is said.
OnlyJoins(before, after, p, how) ==
    \A d \in Events, q \in PersonIds :
        \/ after[<<d, q>>] = before[<<d, q>>]
        \/ q = p /\ after[<<d, q>>].how = how

\* What the parts of a row's commit do to the tables.
LEMMA CreateEffect ==
    ASSUME NEW s \in CommitTables, NEW p \in PersonIds, NEW f \in Files, NEW i \in DOMAIN FileRows[f], NEW row
    PROVE  LET t == Create(s, p, f, FileRows[f][i], row)
           IN  /\ t \in CommitTables /\ t.people = Put(s.people, p, NewRow(f, i, row))
               /\ t.ok = s.ok /\ t.participation = s.participation /\ t.identifiers = s.identifiers
               /\ t.rows = s.rows
<1> DEFINE x == NewRow(f, i, row)
           t == Create(s, p, f, FileRows[f][i], row)
<1>1. x \in PersonRow
  BY NewRowType
<1>2. t = [s EXCEPT !.people[p] = x]
  BY DEF Create, NewRow
<1> HIDE DEF x, t
<1>3. s.people \in PeopleTable
  BY DEF CommitTables
<1>4. [s.people EXCEPT ![p] = x] \in PeopleTable
  BY <1>1, <1>3 DEF PeopleTable
<1>5. /\ t.people = [s.people EXCEPT ![p] = x] /\ t.ok = s.ok /\ t.participation = s.participation
      /\ t.identifiers = s.identifiers /\ t.rows = s.rows
  BY <1>2 DEF CommitTables
<1>6. t \in CommitTables
  BY <1>2, <1>4 DEF CommitTables
<1> QED
  BY <1>5, <1>6 DEF t, x, Put

LEMMA CreateKeeps ==
    ASSUME NEW s \in CommitTables, NEW p \in PersonIds, NEW f \in Files, NEW i \in DOMAIN FileRows[f], NEW row
    PROVE  /\ Create(s, p, f, FileRows[f][i], row).ok = s.ok
           /\ Create(s, p, f, FileRows[f][i], row).participation = s.participation
           /\ Create(s, p, f, FileRows[f][i], row).rows = s.rows
BY CreateEffect

LEMMA JoinEffect ==
    ASSUME NEW s \in CommitTables, NEW e \in Events, NEW p \in PersonIds, NEW how \in {"row", "mixed", "wide"}
    PROVE  LET t == Join(s, e, p, how)
           IN  /\ t \in CommitTables /\ t.people = s.people /\ t.ok = s.ok
               /\ t.identifiers = s.identifiers /\ t.rows = s.rows
               /\ OnlyJoins(s.participation, t.participation, p, how)
<1> DEFINE x == [how |-> how, raced |-> FALSE]
           t == Join(s, e, p, how)
<1>1. CASE s.participation[<<e, p>>] # NoParticipation
  BY <1>1 DEF Join, OnlyJoins
<1>2. CASE s.participation[<<e, p>>] = NoParticipation
  <2>1. t = [s EXCEPT !.participation[<<e, p>>] = x]
    BY <1>2 DEF Join
  <2>2. x \in EventParticipation /\ x.how = how
    BY DEF EventParticipation
  <2> HIDE DEF x, t
  <2>3. s.participation \in ParticipationTable
    BY DEF CommitTables
  <2>4. [s.participation EXCEPT ![<<e, p>>] = x] \in ParticipationTable
    BY <2>2, <2>3 DEF ParticipationTable
  <2>5. /\ t.participation = [s.participation EXCEPT ![<<e, p>>] = x] /\ t.people = s.people
        /\ t.ok = s.ok /\ t.identifiers = s.identifiers /\ t.rows = s.rows
    BY <2>1 DEF CommitTables
  <2>6. t \in CommitTables
    BY <2>1, <2>4 DEF CommitTables
  <2>7. ASSUME NEW d \in Events, NEW r \in PersonIds
        PROVE  \/ t.participation[<<d, r>>] = s.participation[<<d, r>>]
               \/ r = p /\ t.participation[<<d, r>>].how = how
    BY <2>2, <2>3, <2>5 DEF ParticipationTable
  <2> QED
    BY <2>5, <2>6, <2>7 DEF t, OnlyJoins
<1> QED
  BY <1>1, <1>2

LEMMA IdentifyEffect ==
    ASSUME NEW s \in CommitTables, NEW p \in PersonIds, NEW r \in FileRow
    PROVE  LET t == Identify(s, p, r)
           IN  /\ t \in CommitTables /\ t.people = s.people /\ t.participation = s.participation
               /\ t.rows = s.rows
               /\ t.ok => s.ok
<1>1. s.identifiers \in IdentifierTable
  BY DEF CommitTables
<1>2. CASE r.ref = None
  BY <1>2 DEF Identify
<1>3. CASE r.ref # None /\ s.identifiers[r.ref] \notin {None, p}
  BY <1>3 DEF Identify, Refuse, CommitTables
<1>4. CASE r.ref # None /\ s.identifiers[r.ref] \in {None, p}
  <2>1. Identify(s, p, r) = [s EXCEPT !.identifiers[r.ref] = p]
    BY <1>4 DEF Identify
  <2>2. [s.identifiers EXCEPT ![r.ref] = p] \in IdentifierTable
    BY <1>1, <1>4 DEF IdentifierTable, FileRow
  <2> QED
    BY <2>1, <2>2 DEF CommitTables
<1> QED
  BY <1>2, <1>3, <1>4

LEMMA RecordEffect ==
    ASSUME NEW s \in CommitTables, NEW i \in 1..Len(s.rows), NEW p \in PersonIds \cup {None}
    PROVE  LET t == Record(s, i, p)
           IN  /\ t \in CommitTables /\ t.people = s.people /\ t.participation = s.participation
               /\ t.identifiers = s.identifiers /\ t.ok = s.ok
               /\ Len(t.rows) = Len(s.rows) /\ t.rows[i].committed /\ t.rows[i].person = p
               /\ \A j \in 1..Len(s.rows) : j # i => t.rows[j] = s.rows[j]
<1> DEFINE x == [s.rows[i] EXCEPT !.committed = TRUE, !.person = p]
           t == Record(s, i, p)
<1>1. s.rows \in Seq(ImportRow) /\ s.rows[i] \in ImportRow
  BY DEF CommitTables
<1>2. x \in ImportRow /\ x.committed /\ x.person = p
  BY <1>1 DEF ImportRow
<1>3. t = [s EXCEPT !.rows[i] = x]
  BY DEF Record
<1> HIDE DEF x, t
<1>4. /\ [s.rows EXCEPT ![i] = x] \in Seq(ImportRow) /\ Len([s.rows EXCEPT ![i] = x]) = Len(s.rows)
      /\ [s.rows EXCEPT ![i] = x][i] = x
      /\ \A j \in 1..Len(s.rows) : j # i => [s.rows EXCEPT ![i] = x][j] = s.rows[j]
  BY <1>1, <1>2
<1> DEFINE y == [s.rows EXCEPT ![i] = x]
<1>5. t = [s EXCEPT !.rows = y]
  BY <1>3
<1> HIDE DEF y
<1>6. /\ t.rows = y /\ t.people = s.people /\ t.ok = s.ok /\ t.identifiers = s.identifiers
      /\ t.participation = s.participation
  BY <1>5 DEF CommitTables
<1>7. y \in Seq(ImportRow)
  BY <1>4 DEF y
<1>8. t \in CommitTables
  BY <1>5, <1>7 DEF CommitTables
<1> QED
  BY <1>2, <1>4, <1>6, <1>8 DEF t, y

-----------------------------------------------------------------------------
(* Imports of people: one row.                                             *)

Free(P) == {p \in PersonIds : P[p] = NoPerson}

\* What the commit of row i of file f, read as row, makes of the tables s: u.
RowsStep(s, u, i) ==
    /\ Len(u.rows) = Len(s.rows) /\ u.rows[i].committed
    /\ \A j \in 1..Len(s.rows) : j # i => u.rows[j] = s.rows[j]
Chose(u, f, i, row) ==
    FileRows[f][i].kind # "wide" =>
        IF Ignored(row) THEN u.rows[i].person = None
        ELSE IF Chosen(row) # None THEN u.rows[i].person = Chosen(row)
        ELSE u.rows[i].person \in PersonIds /\ u.people[u.rows[i].person] = NewRow(f, i, row)
Makes(P, f, i, row) ==
    /\ ~Ignored(row)
    /\ FileRows[f][i].kind # "wide" => Chosen(row) = None
    /\ FileRows[f][i].kind = "wide" => ActiveWith(P, FileRows[f][i].email) = {}
PeopleStep(s, u, f, i, row) ==
    \A p \in PersonIds :
        \/ u.people[p] = s.people[p]
        \/ s.people[p] = NoPerson /\ u.people[p] = NewRow(f, i, row) /\ Makes(s.people, f, i, row)
OneMore(s, u) ==
    u.people = s.people \/ \E p \in Free(s.people) : Free(u.people) = Free(s.people) \ {p}
JoinStep(s, u, row) ==
    \A d \in Events, q \in PersonIds :
        \/ u.participation[<<d, q>>] = s.participation[<<d, q>>]
        \/ u.participation[<<d, q>>].how \in {"wide", "mixed"}
        \/ s.people[q] = NoPerson
        \/ q = row.of /\ (row.seen # None => s.people[q].revision = row.seen)

GoneStep(s, u) ==
    \A d \in Events, q \in PersonIds :
        s.people[q].state = "gone" => u.participation[<<d, q>>] = s.participation[<<d, q>>]

RowDone(s, u, f, i, row) ==
    /\ u \in CommitTables
    /\ u.ok => s.ok
    /\ u.ok => RowsStep(s, u, i) /\ Chose(u, f, i, row)
    /\ u.ok => PeopleStep(s, u, f, i, row) /\ OneMore(s, u) /\ JoinStep(s, u, row) /\ GoneStep(s, u)

LEMMA RowType ==
    ASSUME NEW s \in CommitTables, NEW i \in 1..Len(s.rows)
    PROVE  /\ s.rows \in Seq(ImportRow) /\ s.rows[i] \in ImportRow
           /\ Chosen(s.rows[i]) \in PersonIds \cup {None}
<1>1. s.rows \in Seq(ImportRow) /\ s.rows[i] \in ImportRow
  BY DEF CommitTables
<1> QED
  BY <1>1 DEF Chosen, ImportRow

LEMMA CreatedStep ==
    ASSUME NEW s \in CommitTables, NEW p \in PersonIds, s.people[p] = NoPerson,
           NEW f \in Files, NEW i \in DOMAIN FileRows[f], NEW row, Makes(s.people, f, i, row),
           NEW u, u.people = Put(s.people, p, NewRow(f, i, row))
    PROVE  PeopleStep(s, u, f, i, row) /\ OneMore(s, u) /\ u.people[p] = NewRow(f, i, row)
<1> DEFINE x == NewRow(f, i, row)
<1>1. x # NoPerson
  BY NewRowType, PersonIsThere
<1>2. u.people = [s.people EXCEPT ![p] = x]
  BY DEF Put
<1>3. s.people \in PeopleTable
  BY DEF CommitTables
<1> HIDE DEF x
<1>4. u.people[p] = x /\ \A q \in PersonIds : q # p => u.people[q] = s.people[q]
  BY <1>2, <1>3 DEF PeopleTable
<1>5. PeopleStep(s, u, f, i, row)
  BY <1>4 DEF PeopleStep, x
<1>6. p \in Free(s.people) /\ Free(u.people) = Free(s.people) \ {p}
  BY <1>1, <1>4 DEF Free
<1> QED
  BY <1>4, <1>5, <1>6 DEF OneMore, x

LEMMA SameStep ==
    ASSUME NEW s, NEW u, u.people = s.people, NEW f, NEW i, NEW row
    PROVE  PeopleStep(s, u, f, i, row) /\ OneMore(s, u)
BY DEF PeopleStep, OneMore

LEMMA GoneStays ==
    ASSUME NEW s, NEW u, NEW p, NEW how, s.people[p].state # "gone",
           OnlyJoins(s.participation, u.participation, p, how)
    PROVE  GoneStep(s, u)
BY DEF GoneStep, OnlyJoins

LEMMA RefusedRow ==
    ASSUME NEW s \in CommitTables, NEW f, NEW i, NEW row
    PROVE  RowDone(s, Refuse(s), f, i, row)
<1>1. Refuse(s) \in CommitTables /\ ~Refuse(s).ok
  BY DEF Refuse, CommitTables
<1> QED
  BY <1>1 DEF RowDone

LEMMA NewPersonIsNew ==
    ASSUME NEW s, Free(s.people) # {}
    PROVE  NewPerson(s) \in PersonIds /\ s.people[NewPerson(s)] = NoPerson
<1>1. \E p \in PersonIds : s.people[p] = NoPerson
  BY DEF Free
<1> QED
  BY <1>1 DEF NewPerson

LEMMA IgnoredRow ==
    ASSUME NEW s \in CommitTables, NEW f \in Files, NEW i \in 1..Len(s.rows), Ignored(s.rows[i])
    PROVE  RowDone(s, Record(s, i, None), f, i, s.rows[i])
<1> DEFINE u == Record(s, i, None)
<1>1. /\ u \in CommitTables /\ u.people = s.people /\ u.participation = s.participation
      /\ u.ok = s.ok /\ Len(u.rows) = Len(s.rows) /\ u.rows[i].committed /\ u.rows[i].person = None
      /\ \A j \in 1..Len(s.rows) : j # i => u.rows[j] = s.rows[j]
  BY RecordEffect
<1> HIDE DEF u
<1>2. PeopleStep(s, u, f, i, s.rows[i]) /\ OneMore(s, u)
  BY <1>1, SameStep
<1>3. RowsStep(s, u, i) /\ Chose(u, f, i, s.rows[i]) /\ JoinStep(s, u, s.rows[i]) /\ GoneStep(s, u)
  BY <1>1 DEF RowsStep, Chose, JoinStep, GoneStep
<1>4. RowDone(s, u, f, i, s.rows[i])
  BY <1>1, <1>2, <1>3 DEF RowDone
<1> QED
  BY <1>4 DEF u

\* The end of a row of a person or participant: the tables t have the person already.
LEMMA PersonIsRecorded ==
    ASSUME NEW s \in CommitTables, NEW f \in Files, NEW i \in 1..Len(s.rows), i \in DOMAIN FileRows[f],
           NEW t \in CommitTables, NEW p \in PersonIds,
           t.rows = s.rows, t.participation = s.participation, t.ok = s.ok
    PROVE  LET r == FileRows[f][i]
               v == IF r.kind = "participant" THEN Join(t, FileEvent[f], p, JoinedBy(s.rows[i])) ELSE t
               u == Record(Identify(v, p, r), i, p)
           IN  /\ u \in CommitTables /\ u.people = t.people /\ (u.ok => s.ok)
               /\ RowsStep(s, u, i) /\ u.rows[i].person = p
               /\ OnlyJoins(s.participation, u.participation, p, JoinedBy(s.rows[i]))
<1> DEFINE r == FileRows[f][i]
           how == JoinedBy(s.rows[i])
           e == FileEvent[f]
           v == IF r.kind = "participant" THEN Join(t, e, p, how) ELSE t
           w == Identify(v, p, r)
           u == Record(w, i, p)
<1>1. r \in FileRow /\ e \in Events
  BY FileFacts
<1>2. how \in {"row", "mixed", "wide"}
  BY DEF JoinedBy
<1> HIDE DEF how, r, e
<1> DEFINE k == Join(t, e, p, how)
<1>3. /\ k \in CommitTables /\ k.people = t.people /\ k.ok = t.ok /\ k.rows = t.rows
      /\ OnlyJoins(t.participation, k.participation, p, how)
  BY <1>1, <1>2, JoinEffect
<1>4. v = IF r.kind = "participant" THEN k ELSE t
  OBVIOUS
<1> HIDE DEF v, k
<1>5. /\ v \in CommitTables /\ v.people = t.people /\ v.ok = t.ok /\ v.rows = t.rows
      /\ OnlyJoins(t.participation, v.participation, p, how)
  <2>1. OnlyJoins(t.participation, t.participation, p, how)
    BY DEF OnlyJoins
  <2> QED
    BY <1>3, <1>4, <2>1
<1>6. /\ w \in CommitTables /\ w.people = v.people /\ w.participation = v.participation
      /\ w.rows = v.rows /\ (w.ok => v.ok)
  BY <1>1, <1>5, IdentifyEffect
<1> HIDE DEF w
<1>7. i \in 1..Len(w.rows) /\ p \in PersonIds \cup {None}
  BY <1>5, <1>6
<1>8. /\ u \in CommitTables /\ u.people = w.people /\ u.participation = w.participation /\ u.ok = w.ok
      /\ Len(u.rows) = Len(w.rows) /\ u.rows[i].committed /\ u.rows[i].person = p
      /\ \A j \in 1..Len(w.rows) : j # i => u.rows[j] = w.rows[j]
  BY <1>6, <1>7, RecordEffect
<1> HIDE DEF u
<1>9. RowsStep(s, u, i)
  BY <1>5, <1>6, <1>8 DEF RowsStep
<1>10. u.people = t.people /\ (u.ok => s.ok) /\ u.participation = v.participation
  BY <1>5, <1>6, <1>8
<1>11. OnlyJoins(s.participation, u.participation, p, how)
  BY <1>5, <1>10
<1> QED
  BY <1>8, <1>9, <1>10, <1>11 DEF u, w, v, r, how, e

LEMMA PersonRowDone ==
    ASSUME NEW s \in CommitTables, NEW f \in Files, NEW i \in 1..Len(s.rows), i \in DOMAIN FileRows[f],
           ~Ignored(s.rows[i]), FileRows[f][i].kind # "wide", Free(s.people) # {}
    PROVE  RowDone(s, _person_for_row(s, f, i), f, i, s.rows[i])
<1> DEFINE row == s.rows[i]
           z == _person_for_row(s, f, i)
<1>1. Chosen(row) \in PersonIds \cup {None}
  BY RowType
<1>2. CASE Chosen(row) # None /\ (Vanished(s, row) \/ Unreviewed(s, row))
  <2>1. z = Refuse(s)
    BY <1>2 DEF _person_for_row
  <2> QED
    BY <2>1, RefusedRow
<1>3. CASE Chosen(row) # None /\ ~Vanished(s, row) /\ ~Unreviewed(s, row)
  <2> DEFINE p == Chosen(row)
             v == IF FileRows[f][i].kind = "participant" THEN Join(s, FileEvent[f], p, JoinedBy(row)) ELSE s
             u == Record(Identify(v, p, FileRows[f][i]), i, p)
  <2>1. z = u
    BY <1>3 DEF _person_for_row
  <2>2. p \in PersonIds
    BY <1>1, <1>3
  <2>3. /\ u \in CommitTables /\ u.people = s.people /\ (u.ok => s.ok)
        /\ RowsStep(s, u, i) /\ u.rows[i].person = p
        /\ OnlyJoins(s.participation, u.participation, p, JoinedBy(row))
    <3> HIDE DEF p
    <3> QED
      BY <2>2, PersonIsRecorded
  <2> HIDE DEF u
  <2>4. PeopleStep(s, u, f, i, row) /\ OneMore(s, u)
    BY <2>3, SameStep
  <2>5. Chose(u, f, i, row)
    BY <1>3, <2>3 DEF Chose
  <2>6. JoinedBy(row) = "mixed" \/ p = row.of
    BY <1>3 DEF JoinedBy
  <2>7. row.seen # None => s.people[p].revision = row.seen
    BY <1>3 DEF Unreviewed
  <2>8. JoinStep(s, u, row)
    BY <2>3, <2>6, <2>7 DEF JoinStep, OnlyJoins
  <2>9. GoneStep(s, u)
    <3>1. s.people[p].state # "gone"
      BY <1>3 DEF Vanished
    <3> QED
      BY <2>3, <3>1, GoneStays
  <2> QED
    BY <2>1, <2>3, <2>4, <2>5, <2>8, <2>9 DEF RowDone
<1>4. CASE Chosen(row) = None
  <2> DEFINE p == NewPerson(s)
             t == Create(s, p, f, FileRows[f][i], row)
             v == IF FileRows[f][i].kind = "participant" THEN Join(t, FileEvent[f], p, JoinedBy(row)) ELSE t
             u == Record(Identify(v, p, FileRows[f][i]), i, p)
  <2>1. z = u
    BY <1>4 DEF _person_for_row
  <2>2. p \in PersonIds /\ s.people[p] = NoPerson
    BY NewPersonIsNew
  <2> HIDE DEF p, row
  <2>3. /\ t \in CommitTables /\ t.people = Put(s.people, p, NewRow(f, i, row))
        /\ t.ok = s.ok /\ t.participation = s.participation /\ t.rows = s.rows
    <3>1. /\ Create(s, p, f, FileRows[f][i], row) \in CommitTables
          /\ Create(s, p, f, FileRows[f][i], row).people = Put(s.people, p, NewRow(f, i, row))
      BY <2>2, CreateEffect
    <3>2. /\ Create(s, p, f, FileRows[f][i], row).ok = s.ok
          /\ Create(s, p, f, FileRows[f][i], row).participation = s.participation
          /\ Create(s, p, f, FileRows[f][i], row).rows = s.rows
      BY <2>2, CreateEffect
    <3> QED
      BY <3>1, <3>2
  <2> HIDE DEF t
  <2>4. /\ u \in CommitTables /\ u.people = t.people /\ (u.ok => s.ok)
        /\ RowsStep(s, u, i) /\ u.rows[i].person = p
        /\ OnlyJoins(s.participation, u.participation, p, JoinedBy(row))
    BY <2>2, <2>3, PersonIsRecorded DEF row
  <2> HIDE DEF u
  <2>5. Makes(s.people, f, i, row)
    BY <1>4 DEF Makes, row
  <2>6. PeopleStep(s, u, f, i, row) /\ OneMore(s, u) /\ u.people[p] = NewRow(f, i, row)
    BY <2>2, <2>3, <2>4, <2>5, CreatedStep
  <2>7. Chose(u, f, i, row)
    BY <1>4, <2>2, <2>4, <2>6 DEF Chose, row
  <2>8. JoinStep(s, u, row)
    BY <2>2, <2>4 DEF JoinStep, OnlyJoins
  <2>9. GoneStep(s, u)
    BY <2>2, <2>4, NobodyIsAbsent, GoneStays
  <2> QED
    BY <2>1, <2>4, <2>6, <2>7, <2>8, <2>9 DEF RowDone, row
<1> QED
  BY <1>2, <1>3, <1>4

\* The end of a wide row.
LEMMA WideIsEnrolled ==
    ASSUME NEW s \in CommitTables, NEW f \in Files, NEW i \in 1..Len(s.rows), i \in DOMAIN FileRows[f],
           NEW t \in CommitTables, NEW p \in PersonIds,
           t.rows = s.rows, t.participation = s.participation, t.ok = s.ok
    PROVE  LET u == Record(Join(Identify(t, p, FileRows[f][i]), FileEvent[f], p, "wide"), i, p)
           IN  /\ u \in CommitTables /\ u.people = t.people /\ (u.ok => s.ok)
               /\ RowsStep(s, u, i)
               /\ OnlyJoins(s.participation, u.participation, p, "wide")
<1> DEFINE r == FileRows[f][i]
           e == FileEvent[f]
           v == Identify(t, p, r)
           w == Join(v, e, p, "wide")
           u == Record(w, i, p)
<1>1. r \in FileRow /\ e \in Events
  BY FileFacts
<1> HIDE DEF r, e
<1>2. /\ v \in CommitTables /\ v.people = t.people /\ v.participation = t.participation
      /\ v.rows = t.rows /\ (v.ok => t.ok)
  BY <1>1, IdentifyEffect
<1> HIDE DEF v
<1>3. "wide" \in {"row", "mixed", "wide"}
  OBVIOUS
<1>4. /\ w \in CommitTables /\ w.people = v.people /\ w.ok = v.ok /\ w.rows = v.rows
      /\ OnlyJoins(v.participation, w.participation, p, "wide")
  BY <1>1, <1>2, <1>3, JoinEffect
<1> HIDE DEF w
<1>5. i \in 1..Len(w.rows) /\ p \in PersonIds \cup {None}
  BY <1>2, <1>4
<1>6. /\ u \in CommitTables /\ u.people = w.people /\ u.participation = w.participation /\ u.ok = w.ok
      /\ Len(u.rows) = Len(w.rows) /\ u.rows[i].committed
      /\ \A j \in 1..Len(w.rows) : j # i => u.rows[j] = w.rows[j]
  BY <1>4, <1>5, RecordEffect
<1> HIDE DEF u
<1>7. RowsStep(s, u, i)
  BY <1>2, <1>4, <1>6 DEF RowsStep
<1>8. /\ u \in CommitTables /\ u.people = t.people /\ (u.ok => s.ok)
      /\ OnlyJoins(s.participation, u.participation, p, "wide")
  BY <1>2, <1>4, <1>6
<1> QED
  BY <1>7, <1>8 DEF u, w, v, r, e

LEMMA WideRowDone ==
    ASSUME NEW s \in CommitTables, NEW f \in Files, NEW i \in 1..Len(s.rows), i \in DOMAIN FileRows[f],
           ~Ignored(s.rows[i]), FileRows[f][i].kind = "wide", Free(s.people) # {}
    PROVE  RowDone(s, _ensure_wide_row_participant(s, f, i), f, i, s.rows[i])
<1> DEFINE row == s.rows[i]
           r == FileRows[f][i]
           e == FileEvent[f]
           mailed == ActiveWith(s.people, r.email)
           enroll(t, p) == IF t.participation[<<e, p>>] # NoParticipation THEN Refuse(t)
                           ELSE Record(Join(Identify(t, p, r), e, p, "wide"), i, p)
           z == _ensure_wide_row_participant(s, f, i)
<1>1. Chosen(row) \in PersonIds \cup {None}
  BY RowType
<1>2. ASSUME NEW p \in PersonIds \cup {None}, z = Record(s, i, p)
      PROVE  RowDone(s, z, f, i, row)
  <2> DEFINE u == Record(s, i, p)
  <2>1. /\ u \in CommitTables /\ u.people = s.people /\ u.participation = s.participation
        /\ u.ok = s.ok /\ Len(u.rows) = Len(s.rows) /\ u.rows[i].committed
        /\ \A j \in 1..Len(s.rows) : j # i => u.rows[j] = s.rows[j]
    BY RecordEffect
  <2> HIDE DEF u
  <2>2. PeopleStep(s, u, f, i, row) /\ OneMore(s, u)
    BY <2>1, SameStep
  <2>3. RowsStep(s, u, i) /\ Chose(u, f, i, row) /\ JoinStep(s, u, row) /\ GoneStep(s, u)
    BY <2>1 DEF RowsStep, Chose, JoinStep, GoneStep
  <2>4. RowDone(s, u, f, i, row)
    BY <2>1, <2>2, <2>3 DEF RowDone
  <2> QED
    BY <1>2, <2>4 DEF u
<1>3. ASSUME NEW p \in PersonIds, s.people[p].state # "gone", z = enroll(s, p)
      PROVE  RowDone(s, z, f, i, row)
  <2>1. CASE s.participation[<<e, p>>] # NoParticipation
    BY <1>3, <2>1, RefusedRow
  <2>2. CASE s.participation[<<e, p>>] = NoParticipation
    <3>1. z = Record(Join(Identify(s, p, r), e, p, "wide"), i, p)
      BY <1>3, <2>2
    <3>2. /\ z \in CommitTables /\ z.people = s.people /\ (z.ok => s.ok)
          /\ RowsStep(s, z, i) /\ OnlyJoins(s.participation, z.participation, p, "wide")
      <4> HIDE DEF z
      <4> QED
        BY <3>1, WideIsEnrolled
    <3> HIDE DEF z, row
    <3>3. PeopleStep(s, z, f, i, row) /\ OneMore(s, z)
      BY <3>2, SameStep
    <3>4. Chose(z, f, i, row) /\ JoinStep(s, z, row)
      BY <3>2 DEF Chose, JoinStep, OnlyJoins
    <3>5. GoneStep(s, z)
      BY <1>3, <3>2, GoneStays
    <3> QED
      BY <3>2, <3>3, <3>4, <3>5 DEF RowDone
  <2> QED
    BY <2>1, <2>2
<1>4. ASSUME NEW p \in PersonIds, s.people[p] = NoPerson, z = enroll(Create(s, p, f, r, row), p),
             mailed = {}
      PROVE  RowDone(s, z, f, i, row)
  <2>1. Makes(s.people, f, i, row)
    BY <1>4 DEF Makes
  <2> DEFINE t == Create(s, p, f, r, row)
  <2> HIDE DEF z, row
  <2>2. t \in CommitTables /\ t.people = Put(s.people, p, NewRow(f, i, row))
    BY CreateEffect
  <2>3. t.ok = s.ok /\ t.participation = s.participation /\ t.rows = s.rows
    <3>1. t.ok = s.ok
      BY DEF Create, CommitTables
    <3>2. t.participation = s.participation
      BY DEF Create, CommitTables
    <3>3. t.rows = s.rows
      BY DEF Create, CommitTables
    <3> QED
      BY <3>1, <3>2, <3>3
  <2>4. z = enroll(t, p)
    BY <1>4
  <2> HIDE DEF t
  <2>5. CASE t.participation[<<e, p>>] # NoParticipation
    <3>1. z = Refuse(t)
      BY <2>4, <2>5
    <3>2. z \in CommitTables /\ ~z.ok
      BY <2>2, <3>1 DEF Refuse, CommitTables
    <3> QED
      BY <3>2 DEF RowDone
  <2>6. CASE t.participation[<<e, p>>] = NoParticipation
    <3>1. z = Record(Join(Identify(t, p, r), e, p, "wide"), i, p)
      BY <2>4, <2>6
    <3>2. /\ z \in CommitTables /\ z.people = t.people /\ (z.ok => s.ok)
          /\ RowsStep(s, z, i) /\ OnlyJoins(s.participation, z.participation, p, "wide")
      BY <2>2, <2>3, <3>1, WideIsEnrolled
    <3>3. PeopleStep(s, z, f, i, row) /\ OneMore(s, z)
      BY <1>4, <2>1, <2>2, <3>2, CreatedStep
    <3>4. Chose(z, f, i, row) /\ JoinStep(s, z, row)
      BY <3>2 DEF Chose, JoinStep, OnlyJoins
    <3>5. GoneStep(s, z)
      BY <1>4, <3>2, NobodyIsAbsent, GoneStays
    <3> QED
      BY <3>2, <3>3, <3>4, <3>5 DEF RowDone
  <2> QED
    BY <2>5, <2>6
<1>5. CASE r.email = None
  BY <1>2, <1>5 DEF _ensure_wide_row_participant
<1>6. CASE r.email # None /\ Participant(s, e, r.email) # {}
  <2> DEFINE p == CHOOSE x \in Participant(s, e, r.email) : TRUE
  <2>1. p \in PersonIds
    BY <1>6 DEF Participant
  <2>2. z = Record(s, i, p)
    BY <1>6 DEF _ensure_wide_row_participant
  <2> QED
    BY <1>2, <2>1, <2>2
<1>7. CASE /\ r.email # None /\ Participant(s, e, r.email) = {}
           /\ Chosen(row) # None /\ ~Vanished(s, row)
  <2>1. z = enroll(s, Chosen(row))
    BY <1>7 DEF _ensure_wide_row_participant
  <2>2. s.people[Chosen(row)].state # "gone"
    BY <1>7 DEF Vanished
  <2> QED
    BY <1>1, <1>3, <1>7, <2>1, <2>2
<1>8. CASE /\ r.email # None /\ Participant(s, e, r.email) = {}
           /\ ~(Chosen(row) # None /\ ~Vanished(s, row))
  <2>1. CASE Cardinality(mailed) > 1
    <3>1. z = Refuse(s)
      BY <1>8, <2>1 DEF _ensure_wide_row_participant
    <3> QED
      BY <3>1, RefusedRow
  <2>2. CASE ~(Cardinality(mailed) > 1) /\ mailed # {}
    <3> DEFINE p == CHOOSE x \in mailed : TRUE
    <3>1. p \in PersonIds /\ s.people[p].state # "gone"
      <4>1. p \in mailed
        BY <2>2
      <4>2. p \in PersonIds /\ s.people[p].state = "active"
        BY <4>1 DEF ActiveWith
      <4> QED
        BY <4>2
    <3>2. z = enroll(s, p)
      BY <1>8, <2>2 DEF _ensure_wide_row_participant
    <3> QED
      BY <1>3, <3>1, <3>2
  <2>3. CASE ~(Cardinality(mailed) > 1) /\ mailed = {}
    <3> DEFINE p == NewPerson(s)
    <3>1. p \in PersonIds /\ s.people[p] = NoPerson
      BY NewPersonIsNew
    <3>2. z = enroll(Create(s, p, f, r, row), p)
      BY <1>8, <2>3 DEF _ensure_wide_row_participant
    <3> QED
      BY <1>4, <1>8, <2>3, <3>1, <3>2
  <2> QED
    BY <2>1, <2>2, <2>3
<1> QED
  BY <1>5, <1>6, <1>7, <1>8

LEMMA CommitRowStep ==
    ASSUME NEW s \in CommitTables, s.ok, NEW f \in Files, NEW i \in 1..Len(s.rows), i \in DOMAIN FileRows[f],
           ~s.rows[i].committed, Free(s.people) # {}
    PROVE  RowDone(s, CommitRow(s, f, i), f, i, s.rows[i])
<1>1. CASE Ignored(s.rows[i])
  BY <1>1, IgnoredRow DEF CommitRow
<1>2. CASE ~Ignored(s.rows[i]) /\ FileRows[f][i].kind = "wide"
  BY <1>2, WideRowDone DEF CommitRow
<1>3. CASE ~Ignored(s.rows[i]) /\ FileRows[f][i].kind # "wide"
  BY <1>3, PersonRowDone DEF CommitRow
<1> QED
  BY <1>1, <1>2, <1>3

-----------------------------------------------------------------------------
(* Imports of people: the rows of a commit one after the other.            *)

\* What the first n rows of file f have made of the tables s0.
TakenRows(s, s0, n) ==
    \A i \in 1..Len(s0.rows) :
        /\ i > n \/ s0.rows[i].committed => s.rows[i] = s0.rows[i]
        /\ i <= n => s.rows[i].committed
TakenChoices(s, s0, f, n) ==
    \A i \in 1..Len(s0.rows) : i <= n /\ ~s0.rows[i].committed => Chose(s, f, i, s0.rows[i])
BornOf(s, s0, f, n, p) ==
    \E i \in 1..Len(s0.rows) :
        /\ i <= n /\ ~s0.rows[i].committed
        /\ s.people[p] = NewRow(f, i, s0.rows[i]) /\ Makes(s0.people, f, i, s0.rows[i])
TakenPeople(s, s0, f, n) ==
    \A p \in PersonIds :
        s.people[p] = s0.people[p] \/ (s0.people[p] = NoPerson /\ BornOf(s, s0, f, n, p))
ReviewedIn(s0, n, q) ==
    \E i \in 1..Len(s0.rows) :
        /\ i <= n /\ q = s0.rows[i].of
        /\ s0.rows[i].seen # None => s0.people[q].revision = s0.rows[i].seen
TakenJoins(s, s0, n) ==
    \A d \in Events, q \in PersonIds :
        \/ s.participation[<<d, q>>] = s0.participation[<<d, q>>]
        \/ s.participation[<<d, q>>].how \in {"wide", "mixed"}
        \/ s0.people[q] = NoPerson
        \/ ReviewedIn(s0, n, q)
TakenGone(s, s0) ==
    \A d \in Events, q \in PersonIds :
        s0.people[q].state = "gone" => s.participation[<<d, q>>] = s0.participation[<<d, q>>]
TakenRoom(s, s0, n) == Cardinality(Free(s.people)) + n >= Cardinality(Free(s0.people))

Taken(s, s0, f, n) ==
    /\ s \in CommitTables
    /\ s.ok => Len(s.rows) = Len(s0.rows) /\ TakenRows(s, s0, n) /\ TakenChoices(s, s0, f, n)
    /\ s.ok => TakenPeople(s, s0, f, n) /\ TakenJoins(s, s0, n) /\ TakenGone(s, s0) /\ TakenRoom(s, s0, n)

LEMMA TakenNothing ==
    ASSUME NEW s \in CommitTables, NEW f
    PROVE  Taken(s, s, f, 0)
<1>1. Len(s.rows) \in Nat
  BY DEF CommitTables
<1>2. /\ TakenRows(s, s, 0) /\ TakenChoices(s, s, f, 0) /\ TakenPeople(s, s, f, 0) /\ TakenJoins(s, s, 0)
      /\ TakenGone(s, s)
  BY <1>1 DEF TakenRows, TakenChoices, TakenPeople, TakenJoins, TakenGone
<1>3. TakenRoom(s, s, 0)
  <2>1. IsFiniteSet(Free(s.people))
    BY ProgramImportAssumption, FS_Subset DEF Free
  <2>2. Cardinality(Free(s.people)) \in Nat
    BY <2>1, FS_CardinalityType
  <2> QED
    BY <2>2 DEF TakenRoom
<1> QED
  BY <1>2, <1>3 DEF Taken

LEMMA FreeIsFinite ==
    ASSUME NEW P
    PROVE  IsFiniteSet(Free(P)) /\ Cardinality(Free(P)) \in Nat
<1>1. IsFiniteSet(Free(P))
  BY ProgramImportAssumption, FS_Subset DEF Free
<1> QED
  BY <1>1, FS_CardinalityType

LEMMA RoomShrinks ==
    ASSUME NEW s, NEW u, OneMore(s, u)
    PROVE  Cardinality(Free(u.people)) + 1 >= Cardinality(Free(s.people))
<1>1. CASE u.people = s.people
  BY <1>1, FreeIsFinite
<1>2. CASE \E p \in Free(s.people) : Free(u.people) = Free(s.people) \ {p}
  <2>1. PICK p \in Free(s.people) : Free(u.people) = Free(s.people) \ {p}
    BY <1>2
  <2>2. Cardinality(Free(s.people) \ {p}) = Cardinality(Free(s.people)) - 1
    BY FreeIsFinite, FS_RemoveElement
  <2> QED
    BY <2>1, <2>2, FreeIsFinite
<1> QED
  BY <1>1, <1>2 DEF OneMore

\* Who was active at first still is.
LEMMA StillActive ==
    ASSUME NEW s, NEW s0, NEW f, NEW n, TakenPeople(s, s0, f, n), NEW email
    PROVE  ActiveWith(s0.people, email) \subseteq ActiveWith(s.people, email)
<1> SUFFICES ASSUME NEW p \in PersonIds, email # None, s0.people[p].state = "active",
                    s0.people[p].email = email
             PROVE  p \in ActiveWith(s.people, email)
  BY DEF ActiveWith
<1>1. s0.people[p] # NoPerson
  BY NobodyIsAbsent
<1>2. s.people[p] = s0.people[p]
  BY <1>1 DEF TakenPeople
<1> QED
  BY <1>2 DEF ActiveWith

LEMMA TakenGrows ==
    ASSUME NEW f \in Files, NEW s0 \in CommitTables, NEW n \in 1..Len(s0.rows), NEW s,
           Len(s0.rows) = Len(FileRows[f]), Cardinality(Free(s0.people)) >= Len(s0.rows),
           Taken(s, s0, f, n - 1)
    PROVE  Taken(CommitRow(s, f, n), s0, f, n)
<1> DEFINE u == CommitRow(s, f, n)
           row == s0.rows[n]
<1>1. s \in CommitTables /\ Len(s0.rows) \in Nat /\ n \in Nat
  BY DEF Taken, CommitTables
<1>2. CASE ~s.ok
  <2>1. u = s
    BY <1>2 DEF CommitRow
  <2> QED
    BY <1>1, <1>2, <2>1 DEF Taken
<1>3. CASE s.ok
  <2>0. /\ Len(s.rows) = Len(s0.rows) /\ TakenRows(s, s0, n - 1) /\ TakenChoices(s, s0, f, n - 1)
        /\ TakenPeople(s, s0, f, n - 1) /\ TakenJoins(s, s0, n - 1) /\ TakenRoom(s, s0, n - 1)
        /\ TakenGone(s, s0)
    BY <1>3 DEF Taken
  <2>1. s.rows[n] = row
    BY <1>1, <2>0 DEF TakenRows
  <2>2. CASE row.committed
    <3>1. u = s
      BY <2>1, <2>2 DEF CommitRow
    <3>2. TakenRows(s, s0, n) /\ TakenChoices(s, s0, f, n)
      BY <1>1, <2>0, <2>1, <2>2 DEF TakenRows, TakenChoices
    <3>3. TakenPeople(s, s0, f, n) /\ TakenJoins(s, s0, n)
      <4>1. ASSUME NEW p \in PersonIds, BornOf(s, s0, f, n - 1, p)
            PROVE  BornOf(s, s0, f, n, p)
        BY <1>1, <4>1 DEF BornOf
      <4>2. ASSUME NEW q \in PersonIds, ReviewedIn(s0, n - 1, q)
            PROVE  ReviewedIn(s0, n, q)
        BY <1>1, <4>2 DEF ReviewedIn
      <4> QED
        BY <2>0, <4>1, <4>2 DEF TakenPeople, TakenJoins
    <3>4. TakenRoom(s, s0, n)
      BY <1>1, <2>0, FreeIsFinite DEF TakenRoom
    <3> QED
      BY <1>1, <2>0, <3>1, <3>2, <3>3, <3>4 DEF Taken
  <2>3. CASE ~row.committed
    <3>1. Free(s.people) # {}
      <4>1. Cardinality(Free(s.people)) > 0
        BY <1>1, <2>0, FreeIsFinite DEF TakenRoom
      <4> QED
        BY <4>1, FS_EmptySet
    <3>2. n \in 1..Len(s.rows) /\ n \in DOMAIN FileRows[f]
      BY <2>0, FileFacts
    <3>3. RowDone(s, u, f, n, row)
      <4>1. ~s.rows[n].committed
        BY <2>1, <2>3
      <4>2. RowDone(s, CommitRow(s, f, n), f, n, s.rows[n])
        BY <1>1, <1>3, <3>1, <3>2, <4>1, CommitRowStep
      <4> QED
        BY <2>1, <4>2
    <3> HIDE DEF u, row
    <3> SUFFICES ASSUME u.ok PROVE Taken(u, s0, f, n)
      BY <3>3 DEF RowDone, Taken, u
    <3>4. /\ u \in CommitTables /\ RowsStep(s, u, n) /\ Chose(u, f, n, row)
          /\ PeopleStep(s, u, f, n, row) /\ OneMore(s, u) /\ JoinStep(s, u, row) /\ GoneStep(s, u)
      BY <3>3 DEF RowDone
    <3>5. Len(u.rows) = Len(s0.rows) /\ TakenRows(u, s0, n)
      BY <1>1, <2>0, <2>3, <3>4 DEF RowsStep, TakenRows, row
    <3>6. TakenChoices(u, s0, f, n)
      <4> SUFFICES ASSUME NEW i \in 1..Len(s0.rows), i <= n, ~s0.rows[i].committed
                   PROVE  Chose(u, f, i, s0.rows[i])
        BY DEF TakenChoices
      <4>1. CASE i = n
        BY <3>4, <4>1 DEF row
      <4>2. CASE i # n
        <5>1. Chose(s, f, i, s0.rows[i]) /\ u.rows[i] = s.rows[i]
          BY <1>1, <2>0, <3>4, <4>2 DEF TakenChoices, RowsStep
        <5>2. ASSUME NEW p \in PersonIds, s.people[p] = NewRow(f, i, s0.rows[i])
              PROVE  u.people[p] = s.people[p]
          <6>1. s.people[p] # NoPerson
            <7>1. i \in DOMAIN FileRows[f]
              BY FileFacts
            <7> QED
              BY <5>2, <7>1, NewRowType, PersonIsThere
          <6> QED
            BY <3>4, <6>1 DEF PeopleStep
        <5> QED
          BY <5>1, <5>2 DEF Chose
      <4> QED
        BY <4>1, <4>2
    <3>7. TakenPeople(u, s0, f, n)
      <4> SUFFICES ASSUME NEW p \in PersonIds
                   PROVE  u.people[p] = s0.people[p] \/ (s0.people[p] = NoPerson /\ BornOf(u, s0, f, n, p))
        BY DEF TakenPeople
      <4>1. CASE u.people[p] = s.people[p]
        <5>1. BornOf(s, s0, f, n - 1, p) => BornOf(u, s0, f, n, p)
          BY <1>1, <4>1 DEF BornOf
        <5> QED
          BY <2>0, <4>1, <5>1 DEF TakenPeople
      <4>2. CASE s.people[p] = NoPerson /\ u.people[p] = NewRow(f, n, row) /\ Makes(s.people, f, n, row)
        <5>1. Makes(s0.people, f, n, row)
          BY <2>0, <4>2, StillActive DEF Makes
        <5>2. BornOf(u, s0, f, n, p)
          BY <1>1, <2>3, <4>2, <5>1 DEF BornOf, row
        <5>3. s0.people[p] = NoPerson
          <6>1. ~BornOf(s, s0, f, n - 1, p)
            <7> SUFFICES ASSUME NEW i \in 1..Len(s0.rows), s.people[p] = NewRow(f, i, s0.rows[i])
                         PROVE  FALSE
              BY DEF BornOf
            <7>1. i \in DOMAIN FileRows[f]
              BY FileFacts
            <7> QED
              BY <4>2, <7>1, NewRowType, PersonIsThere
          <6> QED
            BY <2>0, <4>2, <6>1 DEF TakenPeople
        <5> QED
          BY <5>2, <5>3
      <4> QED
        BY <3>4, <4>1, <4>2 DEF PeopleStep
    <3>8. TakenJoins(u, s0, n)
      <4> SUFFICES ASSUME NEW d \in Events, NEW q \in PersonIds
                   PROVE  \/ u.participation[<<d, q>>] = s0.participation[<<d, q>>]
                          \/ u.participation[<<d, q>>].how \in {"wide", "mixed"}
                          \/ s0.people[q] = NoPerson
                          \/ ReviewedIn(s0, n, q)
        BY DEF TakenJoins
      <4>1. s.people[q] = s0.people[q] \/ s0.people[q] = NoPerson
        BY <2>0 DEF TakenPeople
      <4>2. CASE u.participation[<<d, q>>] = s.participation[<<d, q>>]
        <5>1. ReviewedIn(s0, n - 1, q) => ReviewedIn(s0, n, q)
          BY <1>1 DEF ReviewedIn
        <5> QED
          BY <2>0, <4>2, <5>1 DEF TakenJoins
      <4>3. CASE q = row.of /\ (row.seen # None => s.people[q].revision = row.seen)
        <5>1. s.people[q] = s0.people[q] => ReviewedIn(s0, n, q)
          BY <1>1, <4>3 DEF ReviewedIn, row
        <5> QED
          BY <4>1, <5>1
      <4> QED
        BY <3>4, <4>1, <4>2, <4>3 DEF JoinStep
    <3>9. TakenRoom(u, s0, n)
      <4>1. Cardinality(Free(u.people)) + 1 >= Cardinality(Free(s.people))
        BY <3>4, RoomShrinks
      <4> QED
        BY <1>1, <2>0, <4>1, FreeIsFinite DEF TakenRoom
    <3>10. TakenGone(u, s0)
      <4> SUFFICES ASSUME NEW d \in Events, NEW q \in PersonIds, s0.people[q].state = "gone"
                   PROVE  u.participation[<<d, q>>] = s0.participation[<<d, q>>]
        BY DEF TakenGone
      <4>1. s0.people[q] # NoPerson
        BY NobodyIsAbsent
      <4>2. s.people[q] = s0.people[q]
        BY <2>0, <4>1 DEF TakenPeople
      <4> QED
        BY <2>0, <3>4, <4>2 DEF TakenGone, GoneStep
    <3> QED
      BY <3>4, <3>5, <3>6, <3>7, <3>8, <3>9, <3>10 DEF Taken
  <2> QED
    BY <2>2, <2>3
<1> QED
  BY <1>2, <1>3

CommitRun(s0, f, n, g) == g = [k \in 0..n |-> IF k = 0 THEN s0 ELSE CommitRow(g[k - 1], f, k)]

CommitBase(c) == [ok |-> TRUE, people |-> people, participation |-> participation,
                  identifiers |-> identifiers, rows |-> c.rows]

LEMMA CommitRuns ==
    ASSUME NEW c, Len(c.rows) \in Nat
    PROVE  \E g : CommitRun(CommitBase(c), c.file, Len(c.rows), g) /\ CommitRows(c) = g[Len(c.rows)]
<1> DEFINE s0 == CommitBase(c)
           f == c.file
           len == Len(c.rows)
           Bad == {m \in 0..len : ~\E g : CommitRun(s0, f, m, g)}
<1> HIDE DEF s0, f
<1>1. Bad = {}
  <2> SUFFICES ASSUME Bad # {} PROVE FALSE
    OBVIOUS
  <2>1. Bad \subseteq Nat
    OBVIOUS
  <2>2. PICK m \in Bad : \A k \in Bad : m <= k
    BY <2>1, LeastOf
  <2>3. m # 0
    <3>1. CommitRun(s0, f, 0, [n \in 0..0 |-> s0])
      BY DEF CommitRun
    <3> QED
      BY <3>1
  <2>4. m \in Nat /\ m - 1 \in 0..len /\ m - 1 \notin Bad
    BY <2>2, <2>3
  <2>5. PICK g : CommitRun(s0, f, m - 1, g)
    BY <2>4
  <2> DEFINE h == [n \in 0..m |-> IF n = m THEN CommitRow(g[m - 1], f, m) ELSE g[n]]
  <2>6. \A n \in 0..m : h[n] = IF n = 0 THEN s0 ELSE CommitRow(h[n - 1], f, n)
    <3> TAKE n \in 0..m
    <3>1. CASE n = m
      <4>1. m - 1 \in 0..m /\ m - 1 # m
        BY <2>3, <2>4
      <4>2. h[m - 1] = g[m - 1] /\ h[m] = CommitRow(g[m - 1], f, m)
        BY <2>4, <4>1
      <4> QED
        BY <2>3, <3>1, <4>2
    <3>2. CASE n # m
      <4>1. n \in 0..(m - 1) /\ h[n] = g[n]
        BY <2>4, <3>2
      <4>2. g[n] = IF n = 0 THEN s0 ELSE CommitRow(g[n - 1], f, n)
        BY <2>5, <4>1 DEF CommitRun
      <4>3. n # 0 => n - 1 \in 0..m /\ n - 1 # m
        BY <2>4, <4>1
      <4>4. n # 0 => h[n - 1] = g[n - 1]
        BY <4>3
      <4> QED
        BY <4>1, <4>2, <4>4
    <3> QED
      BY <3>1, <3>2
  <2>7. h = [n \in 0..m |-> IF n = 0 THEN s0 ELSE CommitRow(h[n - 1], f, n)]
    BY <2>6
  <2>8. CommitRun(s0, f, m, h)
    BY <2>7 DEF CommitRun
  <2> QED
    BY <2>2, <2>8
<1>2. len \in 0..len
  OBVIOUS
<1>3. \E g : CommitRun(s0, f, len, g)
  BY <1>1, <1>2
<1> DEFINE run == CHOOSE g : g = [n \in 0..len |-> IF n = 0 THEN s0 ELSE CommitRow(g[n - 1], f, n)]
<1>4. CommitRun(s0, f, len, run)
  BY <1>3 DEF CommitRun
<1>5. CommitRows(c) = run[len]
  BY DEF CommitRows, CommitBase, s0, f
<1> QED
  BY <1>4, <1>5 DEF s0, f

\* What a commit that is not refused makes of the tables.
LEMMA CommitAll ==
    ASSUME NEW c \in ImportCall, c.file \in Files, Len(c.rows) = Len(FileRows[c.file]),
           CommitBase(c) \in CommitTables, Cardinality(Free(people)) >= Len(c.rows)
    PROVE  Taken(CommitRows(c), CommitBase(c), c.file, Len(c.rows))
<1> DEFINE s0 == CommitBase(c)
           f == c.file
           len == Len(c.rows)
<1>1. len \in Nat /\ s0.rows = c.rows /\ s0.people = people
  BY DEF CommitBase, ImportCall
<1>2. PICK g : CommitRun(s0, f, len, g) /\ CommitRows(c) = g[len]
  BY <1>1, CommitRuns
<1>3. /\ f \in Files /\ s0 \in CommitTables /\ Len(s0.rows) = Len(FileRows[f])
      /\ Cardinality(Free(s0.people)) >= Len(s0.rows) /\ Len(s0.rows) = len
  BY <1>1
<1>4. g[0] = s0 /\ \A n \in 1..len : g[n] = CommitRow(g[n - 1], f, n)
  <2> HIDE DEF s0, f, len
  <2> QED
    BY <1>1, <1>2 DEF CommitRun
<1> DEFINE Bad == {n \in 0..len : ~Taken(g[n], s0, f, n)}
<1> HIDE DEF s0, f, len
<1>5. Bad = {}
  <2> SUFFICES ASSUME Bad # {} PROVE FALSE
    OBVIOUS
  <2>1. Bad \subseteq Nat
    BY <1>1
  <2>2. PICK m \in Bad : \A k \in Bad : m <= k
    BY <2>1, LeastOf
  <2>3. m # 0
    BY <1>3, <1>4, TakenNothing
  <2>4. m \in 1..len /\ m - 1 \in 0..len /\ m - 1 \notin Bad
    BY <1>1, <2>2, <2>3
  <2>5. Taken(g[m - 1], s0, f, m - 1)
    BY <2>4
  <2>6. Taken(CommitRow(g[m - 1], f, m), s0, f, m)
    BY <1>3, <2>4, <2>5, TakenGrows
  <2> QED
    BY <1>4, <2>4, <2>6
<1>6. Taken(g[len], s0, f, len)
  BY <1>1, <1>5
<1> QED
  BY <1>2, <1>6 DEF s0, f, len

-----------------------------------------------------------------------------
(* Imports of people: what batches and requests rely on, of any tables.    *)

BatchFits(f, b, P, v, o) ==
    /\ RowsCoherent(P, f, b.rows)
    /\ b.version <= v[FileEvent[f]]
    /\ ~o => b.reviewed = b.version
    /\ ~b.raced => Undisputed(f, b.rows)
LaterIn(f, b, P, v) ==
    \A i \in DOMAIN FileRows[f], p \in PersonIds :
        /\ FileRows[f][i].kind # "wide" /\ b.rows[i].outcome = "none"
        /\ p \in ActiveWith(P, FileRows[f][i].email)
        /\ P[p].origin \in Files \ {f} /\ FileEvent[P[p].origin] = FileEvent[f]
        => v[FileEvent[f]] > b.version
RowsFit(c, P, B) ==
    /\ c.file \in Files /\ B[c.file].status # "none" /\ Len(c.rows) = Len(FileRows[c.file])
    /\ RowsCoherent(P, c.file, c.rows) /\ Descends(c.file, B[c.file].rows, c.rows)
CommitFits(c, B, v, o) ==
    /\ c.revision <= v[FileEvent[c.file]]
    /\ ~o => c.revision = c.version /\ c.version = B[c.file].version
    /\ \A i \in DOMAIN FileRows[c.file] : c.rows[i].error => Ignored(c.rows[i])
DecisionFits(c, P) ==
    /\ c.row \in DOMAIN FileRows[c.file] /\ ~c.rows[c.row].committed /\ c.status # None
    /\ c.version <= Len(FileRows[c.file]) /\ c.action # None
    /\ c.action = "choose" => c.person # None /\ Reviewed(P, c.person, c.revision)
ParticipantFits(c, v, o) ==
    /\ c.event # None /\ c.revision <= v[c.event]
    /\ ~o => c.revision = c.version
CallFits(c, P, B, v, o) ==
    /\ c.kind \in {"commit", "decide"} => RowsFit(c, P, B)
    /\ c.kind = "commit" => CommitFits(c, B, v, o)
    /\ c.kind = "decide" => DecisionFits(c, P)
    /\ c.kind \in {"delete", "participant"} => c.person # None /\ P[c.person] # NoPerson
    /\ c.kind = "participant" => ParticipantFits(c, v, o)

LEMMA CoherentFits ==
    /\ ImportCoherent <=>
          /\ ~overlapped => \A e \in Events : revision[e] = version[e]
          /\ \A f \in Files : batch[f].status # "none" =>
                BatchFits(f, batch[f], people, version, overlapped) /\ LaterIn(f, batch[f], people, version)
          /\ \A q \in Calls : CallFits(call[q], people, batch, version, overlapped)
    /\ ImportCoherent' <=>
          /\ ~overlapped' => \A e \in Events : revision'[e] = version'[e]
          /\ \A f \in Files : batch'[f].status # "none" =>
                /\ BatchFits(f, batch'[f], people', version', overlapped')
                /\ LaterIn(f, batch'[f], people', version')
          /\ \A q \in Calls : CallFits(call'[q], people', batch', version', overlapped')
<1>1. \A f : BatchCoherent(f) <=> BatchFits(f, batch[f], people, version, overlapped)
  BY DEF BatchCoherent, BatchFits
<1>2. \A f : LaterPeople(f) <=> LaterIn(f, batch[f], people, version)
  BY DEF LaterPeople, LaterIn
<1>3. \A q : CallCoherent(call[q]) <=> CallFits(call[q], people, batch, version, overlapped)
  BY DEF CallCoherent, CallFits, RowsFit, CommitFits, DecisionFits, ParticipantFits
<1>4. \A f : BatchCoherent(f)' <=> BatchFits(f, batch'[f], people', version', overlapped')
  BY DEF BatchCoherent, BatchFits, RowsCoherent, Undisputed, Reviewed
<1>5. \A f : LaterPeople(f)' <=> LaterIn(f, batch'[f], people', version')
  BY DEF LaterPeople, LaterIn, ActiveWith
<1>6. \A q : CallCoherent(call[q])' <=> CallFits(call'[q], people', batch', version', overlapped')
  BY DEF CallCoherent, CallFits, RowsFit, CommitFits, DecisionFits, ParticipantFits, RowsCoherent,
         Descends, Reviewed, Ignored
<1>7. ImportCoherent <=>
          /\ ~overlapped => \A e \in Events : revision[e] = version[e]
          /\ \A f \in Files : batch[f].status # "none" =>
                BatchFits(f, batch[f], people, version, overlapped) /\ LaterIn(f, batch[f], people, version)
          /\ \A q \in Calls : CallFits(call[q], people, batch, version, overlapped)
  BY <1>1, <1>2, <1>3 DEF ImportCoherent
<1>8. ImportCoherent' <=>
          /\ ~overlapped' => \A e \in Events : revision'[e] = version'[e]
          /\ \A f \in Files : batch'[f].status # "none" =>
                /\ BatchFits(f, batch'[f], people', version', overlapped')
                /\ LaterIn(f, batch'[f], people', version')
          /\ \A q \in Calls : CallFits(call'[q], people', batch', version', overlapped')
  BY <1>4, <1>5, <1>6 DEF ImportCoherent
<1> QED
  BY <1>7, <1>8

\* What a step may do to the people (P to P2), the versions (v to v2) and the batches (B to B2)
\* that others rely on.
Reviews(P, P2) == \A p \in PersonIds, n \in Nat : Reviewed(P, p, n) => Reviewed(P2, p, n)
StillThere(P, P2) == \A p \in PersonIds : P[p] # NoPerson => P2[p] # NoPerson
NoneImported(P, P2) ==
    \A p \in PersonIds : P2[p].state = "active" /\ P2[p].origin \in Files =>
        P[p].state = "active" /\ P[p].email = P2[p].email /\ P[p].origin = P2[p].origin
Origins(P, P2) ==
    \A p \in PersonIds : P[p].origin \in {"decided", "hand"} => P2[p].origin \in {"decided", "hand"}
Later(v, v2) == \A e \in Events : v[e] \in Nat /\ v2[e] \in Nat /\ v[e] <= v2[e]
BatchesDescend(B, B2) ==
    \A f \in Files : B[f].status # "none" =>
        B2[f].status # "none" /\ B2[f].version = B[f].version /\ Descends(f, B2[f].rows, B[f].rows)

LEMMA RowsKeep ==
    ASSUME NEW f \in Files, NEW rows \in Seq(ImportRow), Len(rows) = Len(FileRows[f]), NEW P, NEW P2,
           Reviews(P, P2), RowsCoherent(P, f, rows)
    PROVE  RowsCoherent(P2, f, rows)
<1> SUFFICES ASSUME NEW i \in DOMAIN FileRows[f]
             PROVE  /\ rows[i].of # None => rows[i].seen # None /\ Reviewed(P2, rows[i].of, rows[i].seen)
                    /\ /\ rows[i].action = None /\ rows[i].proposed = None /\ ~rows[i].error
                       /\ ~rows[i].erased
                       => rows[i].outcome = "none"
  BY DEF RowsCoherent
<1>1. i \in 1..Len(rows)
  BY FileFacts
<1>2. rows[i] \in ImportRow
  BY <1>1
<1>3. rows[i].of \in PersonIds \cup {None} /\ rows[i].seen \in Nat \cup {None}
  BY <1>2 DEF ImportRow
<1> QED
  BY <1>3 DEF RowsCoherent, Reviews

LEMMA DescendsOn ==
    ASSUME NEW f, NEW a, NEW b, NEW c, Descends(f, b, a), Descends(f, c, b)
    PROVE  Descends(f, c, a)
BY DEF Descends

LEMMA CallKeeps ==
    ASSUME NEW c \in ImportCall, NEW P, NEW P2, NEW B, NEW B2, NEW v, NEW v2, NEW o, NEW o2,
           CallFits(c, P, B, v, o), Reviews(P, P2), StillThere(P, P2), Later(v, v2), ~o2 => ~o,
           BatchesDescend(B, B2)
    PROVE  CallFits(c, P2, B2, v2, o2)
<1>1. /\ c.rows \in Seq(ImportRow) /\ c.revision \in Nat /\ c.person \in PersonIds \cup {None}
      /\ c.event \in Events \cup {None} /\ c.version \in Nat
  BY DEF ImportCall
<1>2. ASSUME RowsFit(c, P, B) PROVE RowsFit(c, P2, B2)
  <2>1. RowsCoherent(P2, c.file, c.rows)
    BY <1>1, <1>2, RowsKeep DEF RowsFit
  <2>2. Descends(c.file, B2[c.file].rows, c.rows) /\ B2[c.file].status # "none"
    BY <1>2, DescendsOn DEF RowsFit, BatchesDescend
  <2> QED
    BY <1>2, <2>1, <2>2 DEF RowsFit
<1>3. ASSUME RowsFit(c, P, B), CommitFits(c, B, v, o) PROVE CommitFits(c, B2, v2, o2)
  <2>1. FileEvent[c.file] \in Events /\ B2[c.file].version = B[c.file].version
    BY <1>3, FileFacts DEF RowsFit, BatchesDescend
  <2>2. c.revision <= v2[FileEvent[c.file]]
    BY <1>1, <1>3, <2>1 DEF CommitFits, Later
  <2> QED
    BY <1>3, <2>1, <2>2 DEF CommitFits
<1>4. ASSUME DecisionFits(c, P) PROVE DecisionFits(c, P2)
  BY <1>1, <1>4 DEF DecisionFits, Reviews
<1>5. ASSUME ParticipantFits(c, v, o) PROVE ParticipantFits(c, v2, o2)
  BY <1>1, <1>5 DEF ParticipantFits, Later
<1>6. ASSUME c.person # None /\ P[c.person] # NoPerson PROVE c.person # None /\ P2[c.person] # NoPerson
  BY <1>1, <1>6 DEF StillThere
<1> QED
  BY <1>2, <1>3, <1>4, <1>5, <1>6 DEF CallFits

LEMMA BatchKeeps ==
    ASSUME NEW f \in Files, NEW b \in ImportBatch, Len(b.rows) = Len(FileRows[f]),
           NEW P, NEW P2, NEW v, NEW v2, NEW o, NEW o2,
           BatchFits(f, b, P, v, o), Reviews(P, P2), Later(v, v2), ~o2 => ~o
    PROVE  BatchFits(f, b, P2, v2, o2)
<1>1. b.rows \in Seq(ImportRow) /\ b.version \in Nat
  BY DEF ImportBatch
<1>2. RowsCoherent(P2, f, b.rows)
  BY <1>1, RowsKeep DEF BatchFits
<1>3. b.version <= v2[FileEvent[f]]
  BY <1>1, FileFacts DEF BatchFits, Later
<1> QED
  BY <1>2, <1>3 DEF BatchFits

LEMMA LaterKeeps ==
    ASSUME NEW f \in Files, NEW b \in ImportBatch, NEW b2, b2.version = b.version,
           \A i \in DOMAIN FileRows[f] : b2.rows[i].outcome = b.rows[i].outcome,
           NEW P, NEW P2, NEW v, NEW v2, LaterIn(f, b, P, v), NoneImported(P, P2), Later(v, v2)
    PROVE  LaterIn(f, b2, P2, v2)
<1> SUFFICES ASSUME NEW i \in DOMAIN FileRows[f], NEW p \in PersonIds,
                    FileRows[f][i].kind # "wide", b2.rows[i].outcome = "none",
                    p \in ActiveWith(P2, FileRows[f][i].email),
                    P2[p].origin \in Files \ {f}, FileEvent[P2[p].origin] = FileEvent[f]
             PROVE  v2[FileEvent[f]] > b2.version
  BY DEF LaterIn
<1>1. p \in ActiveWith(P, FileRows[f][i].email) /\ P[p].origin = P2[p].origin
  BY DEF ActiveWith, NoneImported
<1>2. v[FileEvent[f]] > b.version
  BY <1>1 DEF LaterIn
<1>3. b.version \in Nat
  BY DEF ImportBatch
<1> QED
  BY <1>2, <1>3, FileFacts DEF Later

LEMMA BatchesStay ==
    ASSUME NEW B
    PROVE  BatchesDescend(B, B)
BY DEF BatchesDescend, Descends

LEMMA ImportTypes ==
    ASSUME ImportTypeOK
    PROVE  /\ people \in PeopleTable /\ participation \in ParticipationTable
           /\ identifiers \in IdentifierTable
           /\ \A q \in Calls : call[q] \in ImportCall
           /\ \A e \in Events : revision[e] \in Nat /\ version[e] \in Nat /\ revision[e] <= version[e]
           /\ \A f \in Files : batch[f] \in ImportBatch
           /\ \A f \in Files : batch[f].status # "none" => Len(batch[f].rows) = Len(FileRows[f])
BY DEF ImportTypeOK, PeopleTable, ParticipationTable, IdentifierTable

OneIn(P, B, o) ==
    \A p, q \in PersonIds :
        /\ p # q /\ P[p].state = "active" /\ P[q].state = "active"
        /\ P[p].origin \in Files /\ P[q].origin \in Files
        /\ P[p].email # None /\ P[p].email = P[q].email
        => \/ P[p].origin = P[q].origin
           \/ FileEvent[P[p].origin] # FileEvent[P[q].origin]
           \/ o \/ B[P[p].origin].raced \/ B[P[q].origin].raced

LEMMA IdentityKeeps ==
    ASSUME NEW P, NEW P2, NEW B, NEW B2, NEW o, NEW o2, OneIn(P, B, o), NoneImported(P, P2),
           \A f \in Files : B[f].raced => B2[f].raced, ~o2 => ~o
    PROVE  OneIn(P2, B2, o2)
<1> SUFFICES ASSUME NEW p \in PersonIds, NEW q \in PersonIds,
                    p # q, P2[p].state = "active", P2[q].state = "active",
                    P2[p].origin \in Files, P2[q].origin \in Files,
                    P2[p].email # None, P2[p].email = P2[q].email
             PROVE  \/ P2[p].origin = P2[q].origin
                    \/ FileEvent[P2[p].origin] # FileEvent[P2[q].origin]
                    \/ o2 \/ B2[P2[p].origin].raced \/ B2[P2[q].origin].raced
  BY DEF OneIn
<1>1. /\ P[p].state = "active" /\ P[p].email = P2[p].email /\ P[p].origin = P2[p].origin
      /\ P[q].state = "active" /\ P[q].email = P2[q].email /\ P[q].origin = P2[q].origin
  BY DEF NoneImported
<1>2. \/ P[p].origin = P[q].origin
      \/ FileEvent[P[p].origin] # FileEvent[P[q].origin]
      \/ o \/ B[P[p].origin].raced \/ B[P[q].origin].raced
  BY <1>1 DEF OneIn
<1> QED
  BY <1>1, <1>2

LEMMA OneIdentityIn ==
    /\ OneIdentity <=> OneIn(people, batch, overlapped)
    /\ OneIdentity' <=> OneIn(people', batch', overlapped')
BY DEF OneIdentity, OneIn

HonouredRow(row, P) ==
    CASE row.action = "ignore" -> row.person = None
      [] row.action = "choose" -> row.person = row.resolved
      [] row.action = "create" ->
            IF row.proposed # None THEN row.person = row.proposed
            ELSE row.person # None /\ P[row.person].origin \in {"decided", "hand"}
      [] OTHER -> row.proposed # None => row.person = row.proposed
HonouredIn(f, b, P) ==
    \A i \in DOMAIN b.rows :
        b.rows[i].committed /\ ~b.raced /\ FileRows[f][i].kind # "wide" /\ ~MatchLost(b.rows[i])
            => HonouredRow(b.rows[i], P)

LEMMA HonouredFits ==
    /\ DecisionsHonoured <=> \A f \in Files : HonouredIn(f, batch[f], people)
    /\ DecisionsHonoured' <=> \A f \in Files : HonouredIn(f, batch'[f], people')
BY DEF DecisionsHonoured, HonouredIn, HonouredRow, MatchLost

LEMMA HonouredKeeps ==
    ASSUME NEW f, NEW b \in ImportBatch, NEW P, NEW P2, HonouredIn(f, b, P), Origins(P, P2)
    PROVE  HonouredIn(f, b, P2)
<1> SUFFICES ASSUME NEW i \in DOMAIN b.rows, b.rows[i].committed, ~b.raced, FileRows[f][i].kind # "wide",
                    ~MatchLost(b.rows[i])
             PROVE  HonouredRow(b.rows[i], P2)
  BY DEF HonouredIn
<1>1. b.rows \in Seq(ImportRow)
  BY DEF ImportBatch
<1>2. b.rows[i] \in ImportRow
  BY <1>1
<1>3. b.rows[i].person \in PersonIds \cup {None}
  BY <1>2 DEF ImportRow
<1>4. CASE b.rows[i].action = "create" /\ b.rows[i].proposed = None
  <2>1. b.rows[i].person # None /\ P[b.rows[i].person].origin \in {"decided", "hand"}
    BY <1>4 DEF HonouredIn, HonouredRow
  <2>2. P2[b.rows[i].person].origin \in {"decided", "hand"}
    BY <1>3, <2>1 DEF Origins
  <2> QED
    BY <1>4, <2>1, <2>2 DEF HonouredRow
<1> QED
  BY <1>4 DEF HonouredIn, HonouredRow

LEMMA QuietStep ==
    ASSUME ImportSafe, ImportTypeOK', batch' = batch,
           Reviews(people, people'), StillThere(people, people'), NoneImported(people, people'),
           Origins(people, people'), Later(version, version'), ~overlapped' => ~overlapped,
           ~overlapped' => \A e \in Events : revision'[e] = version'[e], DeletedStayOut',
           \A q \in Calls : call'[q] = call[q] \/ CallFits(call'[q], people', batch', version', overlapped')
    PROVE  ImportSafe'
<1>1. /\ ImportTypeOK /\ StaleOnlyAfterOverlap /\ BatchStatusHonest /\ DecisionsHonoured
      /\ OneIdentity /\ ImportCoherent
  BY DEF ImportSafe
<1>2. StaleOnlyAfterOverlap' /\ BatchStatusHonest'
  BY <1>1 DEF StaleOnlyAfterOverlap, BatchStatusHonest
<1>3. OneIdentity'
  <2>1. OneIn(people', batch', overlapped')
    BY <1>1, OneIdentityIn, IdentityKeeps
  <2> QED
    BY <2>1, OneIdentityIn
<1>4. DecisionsHonoured'
  <2>1. \A f \in Files : HonouredIn(f, batch[f], people')
    BY <1>1, HonouredFits, HonouredKeeps, ImportTypes
  <2> QED
    BY <2>1, HonouredFits
<1>5. ASSUME NEW f \in Files, batch'[f].status # "none"
      PROVE  /\ BatchFits(f, batch'[f], people', version', overlapped')
             /\ LaterIn(f, batch'[f], people', version')
  <2>1. /\ batch[f] \in ImportBatch /\ Len(batch[f].rows) = Len(FileRows[f])
        /\ BatchFits(f, batch[f], people, version, overlapped) /\ LaterIn(f, batch[f], people, version)
    BY <1>1, <1>5, CoherentFits, ImportTypes
  <2>2. BatchFits(f, batch[f], people', version', overlapped')
    BY <2>1, BatchKeeps
  <2>3. LaterIn(f, batch[f], people', version')
    BY <2>1, LaterKeeps
  <2> QED
    BY <2>2, <2>3
<1>6. ASSUME NEW q \in Calls
      PROVE  CallFits(call'[q], people', batch', version', overlapped')
  <2>1. CallFits(call[q], people, batch, version, overlapped) /\ call[q] \in ImportCall
    BY <1>1, CoherentFits, ImportTypes
  <2>2. CallFits(call[q], people', batch', version', overlapped')
    BY <2>1, CallKeeps, BatchesStay
  <2> QED
    BY <2>2
<1>7. ImportCoherent'
  BY <1>5, <1>6, CoherentFits
<1> QED
  BY <1>2, <1>3, <1>4, <1>7 DEF ImportSafe

-----------------------------------------------------------------------------
(* Imports of people: requests that read, and edits by hand.               *)

LEMMA PeopleSame ==
    ASSUME NEW P
    PROVE  Reviews(P, P) /\ StillThere(P, P) /\ NoneImported(P, P) /\ Origins(P, P)
BY DEF Reviews, StillThere, NoneImported, Origins

LEMMA NoCallFits ==
    /\ NoCall \in ImportCall /\ NoCall.kind = "none"
    /\ \A P, B, v, o : CallFits(NoCall, P, B, v, o)
<1>1. NoCall.kind = "none"
  BY DEF NoCall
<1>2. NoCall \in ImportCall
  <2> DEFINE none == <<>>
  <2>1. none \in Seq(ImportRow)
    OBVIOUS
  <2> HIDE DEF none
  <2>2. [kind |-> "none", file |-> None, row |-> 0, person |-> None, event |-> None,
         action |-> None, status |-> None, revision |-> 0, version |-> 0, rows |-> none] \in ImportCall
    BY <2>1 DEF ImportCall
  <2> QED
    BY <2>2 DEF NoCall, none
<1> QED
  BY <1>1, <1>2 DEF CallFits

LEMMA CallOnly ==
    ASSUME ImportSafe, UNCHANGED <<people, participation, identifiers, revision, version, batch, overlapped>>,
           edits' \in 0..MaxEdits, NEW q \in Calls, NEW c \in ImportCall, call' = [call EXCEPT ![q] = c],
           CallFits(c, people, batch, version, overlapped)
    PROVE  ImportSafe'
<1>1. ImportTypeOK /\ DeletedStayOut /\ ImportCoherent
  BY DEF ImportSafe
<1>2. call' \in [Calls -> ImportCall]
  BY <1>1 DEF ImportTypeOK
<1>3. ImportTypeOK'
  BY <1>1, <1>2 DEF ImportTypeOK
<1>4. DeletedStayOut'
  BY <1>1 DEF DeletedStayOut, Participates
<1>5. \A x \in Calls : call'[x] = call[x] \/ CallFits(call'[x], people', batch', version', overlapped')
  BY <1>1 DEF ImportTypeOK
<1>6. Later(version, version')
  BY <1>1, ImportTypes DEF Later
<1>7. ~overlapped' => \A e \in Events : revision'[e] = version'[e]
  BY <1>1 DEF ImportCoherent
<1>8. /\ Reviews(people, people') /\ StillThere(people, people') /\ NoneImported(people, people')
      /\ Origins(people, people')
  BY PeopleSame
<1> QED
  BY <1>3, <1>4, <1>5, <1>6, <1>7, <1>8, QuietStep

LEMMA BeginDecisionSafe ==
    ASSUME ImportSafe, NEW q \in Calls, NEW f \in Files, NEW i \in DOMAIN FileRows[f],
           NEW action \in {"choose", "create", "ignore"}, NEW p \in PersonIds \cup {None},
           BeginDecision(q, f, i, action, p)
    PROVE  ImportSafe'
<1> DEFINE b == batch[f]
           n == IF p = None THEN 0 ELSE people[p].revision
           c == [NoCall EXCEPT !.kind = "decide", !.file = f, !.row = i, !.action = action, !.person = p,
                               !.revision = n, !.version = b.conflicts, !.status = b.status,
                               !.rows = b.rows]
<1>1. ImportTypeOK /\ ImportCoherent /\ BatchStatusHonest
  BY DEF ImportSafe
<1>2. /\ b \in ImportBatch /\ b.status # "none" /\ Len(b.rows) = Len(FileRows[f])
      /\ b.conflicts <= Len(FileRows[f]) /\ ~b.rows[i].committed
  BY <1>1, ImportTypes DEF BeginDecision, ImportTypeOK
<1>3. b.status # "COMMITTED"
  BY <1>1, <1>2 DEF BatchStatusHonest
<1>4. b.status \in {"REVIEW", "READY"} /\ b.rows \in Seq(ImportRow) /\ b.conflicts \in Nat
  BY <1>2, <1>3 DEF ImportBatch
<1>5. p # None => people[p] \in PersonRow /\ people[p].state = "active"
  BY <1>1, ImportTypes, NobodyIsAbsent DEF BeginDecision, PeopleTable
<1>6. n \in Nat
  BY <1>5 DEF PersonRow
<1>7. i \in Nat
  BY FileFacts
<1>8. RowsCoherent(people, f, b.rows)
  BY <1>1, <1>2, CoherentFits DEF BatchFits
<1>9. action = "choose" => p # None
  BY DEF BeginDecision
<1>10. call' = [call EXCEPT ![q] = c] /\ UNCHANGED <<people, participation, identifiers, revision, version, batch, overlapped, edits>>
  BY DEF BeginDecision
<1>11. p # None => n = people[p].revision
  OBVIOUS
<1> HIDE DEF n
<1>12. /\ c.kind = "decide" /\ c.file = f /\ c.row = i /\ c.action = action /\ c.person = p
       /\ c.revision = n /\ c.version = b.conflicts /\ c.status = b.status /\ c.rows = b.rows
  BY DEF NoCall
<1>13. c \in ImportCall
  BY <1>4, <1>6, <1>7, NoCallFits DEF ImportCall
<1> HIDE DEF c
<1>14. RowsFit(c, people, batch)
  BY <1>2, <1>8, <1>12 DEF RowsFit, Descends
<1>15. DecisionFits(c, people)
  <2>1. p # None => Reviewed(people, p, n)
    BY <1>5, <1>11, PersonIsThere DEF Reviewed
  <2>2. b.status # None /\ action # None
    <3>1. None \notin {"choose", "create", "ignore", "REVIEW", "READY"}
      BY ProgramImportAssumption
    <3> QED
      BY <1>4, <3>1
  <2> QED
    BY <1>2, <1>9, <1>12, <2>1, <2>2 DEF DecisionFits
<1>16. CallFits(c, people, batch, version, overlapped)
  BY <1>12, <1>14, <1>15 DEF CallFits
<1>17. edits' \in 0..MaxEdits
  BY <1>1, <1>10 DEF ImportTypeOK
<1> QED
  BY <1>10, <1>13, <1>16, <1>17, CallOnly

LEMMA BeginCommitSafe ==
    ASSUME ImportSafe, NEW q \in Calls, NEW f \in Files, BeginCommit(q, f)
    PROVE  ImportSafe'
<1> DEFINE b == batch[f]
           e == FileEvent[f]
           c == [NoCall EXCEPT !.kind = "commit", !.file = f, !.revision = revision[e],
                               !.version = version[e], !.rows = b.rows]
<1>1. ImportTypeOK /\ ImportCoherent
  BY DEF ImportSafe
<1>2. /\ b \in ImportBatch /\ b.status # "none" /\ Len(b.rows) = Len(FileRows[f])
      /\ b.reviewed = revision[e] /\ \A i \in DOMAIN b.rows : b.rows[i].error => Ignored(b.rows[i])
  BY <1>1, ImportTypes DEF BeginCommit, Current
<1>3. b.rows \in Seq(ImportRow)
  BY <1>2 DEF ImportBatch
<1>4. e \in Events /\ revision[e] \in Nat /\ version[e] \in Nat /\ revision[e] <= version[e]
  BY <1>1, FileFacts, ImportTypes
<1>5. RowsCoherent(people, f, b.rows) /\ (~overlapped => b.reviewed = b.version)
  BY <1>1, <1>2, CoherentFits DEF BatchFits
<1>6. ~overlapped => revision[e] = version[e]
  BY <1>1, <1>4 DEF ImportCoherent
<1>7. call' = [call EXCEPT ![q] = c] /\ UNCHANGED <<people, participation, identifiers, revision, version, batch, overlapped, edits>>
  BY DEF BeginCommit
<1>8. /\ c.kind = "commit" /\ c.file = f /\ c.revision = revision[e] /\ c.version = version[e]
      /\ c.rows = b.rows
  BY DEF NoCall
<1>9. c \in ImportCall
  BY <1>3, <1>4, NoCallFits DEF ImportCall
<1> HIDE DEF c
<1>10. RowsFit(c, people, batch)
  BY <1>2, <1>5, <1>8 DEF RowsFit, Descends
<1>11. DOMAIN FileRows[f] = DOMAIN b.rows
  BY <1>2, <1>3, FileFacts
<1>12. CommitFits(c, batch, version, overlapped)
  BY <1>2, <1>4, <1>5, <1>6, <1>8, <1>11 DEF CommitFits
<1>13. CallFits(c, people, batch, version, overlapped)
  BY <1>8, <1>10, <1>12 DEF CallFits
<1>14. edits' \in 0..MaxEdits
  BY <1>1, <1>7 DEF ImportTypeOK
<1> QED
  BY <1>7, <1>9, <1>13, <1>14, CallOnly

LEMMA BeginDeleteSafe ==
    ASSUME ImportSafe, NEW q \in Calls, NEW p \in PersonIds, BeginDelete(q, p)
    PROVE  ImportSafe'
<1> DEFINE c == [NoCall EXCEPT !.kind = "delete", !.person = p, !.revision = people[p].revision]
<1>1. ImportTypeOK
  BY DEF ImportSafe
<1>2. people[p] \in PersonRow
  BY <1>1, ImportTypes, NobodyIsAbsent DEF BeginDelete, OnRecord, PeopleTable
<1>3. people[p].revision \in Nat /\ people[p] # NoPerson
  BY <1>2, PersonIsThere DEF PersonRow
<1>4. call' = [call EXCEPT ![q] = c] /\ UNCHANGED <<people, participation, identifiers, revision, version, batch, overlapped>>
  BY DEF BeginDelete
<1>5. edits' \in 0..MaxEdits
  BY <1>1, ProgramImportAssumption DEF BeginDelete, Edit, ImportTypeOK
<1>6. c.kind = "delete" /\ c.person = p
  BY DEF NoCall
<1>7. c \in ImportCall
  BY <1>3, NoCallFits DEF ImportCall
<1> HIDE DEF c
<1>8. p # None
  BY ProgramImportAssumption
<1>9. CallFits(c, people, batch, version, overlapped)
  BY <1>3, <1>6, <1>8 DEF CallFits
<1> QED
  BY <1>4, <1>5, <1>7, <1>9, CallOnly

LEMMA BeginParticipantSafe ==
    ASSUME ImportSafe, NEW q \in Calls, NEW e \in Events, NEW p \in PersonIds, BeginParticipant(q, e, p)
    PROVE  ImportSafe'
<1> DEFINE c == [NoCall EXCEPT !.kind = "participant", !.event = e, !.person = p,
                               !.revision = revision[e], !.version = version[e]]
<1>1. ImportTypeOK /\ ImportCoherent
  BY DEF ImportSafe
<1>2. people[p] # NoPerson
  BY NobodyIsAbsent DEF BeginParticipant
<1>3. revision[e] \in Nat /\ version[e] \in Nat /\ revision[e] <= version[e]
  BY <1>1, ImportTypes
<1>4. call' = [call EXCEPT ![q] = c] /\ UNCHANGED <<people, participation, identifiers, revision, version, batch, overlapped>>
  BY DEF BeginParticipant
<1>5. edits' \in 0..MaxEdits
  BY <1>1, ProgramImportAssumption DEF BeginParticipant, Edit, ImportTypeOK
<1>6. /\ c.kind = "participant" /\ c.person = p /\ c.event = e /\ c.revision = revision[e]
      /\ c.version = version[e]
  BY DEF NoCall
<1>7. c \in ImportCall
  BY <1>3, NoCallFits DEF ImportCall
<1> HIDE DEF c
<1>8. p # None /\ e # None
  BY ProgramImportAssumption
<1>9. ParticipantFits(c, version, overlapped)
  BY <1>1, <1>3, <1>6, <1>8 DEF ParticipantFits, ImportCoherent
<1>10. CallFits(c, people, batch, version, overlapped)
  BY <1>2, <1>6, <1>8, <1>9 DEF CallFits
<1> QED
  BY <1>4, <1>5, <1>7, <1>10, CallOnly

LEMMA CreatePersonSafe ==
    ASSUME ImportSafe, NEW email \in Emails, NEW name \in Names, create_person(email, name)
    PROVE  ImportSafe'
<1> DEFINE x == [state |-> "active", email |-> email, name |-> name, revision |-> 0, raced |-> FALSE,
                 origin |-> "hand"]
<1>1. ImportTypeOK /\ ImportCoherent /\ DeletedStayOut
  BY DEF ImportSafe
<1>2. PICK p \in PersonIds : people[p] = NoPerson /\ people' = [people EXCEPT ![p] = x]
  BY DEF create_person
<1>3. /\ UNCHANGED <<participation, identifiers, revision, version, batch, call, overlapped>>
      /\ edits' \in 0..MaxEdits
  BY <1>1, ProgramImportAssumption DEF create_person, Edit, ImportTypeOK
<1>4. x \in PersonRow /\ x.state = "active" /\ x.origin = "hand" /\ x.origin \notin Files
  BY ProgramImportAssumption DEF PersonRow
<1> HIDE DEF x
<1>5. people \in PeopleTable
  BY <1>1, ImportTypes
<1>6. people'[p] = x /\ \A r \in PersonIds : r # p => people'[r] = people[r]
  BY <1>2, <1>5 DEF PeopleTable
<1>7. people' \in PeopleTable
  BY <1>2, <1>4, <1>5 DEF PeopleTable
<1>8. ImportTypeOK'
  BY <1>1, <1>3, <1>7 DEF ImportTypeOK, PeopleTable
<1>9. DeletedStayOut'
  BY <1>1, <1>3, <1>4, <1>6 DEF DeletedStayOut, Participates
<1>10. Reviews(people, people') /\ StillThere(people, people')
  BY <1>2, <1>4, <1>6, PersonIsThere DEF Reviews, Reviewed, StillThere
<1>11. NoneImported(people, people') /\ Origins(people, people')
  <2>1. NoneImported(people, people')
    BY <1>4, <1>6 DEF NoneImported
  <2> QED
    BY <1>4, <1>6, <2>1 DEF Origins
<1>12. Later(version, version')
  BY <1>1, <1>3, ImportTypes DEF Later
<1>13. ~overlapped' => \A e \in Events : revision'[e] = version'[e]
  BY <1>1, <1>3 DEF ImportCoherent
<1>14. \A q \in Calls : call'[q] = call[q] \/ CallFits(call'[q], people', batch', version', overlapped')
  BY <1>3
<1> QED
  BY <1>3, <1>8, <1>9, <1>10, <1>11, <1>12, <1>13, <1>14, QuietStep

\* The revision and the version of the events of a person go on together.
LEMMA TouchedTogether ==
    ASSUME ImportTypeOK, ImportCoherent, NEW p, overlapped' = overlapped,
           revision' = [e \in Events |-> IF e \in TouchedBy(p) THEN revision[e] + 1 ELSE revision[e]],
           version' = [e \in Events |-> IF Participates(e, p) THEN version[e] + 1 ELSE version[e]]
    PROVE  /\ Later(version, version') /\ (~overlapped' => \A e \in Events : revision'[e] = version'[e])
           /\ revision' \in [Events -> Nat] /\ version' \in [Events -> Nat]
           /\ \A e \in Events : revision'[e] <= version'[e]
<1>1. \A e \in Events : /\ revision[e] \in Nat /\ version[e] \in Nat /\ revision[e] <= version[e]
                        /\ ~overlapped => revision[e] = version[e]
  BY ImportTypes DEF ImportCoherent
<1>2. \A e \in Events : e \in TouchedBy(p) <=> Participates(e, p)
  BY DEF TouchedBy
<1>3. ASSUME NEW e \in Events
      PROVE  \/ revision'[e] = revision[e] /\ version'[e] = version[e]
             \/ revision'[e] = revision[e] + 1 /\ version'[e] = version[e] + 1
  BY <1>2
<1>4. Later(version, version')
  BY <1>1, <1>3 DEF Later
<1>5. ~overlapped' => \A e \in Events : revision'[e] = version'[e]
  BY <1>1, <1>3
<1>6. /\ revision' \in [Events -> Nat] /\ version' \in [Events -> Nat]
      /\ \A e \in Events : revision'[e] <= version'[e]
  BY <1>1, <1>3
<1> QED
  BY <1>4, <1>5, <1>6

LEMMA UpdatePersonSafe ==
    ASSUME ImportSafe, NEW p \in PersonIds, NEW email \in Emails, update_person(p, email)
    PROVE  ImportSafe'
<1> DEFINE x == [people[p] EXCEPT !.email = email, !.origin = "hand", !.revision = people[p].revision + 1]
<1>1. ImportTypeOK /\ ImportCoherent /\ DeletedStayOut
  BY DEF ImportSafe
<1>2. people[p] \in PersonRow /\ people \in PeopleTable
  BY <1>1, ImportTypes, NobodyIsAbsent DEF update_person, OnRecord, PeopleTable
<1>3. /\ people' = [people EXCEPT ![p] = x]
      /\ UNCHANGED <<participation, identifiers, batch, call, overlapped>> /\ edits' \in 0..MaxEdits
  <2>1. edits' \in 0..MaxEdits
    BY <1>1, ProgramImportAssumption DEF update_person, Edit, ImportTypeOK
  <2>2. people' = [people EXCEPT ![p] = x]
    BY DEF update_person
  <2> QED
    BY <2>1, <2>2 DEF update_person
<1>4. /\ people[p].revision \in Nat /\ x \in PersonRow /\ x.state = people[p].state
      /\ x.raced = people[p].raced /\ x.revision = people[p].revision + 1 /\ x.origin = "hand"
  <2> DEFINE old == people[p]
             n == old.revision + 1
  <2>1. old \in PersonRow /\ old.revision \in Nat /\ n \in Nat
    BY <1>2 DEF PersonRow
  <2>2. x = [old EXCEPT !.email = email, !.origin = "hand", !.revision = n]
    OBVIOUS
  <2> HIDE DEF old, n, x
  <2>3. x \in PersonRow /\ x.state = old.state /\ x.raced = old.raced /\ x.revision = n /\ x.origin = "hand"
    BY <2>1, <2>2 DEF PersonRow
  <2> QED
    BY <2>1, <2>3 DEF old, n
<1> HIDE DEF x
<1>5. people'[p] = x /\ \A r \in PersonIds : r # p => people'[r] = people[r]
  BY <1>2, <1>3 DEF PeopleTable
<1>6. people' \in PeopleTable
  BY <1>2, <1>3, <1>4 DEF PeopleTable
<1>7. /\ Later(version, version') /\ (~overlapped' => \A e \in Events : revision'[e] = version'[e])
      /\ revision' \in [Events -> Nat] /\ version' \in [Events -> Nat]
      /\ \A e \in Events : revision'[e] <= version'[e]
  BY <1>1, <1>3, TouchedTogether DEF update_person
<1>8. ImportTypeOK'
  BY <1>1, <1>3, <1>6, <1>7 DEF ImportTypeOK, PeopleTable
<1>9. DeletedStayOut'
  BY <1>1, <1>3, <1>4, <1>5 DEF DeletedStayOut, Participates
<1>10. Reviews(people, people') /\ StillThere(people, people')
  <2>1. ASSUME NEW n \in Nat, Reviewed(people, p, n)
        PROVE  Reviewed(people', p, n)
    BY <1>4, <1>5, <2>1, PersonIsThere DEF Reviewed
  <2>2. ASSUME NEW r \in PersonIds, NEW n \in Nat, r # p, Reviewed(people, r, n)
        PROVE  Reviewed(people', r, n)
    BY <1>5, <2>2 DEF Reviewed
  <2>3. Reviews(people, people')
    BY <2>1, <2>2 DEF Reviews
  <2> QED
    BY <1>4, <1>5, <2>3, PersonIsThere DEF StillThere
<1>11. NoneImported(people, people') /\ Origins(people, people')
  <2>1. "hand" \notin Files
    BY ProgramImportAssumption
  <2>2. NoneImported(people, people')
    BY <1>4, <1>5, <2>1 DEF NoneImported
  <2> QED
    BY <1>4, <1>5, <2>2 DEF Origins
<1>12. \A q \in Calls : call'[q] = call[q] \/ CallFits(call'[q], people', batch', version', overlapped')
  BY <1>3
<1> QED
  BY <1>3, <1>7, <1>8, <1>9, <1>10, <1>11, <1>12, QuietStep

LEMMA ExternalIdentifierSafe ==
    ASSUME ImportSafe, NEW p \in PersonIds, NEW x \in ExternalIds, create_external_identifier(p, x)
    PROVE  ImportSafe'
<1>1. ImportTypeOK /\ ImportCoherent /\ DeletedStayOut
  BY DEF ImportSafe
<1>2. /\ UNCHANGED <<people, participation, batch, call, overlapped>> /\ edits' \in 0..MaxEdits
      /\ identifiers' = [identifiers EXCEPT ![x] = p]
  BY <1>1, ProgramImportAssumption DEF create_external_identifier, Edit, ImportTypeOK
<1>3. identifiers' \in [ExternalIds -> PersonIds \cup {None}]
  BY <1>1, <1>2 DEF ImportTypeOK
<1>4. /\ Later(version, version') /\ (~overlapped' => \A e \in Events : revision'[e] = version'[e])
      /\ revision' \in [Events -> Nat] /\ version' \in [Events -> Nat]
      /\ \A e \in Events : revision'[e] <= version'[e]
  BY <1>1, <1>2, TouchedTogether DEF create_external_identifier
<1>5. ImportTypeOK'
  BY <1>1, <1>2, <1>3, <1>4 DEF ImportTypeOK
<1>6. DeletedStayOut'
  BY <1>1, <1>2 DEF DeletedStayOut, Participates
<1>7. /\ Reviews(people, people') /\ StillThere(people, people') /\ NoneImported(people, people')
      /\ Origins(people, people')
  BY <1>2, PeopleSame
<1>8. \A q \in Calls : call'[q] = call[q] \/ CallFits(call'[q], people', batch', version', overlapped')
  BY <1>2
<1> QED
  BY <1>2, <1>4, <1>5, <1>6, <1>7, <1>8, QuietStep

LEMMA DeletePersonSafe ==
    ASSUME ImportSafe, NEW q \in Calls, delete_person(q)
    PROVE  ImportSafe'
<1> DEFINE c == call[q]
           p == c.person
           old == people[p]
           x == [old EXCEPT !.state = "deleted", !.revision = c.revision + 1,
                            !.raced = old.raced \/ old.revision # c.revision]
<1>0. CASE ~OnRecord(p)
  <2>1. /\ call' = [call EXCEPT ![q] = NoCall]
        /\ UNCHANGED <<people, participation, identifiers, revision, version, batch, overlapped, edits>>
    BY <1>0 DEF delete_person
  <2>2. edits' \in 0..MaxEdits
    BY <2>1 DEF ImportSafe, ImportTypeOK
  <2> QED
    BY <2>1, <2>2, NoCallFits, CallOnly
<1> SUFFICES ASSUME OnRecord(p) PROVE ImportSafe'
  BY <1>0
<1>1. ImportTypeOK /\ ImportCoherent /\ DeletedStayOut
  BY DEF ImportSafe
<1>2. /\ c.kind = "delete" /\ people' = [people EXCEPT ![p] = x] /\ call' = [call EXCEPT ![q] = NoCall]
      /\ participation' = [y \in Events \X PersonIds |->
                              IF y[2] = p THEN Raced(participation[y]) ELSE participation[y]]
      /\ UNCHANGED <<identifiers, revision, version, batch, overlapped, edits>>
  <2>1. people' = [people EXCEPT ![p] = x]
    BY DEF delete_person
  <2> QED
    BY <2>1 DEF delete_person
<1>3. c \in ImportCall /\ CallFits(c, people, batch, version, overlapped) /\ people \in PeopleTable
  BY <1>1, CoherentFits, ImportTypes
<1>4. p \in PersonIds /\ old # NoPerson /\ c.revision \in Nat
  BY <1>2, <1>3 DEF CallFits, ImportCall
<1>5. old \in PersonRow /\ old.state # "gone"
  BY <1>3, <1>4 DEF PeopleTable, OnRecord
<1>6. /\ x \in PersonRow /\ x.state = "deleted" /\ x.raced = (old.raced \/ old.revision # c.revision)
      /\ x.revision = c.revision + 1 /\ x.origin = old.origin /\ old.revision \in Nat
  <2> DEFINE n == c.revision + 1
             r == old.raced \/ old.revision # c.revision
  <2>1. n \in Nat /\ r \in BOOLEAN /\ old.revision \in Nat
    BY <1>4, <1>5 DEF PersonRow
  <2>2. x = [old EXCEPT !.state = "deleted", !.revision = n, !.raced = r]
    OBVIOUS
  <2> HIDE DEF n, r, old, x
  <2>3. x \in PersonRow /\ x.state = "deleted" /\ x.raced = r /\ x.revision = n /\ x.origin = old.origin
    BY <1>5, <2>1, <2>2 DEF PersonRow
  <2> QED
    BY <2>1, <2>3 DEF n, r
<1> HIDE DEF x, c
<1>7. people'[p] = x /\ \A r \in PersonIds : r # p => people'[r] = people[r]
  BY <1>2, <1>3, <1>4 DEF PeopleTable
<1>8. people' \in PeopleTable
  BY <1>2, <1>3, <1>4, <1>6 DEF PeopleTable
<1>9. participation \in ParticipationTable
  BY <1>1, ImportTypes
<1>10. ASSUME NEW y \in EventParticipation
       PROVE  /\ Raced(y) \in EventParticipation
              /\ Raced(y) = y \/ Raced(y).raced
              /\ y = NoParticipation => Raced(y) = NoParticipation
              /\ y # NoParticipation => Raced(y).raced
  BY DEF Raced, EventParticipation
<1>11. participation' \in ParticipationTable
  <2>1. ASSUME NEW y \in Events \X PersonIds
        PROVE  (IF y[2] = p THEN Raced(participation[y]) ELSE participation[y]) \in EventParticipation
    <3>1. participation[y] \in EventParticipation
      BY <1>9 DEF ParticipationTable
    <3> QED
      BY <1>10, <3>1
  <2> QED
    BY <1>2, <2>1 DEF ParticipationTable
<1>12. call' \in [Calls -> ImportCall] /\ \A y \in Calls : call'[y] = call[y] \/ call'[y] = NoCall
  BY <1>1, <1>2, NoCallFits DEF ImportTypeOK
<1>13. ImportTypeOK'
  BY <1>1, <1>2, <1>8, <1>11, <1>12 DEF ImportTypeOK, PeopleTable, ParticipationTable
<1>14. DeletedStayOut'
  <2> SUFFICES ASSUME NEW e \in Events, NEW r \in PersonIds, participation'[<<e, r>>] # NoParticipation
               PROVE  /\ people'[r].state # "gone"
                      /\ people'[r].state = "deleted" =>
                            \/ participation'[<<e, r>>].raced \/ people'[r].raced
                            \/ participation'[<<e, r>>].how \in {"wide", "mixed"}
    BY DEF DeletedStayOut, Participates
  <2>1. participation[<<e, r>>] \in EventParticipation
    BY <1>9 DEF ParticipationTable
  <2>2. participation'[<<e, r>>] = IF r = p THEN Raced(participation[<<e, r>>]) ELSE participation[<<e, r>>]
    BY <1>2
  <2>3. CASE r = p
    <3>1. participation[<<e, r>>] # NoParticipation
      BY <1>10, <2>1, <2>2, <2>3
    <3>2. participation'[<<e, r>>].raced
      BY <1>10, <2>1, <2>2, <2>3, <3>1
    <3> QED
      BY <1>6, <1>7, <2>3, <3>2
  <2>4. CASE r # p
    <3>1. people'[r] = people[r] /\ participation'[<<e, r>>] = participation[<<e, r>>]
      BY <1>7, <2>2, <2>4
    <3> QED
      BY <1>1, <3>1 DEF DeletedStayOut, Participates
  <2> QED
    BY <2>3, <2>4
<1>15. Reviews(people, people') /\ StillThere(people, people')
  <2>1. ASSUME NEW n \in Nat, Reviewed(people, p, n)
        PROVE  Reviewed(people', p, n)
    <3>1. x # NoPerson
      BY <1>6, PersonIsThere
    <3>2. CASE x.raced
      BY <1>7, <3>1, <3>2 DEF Reviewed
    <3>3. CASE ~x.raced
      <4>1. ~old.raced /\ old.revision = c.revision
        BY <1>6, <3>3
      <4>2. n <= old.revision
        BY <1>5, <1>6, <2>1, <4>1 DEF Reviewed
      <4>3. n < x.revision
        BY <1>4, <1>6, <4>1, <4>2
      <4> QED
        BY <1>7, <3>1, <4>3 DEF Reviewed
    <3> QED
      BY <3>2, <3>3
  <2>2. ASSUME NEW r \in PersonIds, NEW n \in Nat, r # p, Reviewed(people, r, n)
        PROVE  Reviewed(people', r, n)
    BY <1>7, <2>2 DEF Reviewed
  <2>3. Reviews(people, people')
    BY <2>1, <2>2 DEF Reviews
  <2>4. StillThere(people, people')
    BY <1>6, <1>7, PersonIsThere DEF StillThere
  <2> QED
    BY <2>3, <2>4
<1>16. NoneImported(people, people') /\ Origins(people, people')
  <2>1. NoneImported(people, people')
    BY <1>6, <1>7 DEF NoneImported
  <2>2. Origins(people, people')
    BY <1>6, <1>7 DEF Origins
  <2> QED
    BY <2>1, <2>2
<1>17. Later(version, version')
  BY <1>1, <1>2, ImportTypes DEF Later
<1>18. ~overlapped' => \A e \in Events : revision'[e] = version'[e]
  BY <1>1, <1>2 DEF ImportCoherent
<1>19. \A y \in Calls : call'[y] = call[y] \/ CallFits(call'[y], people', batch', version', overlapped')
  BY <1>12, NoCallFits
<1> QED
  BY <1>2, <1>13, <1>14, <1>15, <1>16, <1>17, <1>18, <1>19, QuietStep

\* touch_event_program with a revision that was once the program's.
LEMMA TouchedLate ==
    ASSUME ImportTypeOK, NEW e \in Events, NEW n \in Nat, n <= version[e], touch_event_program(e, n)
    PROVE  /\ Later(version, version') /\ revision' \in [Events -> Nat] /\ version' \in [Events -> Nat]
           /\ version'[e] = version[e] + 1 /\ revision'[e] = n + 1
           /\ \A d \in Events : d # e => revision'[d] = revision[d] /\ version'[d] = version[d]
           /\ \A d \in Events : revision'[d] <= version'[d]
<1>1. /\ revision' = [revision EXCEPT ![e] = n + 1]
      /\ version' = [version EXCEPT ![e] = version[e] + 1]
  BY DEF touch_event_program
<1>2. revision \in [Events -> Nat] /\ version \in [Events -> Nat] /\ \A d \in Events : revision[d] <= version[d]
  BY DEF ImportTypeOK
<1>3. /\ version'[e] = version[e] + 1 /\ revision'[e] = n + 1
      /\ \A d \in Events : d # e => revision'[d] = revision[d] /\ version'[d] = version[d]
  BY <1>1, <1>2
<1>4. \A d \in Events : revision'[d] <= version'[d]
  BY <1>2, <1>3
<1>5. Later(version, version')
  BY <1>2, <1>3 DEF Later
<1>6. revision' \in [Events -> Nat] /\ version' \in [Events -> Nat]
  BY <1>1, <1>2
<1> QED
  BY <1>3, <1>4, <1>5, <1>6

LEMMA CreateParticipantSafe ==
    ASSUME ImportSafe, NEW q \in Calls, create_participant(q)
    PROVE  ImportSafe'
<1> DEFINE c == call[q]
<1>1. ImportTypeOK /\ ImportCoherent /\ DeletedStayOut
  BY DEF ImportSafe
<1>2. c \in ImportCall /\ CallFits(c, people, batch, version, overlapped) /\ c.kind = "participant"
  BY <1>1, CoherentFits, ImportTypes DEF create_participant
<1>3. call' = [call EXCEPT ![q] = NoCall] /\ UNCHANGED <<people, identifiers, batch, edits>>
  BY DEF create_participant
<1>4. CASE Participates(c.event, c.person) \/ ~OnRecord(c.person)
  <2>1. UNCHANGED <<participation, revision, version, overlapped>>
    BY <1>4 DEF create_participant
  <2>2. edits' \in 0..MaxEdits
    BY <1>1, <1>3 DEF ImportTypeOK
  <2> QED
    BY <1>3, <2>1, <2>2, NoCallFits, CallOnly
<1>5. CASE ~Participates(c.event, c.person) /\ OnRecord(c.person)
  <2> DEFINE e == c.event
             p == c.person
             x == [how |-> "api", raced |-> people[p].state = "deleted"]
  <2>1. /\ participation' = [participation EXCEPT ![<<e, p>>] = x]
        /\ touch_event_program(e, c.revision) /\ overlapped' = (overlapped \/ version[e] # c.version)
    BY <1>5 DEF create_participant
  <2>2. /\ e \in Events /\ p \in PersonIds /\ c.revision \in Nat /\ c.revision <= version[e]
        /\ ~overlapped => c.revision = c.version
    BY <1>2 DEF CallFits, ParticipantFits, ImportCall
  <2>3. /\ x \in EventParticipation /\ (people[p].state = "deleted" => x.raced)
        /\ people[p].state # "gone"
    BY <1>5 DEF EventParticipation, OnRecord
  <2> HIDE DEF x, c
  <2>4. participation \in ParticipationTable
    BY <1>1, ImportTypes
  <2>5. participation' \in ParticipationTable
    BY <2>1, <2>3, <2>4 DEF ParticipationTable
  <2>6. \A d \in Events, r \in PersonIds :
            participation'[<<d, r>>] = IF d = e /\ r = p THEN x ELSE participation[<<d, r>>]
    BY <2>1, <2>2, <2>4 DEF ParticipationTable
  <2>7. /\ Later(version, version') /\ revision' \in [Events -> Nat] /\ version' \in [Events -> Nat]
        /\ version'[e] = version[e] + 1 /\ revision'[e] = c.revision + 1
        /\ \A d \in Events : d # e => revision'[d] = revision[d] /\ version'[d] = version[d]
        /\ \A d \in Events : revision'[d] <= version'[d]
    BY <1>1, <2>1, <2>2, TouchedLate
  <2>8. overlapped' \in BOOLEAN /\ (~overlapped' => ~overlapped /\ version[e] = c.version)
    BY <1>1, <2>1 DEF ImportTypeOK
  <2>9. call' \in [Calls -> ImportCall] /\ \A y \in Calls : call'[y] = call[y] \/ call'[y] = NoCall
    BY <1>1, <1>3, NoCallFits DEF ImportTypeOK
  <2>10. ImportTypeOK'
    BY <1>1, <1>3, <2>5, <2>7, <2>8, <2>9 DEF ImportTypeOK, ParticipationTable
  <2>11. DeletedStayOut'
    BY <1>1, <1>3, <2>3, <2>6 DEF DeletedStayOut, Participates
  <2>12. ~overlapped' => \A d \in Events : revision'[d] = version'[d]
    BY <1>1, <2>2, <2>7, <2>8 DEF ImportCoherent
  <2>13. \A y \in Calls : call'[y] = call[y] \/ CallFits(call'[y], people', batch', version', overlapped')
    BY <2>9, NoCallFits
  <2>14. /\ Reviews(people, people') /\ StillThere(people, people') /\ NoneImported(people, people')
         /\ Origins(people, people')
    BY <1>3, PeopleSame
  <2> QED
    BY <1>3, <2>7, <2>8, <2>10, <2>11, <2>12, <2>13, <2>14, QuietStep
<1> QED
  BY <1>4, <1>5

-----------------------------------------------------------------------------
(* Imports of people: staging and decisions.                               *)

StatusIn(f, b) ==
    LET done == \A i \in DOMAIN FileRows[f] : b.rows[i].committed
    IN  /\ b.status = "COMMITTED" => done
        /\ done /\ FileRows[f] # <<>> /\ ~b.raced => b.status = "COMMITTED"

LEMMA BatchStep ==
    ASSUME ImportSafe, ImportTypeOK', NEW f \in Files,
           UNCHANGED <<people, participation, revision, version, overlapped>>,
           \A g \in Files : g # f => batch'[g] = batch[g],
           batch[f].raced => batch'[f].raced, BatchesDescend(batch, batch'),
           BatchFits(f, batch'[f], people, version, overlapped), LaterIn(f, batch'[f], people, version),
           HonouredIn(f, batch'[f], people), StatusIn(f, batch'[f]),
           batch'[f].status = "COMMITTED" =>
                batch[f].status = "COMMITTED" /\ batch'[f].checked = batch[f].checked
                /\ batch'[f].version = batch[f].version,
           \A q \in Calls : call'[q] = call[q] \/ call'[q] = NoCall
    PROVE  ImportSafe'
<1>1. /\ ImportTypeOK /\ StaleOnlyAfterOverlap /\ DeletedStayOut /\ BatchStatusHonest /\ DecisionsHonoured
      /\ OneIdentity /\ ImportCoherent
  BY DEF ImportSafe
<1>2. StaleOnlyAfterOverlap'
  BY <1>1 DEF StaleOnlyAfterOverlap
<1>3. DeletedStayOut'
  BY <1>1 DEF DeletedStayOut, Participates
<1>4. BatchStatusHonest'
  BY <1>1 DEF BatchStatusHonest, StatusIn
<1>5. DecisionsHonoured'
  <2>1. \A g \in Files : HonouredIn(g, batch'[g], people)
    BY <1>1, HonouredFits
  <2> QED
    BY <2>1, HonouredFits
<1>6. OneIdentity'
  <2>1. OneIn(people, batch', overlapped)
    BY <1>1, OneIdentityIn, IdentityKeeps, PeopleSame
  <2> QED
    BY <2>1, OneIdentityIn
<1>7. \A g \in Files : batch'[g].status # "none" =>
            BatchFits(g, batch'[g], people, version, overlapped) /\ LaterIn(g, batch'[g], people, version)
  BY <1>1, CoherentFits
<1>8. Later(version, version)
  BY <1>1, ImportTypes DEF Later
<1>9. ASSUME NEW q \in Calls
      PROVE  CallFits(call'[q], people, batch', version, overlapped)
  <2>1. CallFits(call[q], people, batch, version, overlapped) /\ call[q] \in ImportCall
    BY <1>1, CoherentFits, ImportTypes
  <2>2. CallFits(call[q], people, batch', version, overlapped)
    BY <1>8, <2>1, CallKeeps, PeopleSame
  <2> QED
    BY <2>2, NoCallFits
<1>10. ~overlapped' => \A e \in Events : revision'[e] = version'[e]
  BY <1>1 DEF ImportCoherent
<1>11. ImportCoherent'
  BY <1>7, <1>9, <1>10, CoherentFits
<1> QED
  BY <1>2, <1>3, <1>4, <1>5, <1>6, <1>11 DEF ImportSafe

\* What _match_person makes of a row.
LEMMA MatchFacts ==
    ASSUME ImportTypeOK, NEW r \in FileRow
    PROVE  LET m == _match_person(r)
           IN  \/ \E p \in PersonIds : people[p].state = "active" /\ m = Exact(p)
               \/ \E outcome \in {"ambiguous", "strong", "conflict"} : m = Doubt(outcome)
               \/ m = Doubt("none") /\ (r.kind # "wide" => ActiveWith(people, r.email) = {})
<1> DEFINE m == _match_person(r)
           referred == IF r.ref = None THEN None ELSE identifiers[r.ref]
           mailed == ActiveWith(people, r.email)
           named == {p \in PersonIds : people[p].state = "active" /\ people[p].name = r.name}
           byEmail == CASE Cardinality(mailed) = 1 -> Exact(CHOOSE p \in mailed : TRUE)
                        [] Cardinality(mailed) > 1 -> Doubt("ambiguous")
                        [] mailed = {} /\ Cardinality(named) = 1 -> Doubt("strong")
                        [] mailed = {} /\ Cardinality(named) > 1 -> Doubt("ambiguous")
                        [] OTHER -> Doubt("none")
<1>1. r.id \in PersonIds \cup {None} /\ r.ref \in ExternalIds \cup {None}
  BY DEF FileRow
<1>2. referred \in PersonIds \cup {None}
  BY <1>1 DEF ImportTypeOK
<1>3. IsFiniteSet(mailed) /\ mailed \subseteq PersonIds /\ \A p \in mailed : people[p].state = "active"
  BY ProgramImportAssumption, FS_Subset DEF ActiveWith
<1>4. Cardinality(mailed) \in Nat /\ (Cardinality(mailed) = 0 <=> mailed = {})
  BY <1>3, FS_CardinalityType, FS_EmptySet
<1>5. m = IF r.kind = "wide" /\ r.email = None THEN Doubt("none")
          ELSE IF r.id # None /\ people[r.id].state = "active" THEN Exact(r.id)
          ELSE IF r.id # None /\ people[r.id].state # "active" THEN Doubt("conflict")
          ELSE IF r.id = None /\ referred # None /\ people[referred].state = "active" THEN Exact(referred)
          ELSE byEmail
  BY DEF _match_person
<1> HIDE DEF m, referred, mailed, named, byEmail
<1>6. \/ \E p \in PersonIds : people[p].state = "active" /\ byEmail = Exact(p)
      \/ \E outcome \in {"ambiguous", "strong", "conflict"} : byEmail = Doubt(outcome)
      \/ byEmail = Doubt("none") /\ mailed = {}
  <2>1. CASE Cardinality(mailed) = 1
    <3>1. (CHOOSE p \in mailed : TRUE) \in mailed
      BY <1>4, <2>1
    <3>2. byEmail = Exact(CHOOSE p \in mailed : TRUE)
      BY <1>4, <2>1 DEF byEmail
    <3> QED
      BY <1>3, <3>1, <3>2
  <2>2. CASE Cardinality(mailed) > 1
    <3>1. byEmail = Doubt("ambiguous")
      BY <1>4, <2>2 DEF byEmail
    <3> QED
      BY <3>1
  <2>3. CASE mailed = {}
    <3>1. Cardinality(mailed) = 0
      BY <1>4, <2>3
    <3>2. byEmail \in {Doubt("strong"), Doubt("ambiguous"), Doubt("none")}
      BY <2>3, <3>1 DEF byEmail
    <3> QED
      BY <2>3, <3>2
  <2> QED
    BY <1>4, <2>1, <2>2, <2>3
<1>7. \/ \E p \in PersonIds : people[p].state = "active" /\ m = Exact(p)
      \/ \E outcome \in {"ambiguous", "strong", "conflict"} : m = Doubt(outcome)
      \/ m = Doubt("none") /\ (r.kind # "wide" => mailed = {})
  BY <1>1, <1>2, <1>5, <1>6
<1> QED
  BY <1>7 DEF m, mailed

MatchFits(m, r) ==
    /\ m.outcome \in {"exact", "ambiguous", "strong", "conflict", "none"}
    /\ m.proposed \in PersonIds \cup {None} /\ m.seen \in Nat \cup {None} /\ m.of \in PersonIds \cup {None}
    /\ m.conflict \in BOOLEAN
    /\ m.of # None => m.seen # None /\ Reviewed(people, m.of, m.seen)
    /\ m.proposed = None => m.outcome # "exact"
    /\ m.outcome = "none" /\ r.kind # "wide" => ActiveWith(people, r.email) = {}

LEMMA StagedFacts ==
    ASSUME ImportTypeOK, NEW r \in FileRow
    PROVE  /\ StagedRow(r) \in ImportRow /\ ~StagedRow(r).committed
           /\ StagedRow(r).resolved = None /\ StagedRow(r).action = None
           /\ StagedRow(r).of # None =>
                 StagedRow(r).seen # None /\ Reviewed(people, StagedRow(r).of, StagedRow(r).seen)
           /\ StagedRow(r).proposed = None /\ ~StagedRow(r).error => StagedRow(r).outcome = "none"
           /\ StagedRow(r).outcome = "none" /\ r.kind # "wide" => ActiveWith(people, r.email) = {}
<1> DEFINE x == StagedRow(r)
           m == _match_person(r)
<1>1. x = [outcome |-> m.outcome, proposed |-> m.proposed, seen |-> m.seen, of |-> m.of,
           conflict |-> m.conflict, error |-> m.outcome \notin {"exact", "none"},
           resolved |-> None, action |-> None, committed |-> FALSE, person |-> None,
           erased |-> FALSE]
  BY DEF StagedRow
<1>2. \/ \E p \in PersonIds : people[p].state = "active" /\ m = Exact(p)
      \/ \E outcome \in {"ambiguous", "strong", "conflict"} : m = Doubt(outcome)
      \/ m = Doubt("none") /\ (r.kind # "wide" => ActiveWith(people, r.email) = {})
  BY MatchFacts
<1>3. people \in PeopleTable
  BY ImportTypes
<1> HIDE DEF x, m
<1>4. /\ x.outcome = m.outcome /\ x.proposed = m.proposed /\ x.seen = m.seen /\ x.of = m.of
      /\ x.error = (m.outcome \notin {"exact", "none"}) /\ x.resolved = None /\ x.action = None
      /\ x.committed = FALSE
  BY <1>1
<1>5. MatchFits(m, r)
  <2>1. ASSUME NEW p \in PersonIds, people[p].state = "active", m = Exact(p)
        PROVE  MatchFits(m, r)
    <3>1. people[p] \in PersonRow
      BY <1>3, <2>1, NobodyIsAbsent DEF PeopleTable
    <3>2. people[p].revision \in Nat
      BY <3>1 DEF PersonRow
    <3>3. /\ m.outcome = "exact" /\ m.proposed = p /\ m.seen = people[p].revision /\ m.of = p
          /\ m.conflict = FALSE
      BY <2>1 DEF Exact
    <3>4. Reviewed(people, p, people[p].revision)
      BY <2>1, <3>1, PersonIsThere DEF Reviewed
    <3>5. p # None /\ people[p].revision # None
      BY <3>2, ProgramImportAssumption
    <3> QED
      BY <3>2, <3>3, <3>4, <3>5 DEF MatchFits
  <2>2. ASSUME NEW outcome \in {"ambiguous", "strong", "conflict", "none"}, m = Doubt(outcome),
               outcome = "none" /\ r.kind # "wide" => ActiveWith(people, r.email) = {}
        PROVE  MatchFits(m, r)
    <3>1. /\ m.outcome = outcome /\ m.proposed = None /\ m.seen = None /\ m.of = None
          /\ m.conflict \in BOOLEAN
      BY <2>2 DEF Doubt
    <3> QED
      BY <2>2, <3>1 DEF MatchFits
  <2> QED
    BY <1>2, <2>1, <2>2
<1>6. x \in ImportRow
  BY <1>1, <1>5 DEF ImportRow, MatchFits
<1> QED
  BY <1>4, <1>5, <1>6 DEF x, MatchFits

LEMMA CreateBatchSafe ==
    ASSUME ImportSafe, NEW f \in Files, create_batch(f)
    PROVE  ImportSafe'
<1> DEFINE rows == [i \in DOMAIN FileRows[f] |-> StagedRow(FileRows[f][i])]
           e == FileEvent[f]
           n == Cardinality({i \in DOMAIN rows : rows[i].conflict})
           status == StagedStatus(rows)
           b == [status |-> status, reviewed |-> revision[e], version |-> version[e],
                 checked |-> 0, rows |-> rows, raced |-> FALSE, conflicts |-> n]
<1>1. ImportTypeOK /\ ImportCoherent
  BY DEF ImportSafe
<1>2. /\ batch[f].status = "none" /\ batch' = [batch EXCEPT ![f] = b]
      /\ UNCHANGED <<people, participation, identifiers, revision, version, call, overlapped, edits>>
  BY DEF create_batch
<1>3. ASSUME NEW i \in DOMAIN FileRows[f]
      PROVE  /\ rows[i] = StagedRow(FileRows[f][i])
             /\ rows[i] \in ImportRow /\ ~rows[i].committed
             /\ rows[i].resolved = None /\ rows[i].action = None
             /\ rows[i].of # None => rows[i].seen # None /\ Reviewed(people, rows[i].of, rows[i].seen)
             /\ rows[i].proposed = None /\ ~rows[i].error => rows[i].outcome = "none"
             /\ rows[i].outcome = "none" /\ FileRows[f][i].kind # "wide"
                   => ActiveWith(people, FileRows[f][i].email) = {}
  <2>1. FileRows[f][i] \in FileRow /\ rows[i] = StagedRow(FileRows[f][i])
    BY FileFacts
  <2> QED
    BY <1>1, <2>1, StagedFacts
<1>4. DOMAIN FileRows[f] = 1..Len(FileRows[f]) /\ Len(FileRows[f]) \in Nat /\ e \in Events
  BY FileFacts
<1>5. rows \in Seq(ImportRow) /\ Len(rows) = Len(FileRows[f])
  <2>1. rows = [i \in 1..Len(FileRows[f]) |-> StagedRow(FileRows[f][i])]
    BY <1>4
  <2>2. \A i \in 1..Len(FileRows[f]) : StagedRow(FileRows[f][i]) \in ImportRow
    BY <1>3, <1>4
  <2> QED
    BY <1>4, <2>1, <2>2
<1>6. n \in Nat /\ n <= Len(FileRows[f])
  <2>1. DOMAIN rows = 1..Len(FileRows[f])
    BY <1>4
  <2>2. IsFiniteSet(1..Len(FileRows[f])) /\ Cardinality(1..Len(FileRows[f])) = Len(FileRows[f])
    BY <1>4, FS_Interval
  <2>3. {i \in DOMAIN rows : rows[i].conflict} \subseteq 1..Len(FileRows[f])
    BY <2>1
  <2> HIDE DEF rows
  <2> QED
    BY <2>2, <2>3, FS_Subset, FS_CardinalityType
<1>7. status \in {"REVIEW", "READY"}
  BY DEF StagedStatus
<1> HIDE DEF rows, n, status
<1>8. /\ b.rows = rows /\ ~b.raced /\ b.version = version[e] /\ b.reviewed = revision[e]
      /\ b.status = status /\ b.conflicts = n
  OBVIOUS
<1>9. b \in ImportBatch
  <2>1. revision[e] \in Nat /\ version[e] \in Nat
    BY <1>1, <1>4, ImportTypes
  <2> QED
    BY <1>5, <1>6, <1>7, <2>1 DEF ImportBatch
<1> HIDE DEF b
<1>10. batch'[f] = b /\ (\A g \in Files : g # f => batch'[g] = batch[g]) /\ batch' \in [Files -> ImportBatch]
  BY <1>1, <1>2, <1>9 DEF ImportTypeOK
<1>11. ImportTypeOK'
  <2>1. \A g \in Files : IF batch'[g].status = "none" THEN batch'[g] = NoBatch
                         ELSE Len(batch'[g].rows) = Len(FileRows[g]) /\ batch'[g].conflicts <= Len(FileRows[g])
    BY <1>1, <1>5, <1>6, <1>7, <1>8, <1>10 DEF ImportTypeOK
  <2> QED
    BY <1>1, <1>2, <1>10, <2>1 DEF ImportTypeOK
<1>12. batch[f].raced => batch'[f].raced
  BY <1>1, <1>2 DEF ImportTypeOK, NoBatch
<1>13. BatchesDescend(batch, batch')
  BY <1>2, <1>10 DEF BatchesDescend, Descends
<1>14. BatchFits(f, b, people, version, overlapped)
  <2>1. RowsCoherent(people, f, b.rows)
    BY <1>3, <1>8 DEF RowsCoherent
  <2>2. Undisputed(f, b.rows)
    <3>1. None # "choose"
      BY ProgramImportAssumption
    <3> QED
      BY <1>3, <1>8, <3>1 DEF Undisputed
  <2>3. b.version <= version[e] /\ (~overlapped => b.reviewed = b.version)
    BY <1>1, <1>4, <1>8, ImportTypes DEF ImportCoherent
  <2> QED
    BY <2>1, <2>2, <2>3 DEF BatchFits
<1>15. LaterIn(f, b, people, version)
  BY <1>3, <1>8 DEF LaterIn
<1>16. \A i \in DOMAIN b.rows : ~b.rows[i].committed
  BY <1>3, <1>4, <1>5, <1>8
<1>17. HonouredIn(f, b, people)
  BY <1>16 DEF HonouredIn
<1>18. StatusIn(f, b)
  <2>1. FileRows[f] # <<>> => 1 \in DOMAIN FileRows[f]
    <3>1. FileRows[f] \in Seq(FileRow)
      BY FileFacts
    <3> QED
      BY <3>1
  <2>2. FileRows[f] # <<>> => ~b.rows[1].committed
    BY <1>3, <1>8, <2>1
  <2> QED
    BY <1>7, <1>8, <2>1, <2>2 DEF StatusIn
<1>19. b.status # "COMMITTED"
  BY <1>7, <1>8
<1> QED
  BY <1>2, <1>10, <1>11, <1>12, <1>13, <1>14, <1>15, <1>17, <1>18, <1>19, BatchStep

LEMMA DecideSafe ==
    ASSUME ImportSafe, NEW q \in Calls, decide(q)
    PROVE  ImportSafe'
<1> DEFINE c == call[q]
           f == c.file
           old == c.rows[c.row]
           b == batch[f]
           now == b.rows[c.row]
           resolved == CASE c.action = "choose" -> c.person
                         [] c.action = "create" -> None
                         [] OTHER -> old.resolved
           seen == Written(IF c.action = "choose" THEN c.revision ELSE old.seen, old.seen, now.seen)
           conflicts == IF old.conflict /\ c.version > 0 THEN c.version - 1 ELSE c.version
           status == IF conflicts = 0 THEN "READY" ELSE c.status
           resolved2 == Written(resolved, old.resolved, now.resolved)
           of2 == IF c.action = "choose" /\ seen = c.revision THEN c.person ELSE now.of
           action2 == Written(c.action, old.action, now.action)
           row == [now EXCEPT !.resolved = resolved2, !.seen = seen, !.of = of2, !.action = action2,
                              !.conflict = FALSE, !.error = FALSE]
           rows == [b.rows EXCEPT ![c.row] = row]
           conflicts2 == Written(conflicts, c.version, b.conflicts)
           status2 == Written(status, c.status, b.status)
           raced2 == b.raced \/ now # old
           b2 == [b EXCEPT !.rows = rows, !.conflicts = conflicts2, !.status = status2, !.raced = raced2]
<1>1. ImportTypeOK /\ ImportCoherent /\ BatchStatusHonest /\ DecisionsHonoured
  BY DEF ImportSafe
<1> DEFINE Refused == c.action = "choose" /\ ~OnRecord(c.person)
<1>0. CASE Refused
  <2>1. /\ call' = [call EXCEPT ![q] = NoCall]
        /\ UNCHANGED <<people, participation, identifiers, revision, version, batch, overlapped, edits>>
    BY <1>0 DEF decide
  <2>2. edits' \in 0..MaxEdits
    BY <1>1, <2>1 DEF ImportTypeOK
  <2> QED
    BY <2>1, <2>2, NoCallFits, CallOnly
<1> SUFFICES ASSUME ~Refused PROVE ImportSafe'
  BY <1>0
<1>2. /\ c.kind = "decide" /\ batch' = [batch EXCEPT ![f] = b2] /\ call' = [call EXCEPT ![q] = NoCall]
      /\ UNCHANGED <<people, participation, identifiers, revision, version, overlapped, edits>>
  BY DEF decide
<1> HIDE DEF Refused
<1>3. c \in ImportCall /\ CallFits(c, people, batch, version, overlapped)
  BY <1>1, CoherentFits, ImportTypes
<1>4. RowsFit(c, people, batch) /\ DecisionFits(c, people)
  BY <1>2, <1>3 DEF CallFits
<1>5. /\ f \in Files /\ b.status # "none" /\ Len(c.rows) = Len(FileRows[f])
      /\ Descends(f, b.rows, c.rows)
  BY <1>4 DEF RowsFit
<1>6. /\ c.row \in DOMAIN FileRows[f] /\ ~old.committed /\ c.status # None /\ c.version <= Len(FileRows[f])
      /\ c.action # None /\ (c.action = "choose" => c.person # None /\ Reviewed(people, c.person, c.revision))
  BY <1>4 DEF DecisionFits
<1>7. /\ b \in ImportBatch /\ Len(b.rows) = Len(FileRows[f])
      /\ BatchFits(f, b, people, version, overlapped) /\ LaterIn(f, b, people, version)
      /\ HonouredIn(f, b, people)
  BY <1>1, <1>5, CoherentFits, ImportTypes, HonouredFits
<1>8. StatusIn(f, b) /\ b.conflicts <= Len(FileRows[f])
  BY <1>1, <1>5 DEF BatchStatusHonest, StatusIn, ImportTypeOK
<1>9. /\ c.rows \in Seq(ImportRow) /\ c.person \in PersonIds \cup {None} /\ c.revision \in Nat /\ c.version \in Nat
      /\ c.status \in {None, "REVIEW", "READY"} /\ c.action \in {None, "choose", "create", "ignore"}
  BY <1>3 DEF ImportCall
<1>10. /\ b.rows \in Seq(ImportRow) /\ b.conflicts \in Nat /\ b.raced \in BOOLEAN
       /\ b.status \in {"none", "REVIEW", "READY", "COMMITTED"}
  BY <1>7 DEF ImportBatch
<1>11. DOMAIN FileRows[f] = 1..Len(FileRows[f]) /\ Len(FileRows[f]) \in Nat
  BY <1>5, FileFacts
<1>12. old \in ImportRow /\ now \in ImportRow
  BY <1>5, <1>6, <1>7, <1>9, <1>10, <1>11
<1>13. /\ old.resolved \in PersonIds \cup {None} /\ now.resolved \in PersonIds \cup {None}
       /\ old.seen \in Nat \cup {None} /\ now.seen \in Nat \cup {None} /\ now.of \in PersonIds \cup {None}
       /\ old.action \in {None, "choose", "create", "ignore"} /\ now.action \in {None, "choose", "create", "ignore"}
  BY <1>12 DEF ImportRow
<1>14. resolved2 \in PersonIds \cup {None} /\ seen \in Nat \cup {None} /\ of2 \in PersonIds \cup {None}
  BY <1>9, <1>13 DEF Written
<1>15. action2 \in {None, "choose", "create", "ignore"} /\ action2 # None
  <2>1. old.action # None => now.action # None
    BY <1>5, <1>6 DEF Descends
  <2> QED
    BY <1>6, <1>9, <1>13, <2>1 DEF Written
<1>16. of2 # None => seen # None /\ Reviewed(people, of2, seen)
  <2>1. now.of # None => now.seen # None /\ Reviewed(people, now.of, now.seen)
    BY <1>6, <1>7 DEF BatchFits, RowsCoherent
  <2>2. CASE c.action = "choose" /\ seen = c.revision
    <3>1. seen # None
      BY <1>9, <2>2, ProgramImportAssumption
    <3> QED
      BY <1>6, <2>2, <3>1
  <2>3. CASE ~(c.action = "choose" /\ seen = c.revision)
    <3>1. seen = now.seen /\ of2 = now.of
      BY <2>3 DEF Written
    <3> QED
      BY <2>1, <3>1
  <2> QED
    BY <2>2, <2>3
<1>17. now = old =>
          /\ action2 = c.action
          /\ c.action = "create" => resolved2 = None
          /\ c.action = "choose" => resolved2 # None
  BY <1>6 DEF Written
<1>18. conflicts2 \in Nat /\ conflicts2 <= Len(FileRows[f])
  <2>1. conflicts \in Nat /\ conflicts <= Len(FileRows[f])
    BY <1>6, <1>9, <1>11
  <2> HIDE DEF conflicts
  <2> QED
    BY <1>8, <1>10, <2>1 DEF Written
<1>19. /\ status2 \in {"REVIEW", "READY", "COMMITTED"}
       /\ status2 = "COMMITTED" => b.status = "COMMITTED"
  <2>1. status \in {"REVIEW", "READY"} /\ c.status \in {"REVIEW", "READY"}
    BY <1>6, <1>9
  <2> HIDE DEF status
  <2> QED
    BY <1>5, <1>10, <2>1 DEF Written
<1>20. b.status = "COMMITTED" => now # old
  BY <1>6, <1>8 DEF StatusIn
<1> HIDE DEF resolved2, seen, of2, action2, conflicts2, status2, resolved, conflicts, status
<1>21. /\ row \in ImportRow /\ row.resolved = resolved2 /\ row.seen = seen /\ row.of = of2 /\ row.action = action2
       /\ row.committed = now.committed /\ row.proposed = now.proposed /\ row.outcome = now.outcome
       /\ row.erased = now.erased
  <2>1. now \in ImportRow
    BY <1>12
  <2>2. resolved2 \in PersonIds \cup {None} /\ seen \in Nat \cup {None} /\ of2 \in PersonIds \cup {None}
    BY <1>14
  <2>3. action2 \in {None, "choose", "create", "ignore"}
    BY <1>15
  <2> HIDE DEF now
  <2>4. row \in ImportRow
    BY <2>1, <2>2, <2>3 DEF ImportRow
  <2>5. /\ row.resolved = resolved2 /\ row.seen = seen /\ row.of = of2 /\ row.action = action2
        /\ row.committed = now.committed /\ row.proposed = now.proposed /\ row.outcome = now.outcome
        /\ row.erased = now.erased
    BY <2>1 DEF ImportRow
  <2> QED
    BY <2>4, <2>5
<1> HIDE DEF row
<1>22. /\ rows \in Seq(ImportRow) /\ Len(rows) = Len(FileRows[f]) /\ rows[c.row] = row
       /\ \A i \in DOMAIN FileRows[f] : i # c.row => rows[i] = b.rows[i]
  BY <1>6, <1>7, <1>10, <1>11, <1>21
<1>23. raced2 \in BOOLEAN /\ (b.raced => raced2) /\ (~raced2 => ~b.raced /\ now = old)
  BY <1>10
<1> HIDE DEF rows, raced2
<1>24. /\ b2 \in ImportBatch /\ b2.rows = rows /\ b2.conflicts = conflicts2 /\ b2.status = status2
       /\ b2.raced = raced2 /\ b2.version = b.version /\ b2.reviewed = b.reviewed /\ b2.checked = b.checked
  <2> HIDE DEF b
  <2> QED
    BY <1>7, <1>18, <1>19, <1>22, <1>23 DEF ImportBatch
<1> HIDE DEF b2
<1>25. batch'[f] = b2 /\ (\A g \in Files : g # f => batch'[g] = batch[g]) /\ batch' \in [Files -> ImportBatch]
  BY <1>1, <1>2, <1>5, <1>24 DEF ImportTypeOK
<1>26. call' \in [Calls -> ImportCall] /\ \A y \in Calls : call'[y] = call[y] \/ call'[y] = NoCall
  BY <1>1, <1>2, NoCallFits DEF ImportTypeOK
<1> HIDE DEF c, b, now, old
<1>27. ImportTypeOK'
  <2>1. \A g \in Files : IF batch'[g].status = "none" THEN batch'[g] = NoBatch
                         ELSE Len(batch'[g].rows) = Len(FileRows[g]) /\ batch'[g].conflicts <= Len(FileRows[g])
    BY <1>1, <1>18, <1>19, <1>22, <1>24, <1>25 DEF ImportTypeOK
  <2> QED
    BY <1>1, <1>2, <1>25, <1>26, <2>1 DEF ImportTypeOK
<1>28. Descends(f, rows, b.rows)
  BY <1>15, <1>21, <1>22 DEF Descends, now
<1>29. BatchesDescend(batch, batch')
  <2>1. ASSUME NEW g \in Files, batch[g].status # "none"
        PROVE  /\ batch'[g].status # "none" /\ batch'[g].version = batch[g].version
               /\ Descends(g, batch'[g].rows, batch[g].rows)
    <3>1. CASE g = f
      BY <1>19, <1>24, <1>25, <1>28, <3>1 DEF b
    <3>2. CASE g # f
      BY <1>25, <2>1, <3>2 DEF Descends
    <3> QED
      BY <3>1, <3>2
  <2> QED
    BY <2>1 DEF BatchesDescend
<1>30. BatchFits(f, b2, people, version, overlapped)
  <2>1. RowsCoherent(people, f, rows)
    <3> SUFFICES ASSUME NEW i \in DOMAIN FileRows[f]
                 PROVE  /\ rows[i].of # None => rows[i].seen # None /\ Reviewed(people, rows[i].of, rows[i].seen)
                        /\ /\ rows[i].action = None /\ rows[i].proposed = None /\ ~rows[i].error
                           /\ ~rows[i].erased
                           => rows[i].outcome = "none"
      BY DEF RowsCoherent
    <3>1. CASE i = c.row
      BY <1>15, <1>16, <1>21, <1>22, <3>1
    <3>2. CASE i # c.row
      BY <1>7, <1>22, <3>2 DEF BatchFits, RowsCoherent
    <3> QED
      BY <3>1, <3>2
  <2>2. ~raced2 => Undisputed(f, rows)
    <3> SUFFICES ASSUME ~raced2, NEW i \in DOMAIN FileRows[f]
                 PROVE  /\ rows[i].action \in {None, "create"} => rows[i].resolved = None
                        /\ rows[i].action = "choose" => rows[i].resolved # None \/ rows[i].erased
      BY DEF Undisputed
    <3>1. CASE i = c.row
      BY <1>15, <1>17, <1>21, <1>22, <1>23, <3>1
    <3>2. CASE i # c.row
      BY <1>7, <1>22, <1>23, <3>2 DEF BatchFits, Undisputed
    <3> QED
      BY <3>1, <3>2
  <2> QED
    BY <1>7, <1>24, <2>1, <2>2 DEF BatchFits
<1>31. LaterIn(f, b2, people, version)
  BY <1>7, <1>21, <1>22, <1>24 DEF LaterIn, now
<1>32. HonouredIn(f, b2, people)
  <2>1. DOMAIN rows = DOMAIN FileRows[f] /\ DOMAIN b.rows = DOMAIN FileRows[f]
    BY <1>7, <1>10, <1>11, <1>22
  <2>2. CASE raced2
    BY <1>24, <2>2 DEF HonouredIn
  <2>3. CASE ~raced2
    <3>1. ~row.committed /\ ~b.raced
      BY <1>6, <1>21, <1>23, <2>3
    <3> QED
      BY <1>7, <1>22, <1>24, <2>1, <3>1 DEF HonouredIn
  <2> QED
    BY <2>2, <2>3
<1>33. StatusIn(f, b2)
  <2>1. \A i \in DOMAIN FileRows[f] : rows[i].committed = b.rows[i].committed
    BY <1>21, <1>22 DEF now
  <2>2. ~raced2 => ~rows[c.row].committed
    BY <1>6, <1>21, <1>22, <1>23
  <2> QED
    BY <1>6, <1>8, <1>19, <1>24, <2>1, <2>2 DEF StatusIn
<1>34. b2.status = "COMMITTED" =>
            b.status = "COMMITTED" /\ b2.checked = b.checked /\ b2.version = b.version
  BY <1>19, <1>24
<1>35. batch[f].raced => batch'[f].raced
  BY <1>23, <1>24, <1>25 DEF b
<1> QED
  BY <1>2, <1>5, <1>25, <1>26, <1>27, <1>29, <1>30, <1>31, <1>32, <1>33, <1>34, <1>35, BatchStep DEF b

-----------------------------------------------------------------------------
(* Imports of people: a permanent deletion.                                *)

\* What a permanent deletion leaves of a row: all but the matches, and these only together.
RowErased(row, x) ==
    /\ x \in ImportRow /\ x.outcome = row.outcome /\ x.action = row.action /\ x.seen = row.seen
    /\ x.of = row.of /\ x.error = row.error /\ x.committed = row.committed
    /\ x = row \/ (x.erased /\ x.proposed = None /\ x.resolved = None)

LEMMA UnmatchedFacts ==
    ASSUME NEW row \in ImportRow, NEW p
    PROVE  RowErased(row, Unmatched(row, p))
<1>1. CASE p \notin {row.proposed, row.resolved}
  BY <1>1 DEF Unmatched, RowErased
<1>2. CASE p \in {row.proposed, row.resolved}
  <2> DEFINE x == [row EXCEPT !.proposed = None, !.resolved = None, !.erased = TRUE]
  <2>1. Unmatched(row, p) = x
    BY <1>2 DEF Unmatched
  <2>2. x \in ImportRow
    BY DEF ImportRow
  <2>3. /\ x.outcome = row.outcome /\ x.action = row.action /\ x.seen = row.seen
        /\ x.of = row.of /\ x.error = row.error /\ x.committed = row.committed
        /\ x.erased /\ x.proposed = None /\ x.resolved = None
    BY DEF ImportRow
  <2> HIDE DEF x
  <2> QED
    BY <2>1, <2>2, <2>3 DEF RowErased
<1> QED
  BY <1>1, <1>2

LEMMA RowsAreSeq ==
    ASSUME NEW n \in Nat, NEW g \in [1..n -> ImportRow]
    PROVE  g \in Seq(ImportRow) /\ Len(g) = n
OBVIOUS

BatchErased(b, b2) ==
    /\ b2 \in ImportBatch /\ b2.status = b.status /\ b2.version = b.version /\ b2.reviewed = b.reviewed
    /\ b2.checked = b.checked /\ b2.conflicts = b.conflicts /\ b2.raced = b.raced
    /\ DOMAIN b2.rows = DOMAIN b.rows /\ Len(b2.rows) = Len(b.rows)
    /\ \A i \in DOMAIN b.rows : RowErased(b.rows[i], b2.rows[i])

LEMMA ErasedBatch ==
    ASSUME NEW b \in ImportBatch, NEW p,
           NEW b2, b2 = [b EXCEPT !.rows = [i \in DOMAIN b.rows |-> Unmatched(b.rows[i], p)]]
    PROVE  BatchErased(b, b2)
<1> DEFINE rows == [i \in DOMAIN b.rows |-> Unmatched(b.rows[i], p)]
<1>1. b.rows \in Seq(ImportRow) /\ Len(b.rows) \in Nat /\ DOMAIN b.rows = 1..Len(b.rows)
  BY DEF ImportBatch
<1>2. \A i \in DOMAIN b.rows : rows[i] = Unmatched(b.rows[i], p) /\ RowErased(b.rows[i], rows[i])
  BY <1>1, UnmatchedFacts
<1>3. rows \in [1..Len(b.rows) -> ImportRow]
  BY <1>1, <1>2 DEF RowErased
<1>4. DOMAIN rows = DOMAIN b.rows
  OBVIOUS
<1> HIDE DEF rows
<1>5. rows \in Seq(ImportRow) /\ Len(rows) = Len(b.rows)
  BY <1>1, <1>3, RowsAreSeq
<1>6. b2 = [b EXCEPT !.rows = rows]
  BY DEF rows
<1>7. /\ b2 \in ImportBatch /\ b2.rows = rows /\ b2.status = b.status /\ b2.version = b.version
      /\ b2.reviewed = b.reviewed /\ b2.checked = b.checked /\ b2.conflicts = b.conflicts /\ b2.raced = b.raced
  BY <1>5, <1>6 DEF ImportBatch
<1> QED
  BY <1>2, <1>4, <1>5, <1>7 DEF BatchErased

\* What others rely on of a batch holds without the matches as well.
LEMMA ErasedFits ==
    ASSUME NEW f \in Files, NEW b \in ImportBatch, Len(b.rows) = Len(FileRows[f]), NEW b2, BatchErased(b, b2),
           NEW P, NEW v, NEW o, BatchFits(f, b, P, v, o), HonouredIn(f, b, P)
    PROVE  /\ BatchFits(f, b2, P, v, o) /\ HonouredIn(f, b2, P) /\ Descends(f, b2.rows, b.rows)
           /\ \A i \in DOMAIN FileRows[f] : b2.rows[i].outcome = b.rows[i].outcome
           /\ \A i \in DOMAIN FileRows[f] : b2.rows[i].committed = b.rows[i].committed
<1>1. DOMAIN b.rows = DOMAIN FileRows[f] /\ DOMAIN b2.rows = DOMAIN FileRows[f]
  BY FileFacts DEF ImportBatch, BatchErased
<1>2. \A i \in DOMAIN FileRows[f] : RowErased(b.rows[i], b2.rows[i])
  BY <1>1 DEF BatchErased
<1>3. RowsCoherent(P, f, b2.rows)
  <2> SUFFICES ASSUME NEW i \in DOMAIN FileRows[f]
               PROVE  /\ b2.rows[i].of # None =>
                            b2.rows[i].seen # None /\ Reviewed(P, b2.rows[i].of, b2.rows[i].seen)
                      /\ /\ b2.rows[i].action = None /\ b2.rows[i].proposed = None
                         /\ ~b2.rows[i].error /\ ~b2.rows[i].erased
                         => b2.rows[i].outcome = "none"
    BY DEF RowsCoherent
  <2> QED
    BY <1>2 DEF RowErased, BatchFits, RowsCoherent
<1>4. ~b.raced => Undisputed(f, b2.rows)
  BY <1>2 DEF RowErased, BatchFits, Undisputed
<1>5. BatchFits(f, b2, P, v, o)
  BY <1>3, <1>4 DEF BatchFits, BatchErased
<1>6. HonouredIn(f, b2, P)
  <2> SUFFICES ASSUME NEW i \in DOMAIN FileRows[f], b2.rows[i].committed, ~b.raced,
                      FileRows[f][i].kind # "wide", ~MatchLost(b2.rows[i])
               PROVE  HonouredRow(b2.rows[i], P)
    BY <1>1 DEF HonouredIn, BatchErased
  <2>1. b2.rows[i] = b.rows[i]
    BY <1>2 DEF RowErased, MatchLost
  <2> QED
    BY <1>1, <2>1 DEF HonouredIn
<1>7. Descends(f, b2.rows, b.rows)
  BY <1>2 DEF RowErased, Descends
<1>8. /\ \A i \in DOMAIN FileRows[f] : b2.rows[i].outcome = b.rows[i].outcome
      /\ \A i \in DOMAIN FileRows[f] : b2.rows[i].committed = b.rows[i].committed
  BY <1>2 DEF RowErased
<1> QED
  BY <1>5, <1>6, <1>7, <1>8

LEMMA ErasePersonSafe ==
    ASSUME ImportSafe, NEW p \in PersonIds, NEW bulk \in BOOLEAN, erase_person(p, bulk)
    PROVE  ImportSafe'
<1> DEFINE x == [people[p] EXCEPT !.state = "gone"]
<1>1. /\ ImportTypeOK /\ StaleOnlyAfterOverlap /\ DeletedStayOut /\ BatchStatusHonest /\ DecisionsHonoured
      /\ OneIdentity /\ ImportCoherent
  BY DEF ImportSafe
<1>2. /\ people' = [people EXCEPT ![p] = x] /\ UNCHANGED <<call, overlapped>>
      /\ participation' = [y \in Events \X PersonIds |->
                              IF y[2] = p THEN NoParticipation ELSE participation[y]]
      /\ identifiers' = [y \in ExternalIds |-> IF identifiers[y] = p THEN None ELSE identifiers[y]]
  BY DEF erase_person
<1>3. people[p] \in PersonRow /\ people \in PeopleTable /\ participation \in ParticipationTable
  BY <1>1, ImportTypes, NobodyIsAbsent DEF erase_person, OnRecord, PeopleTable
<1>4. /\ x \in PersonRow /\ x.state = "gone" /\ x.revision = people[p].revision /\ x.raced = people[p].raced
      /\ x.origin = people[p].origin
  BY <1>3 DEF PersonRow
<1> HIDE DEF x
<1>5. people'[p] = x /\ (\A r \in PersonIds : r # p => people'[r] = people[r]) /\ people' \in PeopleTable
  BY <1>2, <1>3, <1>4 DEF PeopleTable
<1>6. \A d \in Events, r \in PersonIds :
          participation'[<<d, r>>] = IF r = p THEN NoParticipation ELSE participation[<<d, r>>]
  BY <1>2
<1>7. participation' \in ParticipationTable
  <2>1. NoParticipation \in EventParticipation
    BY DEF NoParticipation, EventParticipation
  <2> QED
    BY <1>2, <1>3, <2>1 DEF ParticipationTable
<1>8. identifiers' \in IdentifierTable
  BY <1>1, <1>2, ImportTypes DEF IdentifierTable
<1>9. /\ Later(version, version') /\ (~overlapped' => \A e \in Events : revision'[e] = version'[e])
      /\ revision' \in [Events -> Nat] /\ version' \in [Events -> Nat]
      /\ \A e \in Events : revision'[e] <= version'[e]
  <2>1. CASE bulk
    BY <1>1, <1>2, <2>1, TouchedTogether DEF erase_person
  <2>2. CASE ~bulk
    <3>1. revision' = revision /\ version' = version
      BY <2>2 DEF erase_person
    <3>2. Later(version, version')
      BY <1>1, <3>1, ImportTypes DEF Later
    <3> QED
      BY <1>1, <1>2, <3>1, <3>2 DEF ImportTypeOK, ImportCoherent
  <2> QED
    BY <2>1, <2>2
<1>10. edits' \in 0..MaxEdits
  BY <1>1, ProgramImportAssumption DEF erase_person, Edit, ImportTypeOK
<1>11. \A f \in Files : batch[f] \in ImportBatch /\ BatchErased(batch[f], batch'[f])
  <2> SUFFICES ASSUME NEW f \in Files PROVE batch[f] \in ImportBatch /\ BatchErased(batch[f], batch'[f])
    OBVIOUS
  <2>1. batch[f] \in ImportBatch
    BY <1>1, ImportTypes
  <2>2. batch'[f] = [batch[f] EXCEPT !.rows =
                        [i \in DOMAIN batch[f].rows |-> Unmatched(batch[f].rows[i], p)]]
    BY DEF erase_person
  <2> QED
    BY <2>1, <2>2, ErasedBatch
<1>12. DOMAIN batch' = Files /\ batch' = [f \in Files |-> batch'[f]]
  BY DEF erase_person
<1>13. batch' \in [Files -> ImportBatch]
  BY <1>11, <1>12 DEF BatchErased
<1>14. ImportTypeOK'
  <2>1. ASSUME NEW f \in Files
        PROVE  IF batch'[f].status = "none" THEN batch'[f] = NoBatch
               ELSE Len(batch'[f].rows) = Len(FileRows[f]) /\ batch'[f].conflicts <= Len(FileRows[f])
    <3>1. CASE batch'[f].status = "none"
      <4>1. batch[f] = NoBatch
        BY <1>1, <1>11, <3>1 DEF ImportTypeOK, BatchErased
      <4>2. NoBatch.rows = <<>>
        BY DEF NoBatch
      <4>3. batch'[f] = [batch[f] EXCEPT !.rows =
                            [i \in DOMAIN batch[f].rows |-> Unmatched(batch[f].rows[i], p)]]
        BY DEF erase_person
      <4>4. [i \in DOMAIN batch[f].rows |-> Unmatched(batch[f].rows[i], p)] = NoBatch.rows
        BY <4>1, <4>2
      <4>5. batch'[f] = [NoBatch EXCEPT !.rows = NoBatch.rows]
        BY <4>1, <4>3, <4>4
      <4>6. [NoBatch EXCEPT !.rows = NoBatch.rows] = NoBatch
        BY DEF NoBatch
      <4> QED
        BY <3>1, <4>5, <4>6
    <3>2. CASE batch'[f].status # "none"
      BY <1>1, <1>11, <3>2 DEF ImportTypeOK, BatchErased
    <3> QED
      BY <3>1, <3>2
  <2> QED
    BY <1>1, <1>2, <1>5, <1>7, <1>8, <1>9, <1>10, <1>13, <2>1
       DEF ImportTypeOK, PeopleTable, ParticipationTable, IdentifierTable
<1>15. DeletedStayOut'
  BY <1>1, <1>5, <1>6 DEF DeletedStayOut, Participates
<1>16. Reviews(people, people') /\ StillThere(people, people')
  <2>1. ASSUME NEW n \in Nat PROVE Reviewed(people', p, n)
    BY <1>4, <1>5, PersonIsThere DEF Reviewed
  <2>2. ASSUME NEW r \in PersonIds, NEW n \in Nat, r # p, Reviewed(people, r, n)
        PROVE  Reviewed(people', r, n)
    BY <1>5, <2>2 DEF Reviewed
  <2>3. Reviews(people, people')
    BY <2>1, <2>2 DEF Reviews
  <2> QED
    BY <1>4, <1>5, <2>3, PersonIsThere DEF StillThere
<1>17. NoneImported(people, people') /\ Origins(people, people')
  <2>1. NoneImported(people, people')
    BY <1>4, <1>5 DEF NoneImported
  <2> QED
    BY <1>4, <1>5, <2>1 DEF Origins
<1>18. ASSUME NEW f \in Files, batch[f].status # "none"
       PROVE  /\ BatchFits(f, batch'[f], people', version', overlapped')
              /\ LaterIn(f, batch'[f], people', version') /\ HonouredIn(f, batch'[f], people')
              /\ Descends(f, batch'[f].rows, batch[f].rows)
              /\ \A i \in DOMAIN FileRows[f] : batch'[f].rows[i].committed = batch[f].rows[i].committed
  <2>1. /\ batch[f] \in ImportBatch /\ Len(batch[f].rows) = Len(FileRows[f]) /\ BatchErased(batch[f], batch'[f])
        /\ BatchFits(f, batch[f], people, version, overlapped) /\ LaterIn(f, batch[f], people, version)
        /\ HonouredIn(f, batch[f], people)
    BY <1>1, <1>11, <1>18, CoherentFits, ImportTypes, HonouredFits
  <2>2. BatchFits(f, batch[f], people', version', overlapped')
    BY <1>2, <1>9, <1>16, <2>1, BatchKeeps
  <2>3. HonouredIn(f, batch[f], people')
    BY <1>17, <2>1, HonouredKeeps
  <2>4. /\ BatchFits(f, batch'[f], people', version', overlapped') /\ HonouredIn(f, batch'[f], people')
        /\ Descends(f, batch'[f].rows, batch[f].rows)
        /\ \A i \in DOMAIN FileRows[f] : batch'[f].rows[i].outcome = batch[f].rows[i].outcome
        /\ \A i \in DOMAIN FileRows[f] : batch'[f].rows[i].committed = batch[f].rows[i].committed
    BY <2>1, <2>2, <2>3, ErasedFits
  <2>5. LaterIn(f, batch'[f], people', version')
    BY <1>9, <1>17, <2>1, <2>4, LaterKeeps DEF BatchErased
  <2> QED
    BY <2>4, <2>5
<1>19. \A f \in Files : /\ batch'[f].status = batch[f].status /\ batch'[f].version = batch[f].version
                        /\ batch'[f].checked = batch[f].checked /\ batch'[f].raced = batch[f].raced
  BY <1>11 DEF BatchErased
<1>20. StaleOnlyAfterOverlap'
  BY <1>1, <1>2, <1>19 DEF StaleOnlyAfterOverlap
<1>21. BatchStatusHonest'
  BY <1>1, <1>18, <1>19 DEF BatchStatusHonest
<1>22. DecisionsHonoured'
  <2>1. ASSUME NEW f \in Files PROVE HonouredIn(f, batch'[f], people')
    <3>1. CASE batch[f].status # "none"
      BY <1>18, <3>1
    <3>2. CASE batch[f].status = "none"
      <4>1. batch[f] = NoBatch
        BY <1>1, <3>2 DEF ImportTypeOK
      <4>2. batch'[f] = NoBatch
        BY <1>14, <1>19, <3>2 DEF ImportTypeOK
      <4> QED
        BY <1>1, <1>17, <1>11, <4>1, <4>2, HonouredFits, HonouredKeeps
    <3> QED
      BY <3>1, <3>2
  <2> QED
    BY <2>1, HonouredFits
<1>23. OneIdentity'
  <2>1. OneIn(people, batch, overlapped) /\ \A f \in Files : batch[f].raced => batch'[f].raced
    BY <1>1, <1>19, OneIdentityIn
  <2>2. OneIn(people', batch', overlapped')
    BY <1>2, <1>17, <2>1, IdentityKeeps
  <2> QED
    BY <2>2, OneIdentityIn
<1>24. BatchesDescend(batch, batch')
  BY <1>18, <1>19 DEF BatchesDescend
<1>25. ASSUME NEW q \in Calls
       PROVE  CallFits(call'[q], people', batch', version', overlapped')
  <2>1. CallFits(call[q], people, batch, version, overlapped) /\ call[q] \in ImportCall
    BY <1>1, CoherentFits, ImportTypes
  <2>2. CallFits(call[q], people', batch', version', overlapped')
    BY <1>2, <1>9, <1>16, <1>24, <2>1, CallKeeps
  <2> QED
    BY <1>2, <2>2
<1>26. ImportCoherent'
  BY <1>9, <1>18, <1>19, <1>25, CoherentFits
<1> QED
  BY <1>14, <1>15, <1>20, <1>21, <1>22, <1>23, <1>26 DEF ImportSafe

-----------------------------------------------------------------------------
(* Imports of people: the commit.                                          *)

LEMMA TakenPeopleKeep ==
    ASSUME NEW s0, NEW s, NEW f, NEW n, TakenPeople(s, s0, f, n)
    PROVE  /\ Reviews(s0.people, s.people) /\ StillThere(s0.people, s.people)
           /\ Origins(s0.people, s.people)
<1>1. \A p \in PersonIds : s0.people[p] # NoPerson => s.people[p] = s0.people[p]
  BY DEF TakenPeople
<1>2. Reviews(s0.people, s.people)
  BY <1>1 DEF Reviews, Reviewed
<1>3. StillThere(s0.people, s.people)
  BY <1>1 DEF StillThere
<1>4. Origins(s0.people, s.people)
  <2>1. None \notin {"decided", "hand"}
    BY ProgramImportAssumption
  <2>2. \A p \in PersonIds : s0.people[p].origin \in {"decided", "hand"} => s0.people[p] # NoPerson
    BY <2>1, NobodyIsAbsent
  <2> QED
    BY <1>1, <2>2 DEF Origins
<1> QED
  BY <1>2, <1>3, <1>4

\* What is known of somebody whom a commit has made.
MadeBy(s, s0, f, p) ==
    \E i \in DOMAIN FileRows[f] :
        /\ ~s0.rows[i].committed /\ Makes(s0.people, f, i, s0.rows[i])
        /\ s.people[p].state = "active" /\ s.people[p].email = FileRows[f][i].email
        /\ s.people[p].origin = BroughtBy(f, s0.rows[i])

LEMMA BornFacts ==
    ASSUME NEW s0, NEW s, NEW f \in Files, NEW n, NEW p, BornOf(s, s0, f, n, p), Len(s0.rows) = Len(FileRows[f])
    PROVE  MadeBy(s, s0, f, p)
<1>1. PICK i \in 1..Len(s0.rows) :
              /\ ~s0.rows[i].committed /\ Makes(s0.people, f, i, s0.rows[i])
              /\ s.people[p] = NewRow(f, i, s0.rows[i])
  BY DEF BornOf
<1>2. i \in DOMAIN FileRows[f]
  BY FileFacts
<1>3. /\ s.people[p].state = "active" /\ s.people[p].email = FileRows[f][i].email
      /\ s.people[p].origin = BroughtBy(f, s0.rows[i])
  BY <1>1 DEF NewRow
<1> QED
  BY <1>1, <1>2, <1>3 DEF MadeBy

LEMMA BornOrigin ==
    ASSUME NEW s0, NEW s, NEW f \in Files, NEW n, NEW p, BornOf(s, s0, f, n, p), Len(s0.rows) = Len(FileRows[f])
    PROVE  s.people[p].origin \in {"decided", "unmatched", f}
<1>1. PICK i \in 1..Len(s0.rows) : s.people[p] = NewRow(f, i, s0.rows[i])
  BY DEF BornOf
<1> QED
  BY <1>1 DEF NewRow, BroughtBy

LEMMA CommittedStayOut ==
    ASSUME NEW s0, NEW s, NEW f \in Files, NEW n, Len(s0.rows) = Len(FileRows[f]),
           TakenPeople(s, s0, f, n), TakenJoins(s, s0, n), RowsCoherent(s0.people, f, s0.rows),
           s0.people \in PeopleTable, s0.rows \in Seq(ImportRow),
           NEW e \in Events, NEW p \in PersonIds, s.people[p].state = "deleted"
    PROVE  \/ s.participation[<<e, p>>] = s0.participation[<<e, p>>] /\ s.people[p] = s0.people[p]
           \/ s.people[p].raced
           \/ s.participation[<<e, p>>].how \in {"wide", "mixed"}
<1>1. ~BornOf(s, s0, f, n, p)
  BY BornFacts DEF MadeBy
<1>2. s.people[p] = s0.people[p]
  BY <1>1 DEF TakenPeople
<1>3. s0.people[p] # NoPerson /\ p # None
  BY <1>2, NobodyIsAbsent, ProgramImportAssumption
<1>4. CASE ReviewedIn(s0, n, p)
  <2>1. PICK i \in 1..Len(s0.rows) :
                p = s0.rows[i].of /\ (s0.rows[i].seen # None => s0.people[p].revision = s0.rows[i].seen)
    BY <1>4 DEF ReviewedIn
  <2>2. i \in DOMAIN FileRows[f]
    BY FileFacts
  <2>3. s0.rows[i].seen # None /\ Reviewed(s0.people, p, s0.rows[i].seen)
    BY <1>3, <2>1, <2>2 DEF RowsCoherent
  <2>4. s0.people[p] \in PersonRow
    BY <1>3 DEF PeopleTable
  <2>5. s0.people[p].revision \in Nat
    BY <2>4 DEF PersonRow
  <2>6. s0.people[p].raced
    BY <1>2, <2>1, <2>3, <2>5 DEF Reviewed
  <2> QED
    BY <1>2, <2>6
<1> QED
  BY <1>2, <1>3, <1>4 DEF TakenJoins

LEMMA CommitLater ==
    ASSUME NEW s0, NEW s, NEW f \in Files, NEW n, Len(s0.rows) = Len(FileRows[f]), TakenPeople(s, s0, f, n),
           NEW g \in Files, NEW b \in ImportBatch, NEW b2, b2.version = b.version,
           \A i \in DOMAIN FileRows[g] : b2.rows[i].outcome = b.rows[i].outcome,
           NEW v, NEW v2, LaterIn(g, b, s0.people, v), Later(v, v2), b.version <= v[FileEvent[g]],
           \A p : BornOf(s, s0, f, n, p) => v2[FileEvent[f]] > v[FileEvent[f]]
    PROVE  LaterIn(g, b2, s.people, v2)
<1> DEFINE P == s0.people
           P2 == s.people
<1> SUFFICES ASSUME NEW i \in DOMAIN FileRows[g], NEW p \in PersonIds,
                    FileRows[g][i].kind # "wide", b2.rows[i].outcome = "none",
                    p \in ActiveWith(P2, FileRows[g][i].email),
                    P2[p].origin \in Files \ {g}, FileEvent[P2[p].origin] = FileEvent[g]
             PROVE  v2[FileEvent[g]] > b2.version
  BY DEF LaterIn
<1>1. b.version \in Nat /\ FileEvent[g] \in Events /\ FileEvent[f] \in Events
  BY FileFacts DEF ImportBatch
<1>2. CASE P2[p] = P[p]
  <2>1. p \in ActiveWith(P, FileRows[g][i].email) /\ P[p].origin = P2[p].origin
    BY <1>2 DEF ActiveWith
  <2>2. v[FileEvent[g]] > b.version
    BY <2>1 DEF LaterIn
  <2> QED
    BY <1>1, <2>2 DEF Later
<1>3. CASE BornOf(s, s0, f, n, p)
  <2>1. P2[p].origin \in {"decided", "unmatched", f}
    BY <1>3, BornOrigin
  <2>2. P2[p].origin = f
    BY <2>1, ProgramImportAssumption
  <2>3. v2[FileEvent[g]] > v[FileEvent[g]]
    BY <1>3, <2>2
  <2> QED
    BY <1>1, <2>3 DEF Later
<1> QED
  BY <1>2, <1>3 DEF TakenPeople

\* Nobody whom a file does not ask for anew has an email that another file of the event has
\* brought in.
Fresh(P, f, rows) ==
    \A i \in DOMAIN FileRows[f], q \in PersonIds :
        /\ ~rows[i].committed /\ Makes(P, f, i, rows[i]) /\ rows[i].action # "create" /\ ~rows[i].erased
        /\ q \in ActiveWith(P, FileRows[f][i].email) /\ P[q].origin \in Files \ {f}
        => FileEvent[P[q].origin] # FileEvent[f]

Twins(P, P2, f, x, y) ==
    /\ P2[x].origin = f /\ P2[x].email # None
    /\ P2[y] = P[y] /\ P2[y].state = "active" /\ P2[y].email = P2[x].email
    /\ P2[y].origin \in Files \ {f} /\ FileEvent[P2[y].origin] = FileEvent[f]

LEMMA NoFreshTwin ==
    ASSUME NEW s0, NEW s, NEW f \in Files, NEW n, Len(s0.rows) = Len(FileRows[f]),
           Fresh(s0.people, f, s0.rows), NEW x, BornOf(s, s0, f, n, x), NEW y \in PersonIds
    PROVE  ~Twins(s0.people, s.people, f, x, y)
<1> SUFFICES ASSUME Twins(s0.people, s.people, f, x, y) PROVE FALSE
  OBVIOUS
<1>1. PICK i \in DOMAIN FileRows[f] :
              /\ ~s0.rows[i].committed /\ Makes(s0.people, f, i, s0.rows[i])
              /\ s.people[x].email = FileRows[f][i].email
              /\ s.people[x].origin = BroughtBy(f, s0.rows[i])
  <2>1. MadeBy(s, s0, f, x)
    BY BornFacts
  <2> QED
    BY <2>1 DEF MadeBy
<1>2. s0.rows[i].action # "create" /\ ~s0.rows[i].erased
  BY <1>1, ProgramImportAssumption DEF Twins, BroughtBy
<1>3. y \in ActiveWith(s0.people, FileRows[f][i].email) /\ s0.people[y].origin \in Files \ {f}
  BY <1>1 DEF ActiveWith, Twins
<1> QED
  BY <1>1, <1>2, <1>3 DEF Fresh, Twins

FreshFrom(s0, f, B, B2, o, o2) ==
    /\ OneIn(s0.people, B, o) /\ (~o2 => ~o) /\ \A g \in Files : B[g].raced => B2[g].raced
    /\ ~o2 /\ ~B2[f].raced => Fresh(s0.people, f, s0.rows)

LEMMA CommitIdentity ==
    ASSUME NEW s0, NEW s, NEW f \in Files, NEW n, Len(s0.rows) = Len(FileRows[f]), TakenPeople(s, s0, f, n),
           NEW B, NEW B2, NEW o, NEW o2, FreshFrom(s0, f, B, B2, o, o2)
    PROVE  OneIn(s.people, B2, o2)
<1> DEFINE P == s0.people
           P2 == s.people
<1>0. /\ OneIn(s0.people, B, o) /\ (~o2 => ~o) /\ \A g \in Files : B[g].raced => B2[g].raced
      /\ ~o2 /\ ~B2[f].raced => Fresh(s0.people, f, s0.rows)
  BY DEF FreshFrom
<1> SUFFICES ASSUME NEW p \in PersonIds, NEW q \in PersonIds,
                    p # q, P2[p].state = "active", P2[q].state = "active",
                    P2[p].origin \in Files, P2[q].origin \in Files,
                    P2[p].email # None, P2[p].email = P2[q].email, P2[p].origin # P2[q].origin,
                    FileEvent[P2[p].origin] = FileEvent[P2[q].origin], ~o2,
                    ~B2[P2[p].origin].raced, ~B2[P2[q].origin].raced
             PROVE  FALSE
  BY DEF OneIn
<1>1. ASSUME NEW x \in PersonIds, NEW y \in PersonIds, BornOf(s, s0, f, n, x), P2[x].origin \in Files,
             P2[y] = P[y], P2[y].state = "active", P2[y].origin \in Files, P2[x].origin # P2[y].origin,
             P2[x].email # None, P2[y].email = P2[x].email,
             FileEvent[P2[x].origin] = FileEvent[P2[y].origin], ~B2[P2[x].origin].raced
      PROVE  FALSE
  <2>1. P2[x].origin = f
    <3>1. P2[x].origin \in {"decided", "unmatched", f}
      BY <1>1, BornOrigin
    <3> QED
      BY <1>1, <3>1, ProgramImportAssumption
  <2>2. Fresh(P, f, s0.rows)
    BY <1>0, <1>1, <2>1
  <2>3. Twins(P, P2, f, x, y)
    BY <1>1, <2>1 DEF Twins
  <2> QED
    BY <1>1, <2>2, <2>3, NoFreshTwin
<1>2. CASE P2[p] = P[p] /\ P2[q] = P[q]
  BY <1>0, <1>2 DEF OneIn
<1>3. CASE BornOf(s, s0, f, n, p) /\ BornOf(s, s0, f, n, q)
  <2>1. P2[p].origin \in {"decided", "unmatched", f}
    BY <1>3, BornOrigin
  <2>2. P2[q].origin \in {"decided", "unmatched", f}
    BY <1>3, BornOrigin
  <2> QED
    BY <2>1, <2>2, ProgramImportAssumption
<1>4. CASE BornOf(s, s0, f, n, p) /\ P2[q] = P[q]
  BY <1>1, <1>4
<1>5. CASE BornOf(s, s0, f, n, q) /\ P2[p] = P[p]
  BY <1>1, <1>5
<1> QED
  BY <1>2, <1>3, <1>4, <1>5 DEF TakenPeople

\* The decisions of a batch after its commit, when nobody decided meanwhile.
LEMMA CommitHonours ==
    ASSUME NEW f \in Files, NEW s0 \in CommitTables, NEW s \in CommitTables,
           Len(s0.rows) = Len(FileRows[f]), Len(s.rows) = Len(s0.rows),
           TakenRows(s, s0, Len(s0.rows)), TakenChoices(s, s0, f, Len(s0.rows)),
           NEW b, b.rows = s0.rows, HonouredIn(f, b, s0.people), ~b.raced, Undisputed(f, b.rows),
           Origins(s0.people, s.people),
           NEW i \in DOMAIN FileRows[f], FileRows[f][i].kind # "wide", ~MatchLost(b.rows[i]),
           NEW row \in ImportRow,
           row.action = b.rows[i].action, row.resolved = b.rows[i].resolved,
           row.proposed = b.rows[i].proposed, row.person = s.rows[i].person
    PROVE  HonouredRow(row, s.people)
<1> DEFINE old == s0.rows[i]
<1>1. i \in 1..Len(s0.rows) /\ i <= Len(s0.rows) /\ Len(s0.rows) \in Nat
  BY FileFacts
<1>2. old \in ImportRow
  BY <1>1 DEF CommitTables
<1>3. /\ old.person \in PersonIds \cup {None} /\ old.action \in {None, "choose", "create", "ignore"}
      /\ old.proposed \in PersonIds \cup {None} /\ old.resolved \in PersonIds \cup {None}
  BY <1>2 DEF ImportRow
<1>4. /\ old.action \in {None, "create"} => old.resolved = None
      /\ old.action = "choose" => old.resolved # None
  BY DEF Undisputed, MatchLost
<1>5. CASE old.committed
  <2>1. s.rows[i] = old
    BY <1>1, <1>5 DEF TakenRows
  <2>2. i \in DOMAIN b.rows
    BY <1>1 DEF CommitTables
  <2>3. CASE old.action = "create" /\ old.proposed = None
    <3>1. old.person # None /\ s0.people[old.person].origin \in {"decided", "hand"}
      BY <1>5, <2>2, <2>3 DEF HonouredIn, HonouredRow
    <3>2. s.people[old.person].origin \in {"decided", "hand"}
      BY <1>3, <3>1 DEF Origins
    <3> QED
      BY <2>1, <2>3, <3>1, <3>2 DEF HonouredRow
  <2>4. CASE ~(old.action = "create" /\ old.proposed = None)
    BY <1>5, <2>1, <2>2, <2>4 DEF HonouredIn, HonouredRow
  <2> QED
    BY <2>3, <2>4
<1>6. CASE ~old.committed
  <2>1. Chose(s, f, i, old)
    BY <1>1, <1>6 DEF TakenChoices
  <2>2. IF Ignored(old) THEN row.person = None
        ELSE IF Chosen(old) # None THEN row.person = Chosen(old)
        ELSE row.person \in PersonIds /\ s.people[row.person] = NewRow(f, i, old)
    BY <2>1 DEF Chose
  <2>3. CASE old.action = "ignore"
    BY <2>2, <2>3 DEF Ignored, HonouredRow
  <2>4. CASE old.action = "choose"
    BY <1>4, <2>2, <2>4 DEF Ignored, Chosen, HonouredRow
  <2>5. CASE old.action = "create"
    <3>1. CASE old.proposed # None
      BY <1>4, <2>2, <2>5, <3>1 DEF Ignored, Chosen, HonouredRow
    <3>2. CASE old.proposed = None
      <4>1. row.person \in PersonIds /\ s.people[row.person] = NewRow(f, i, old)
        BY <1>4, <2>2, <2>5, <3>2 DEF Ignored, Chosen
      <4>2. NewRow(f, i, old).origin = "decided"
        BY <2>5 DEF NewRow, BroughtBy
      <4>3. row.person # None
        BY <4>1, ProgramImportAssumption
      <4> QED
        BY <2>5, <3>2, <4>1, <4>2, <4>3 DEF HonouredRow
    <3> QED
      BY <3>1, <3>2
  <2>6. CASE old.action \notin {"ignore", "choose", "create"}
    <3>1. old.action = None
      BY <1>3, <2>6
    <3>2. old.proposed # None => row.person = old.proposed
      BY <1>4, <2>2, <2>6, <3>1 DEF Ignored, Chosen
    <3> QED
      BY <2>6, <3>2 DEF HonouredRow
  <2> QED
    BY <2>3, <2>4, <2>5, <2>6
<1> QED
  BY <1>5, <1>6

LEMMA CommitBatchSafe ==
    ASSUME ImportSafe, NEW q \in Calls, commit_batch(q)
    PROVE  ImportSafe'
<1> DEFINE c == call[q]
           f == c.file
           b == batch[f]
           e == FileEvent[f]
           s0 == CommitBase(c)
           s == CommitRows(c)
           rows == [i \in DOMAIN c.rows |-> [b.rows[i] EXCEPT !.committed = s.rows[i].committed,
                                                              !.person = s.rows[i].person]]
           raced2 == b.raced \/ b.rows # c.rows
           b2 == [b EXCEPT !.status = "COMMITTED", !.checked = c.version, !.raced = raced2, !.rows = rows]
<1>1. /\ ImportTypeOK /\ StaleOnlyAfterOverlap /\ DeletedStayOut /\ BatchStatusHonest /\ DecisionsHonoured
      /\ OneIdentity /\ ImportCoherent
  BY DEF ImportSafe
<1>2. /\ c.kind = "commit" /\ Cardinality({p \in PersonIds : people[p] = NoPerson}) >= Len(c.rows)
      /\ call' = [call EXCEPT ![q] = NoCall] /\ edits' = edits
  BY DEF commit_batch
<1>3. CASE ~s.ok
  <2>1. UNCHANGED <<people, participation, identifiers, revision, version, batch, overlapped>>
    BY <1>3 DEF commit_batch
  <2>2. edits' \in 0..MaxEdits
    BY <1>1, <1>2 DEF ImportTypeOK
  <2> QED
    BY <1>2, <2>1, <2>2, NoCallFits, CallOnly
<1>4. CASE s.ok
  <2>1. /\ people' = s.people /\ participation' = s.participation /\ identifiers' = s.identifiers
        /\ IF Changes(c, s) THEN touch_event_program(e, c.revision) ELSE UNCHANGED <<revision, version>>
        /\ overlapped' = (overlapped \/ version[e] # c.version \/ b.rows # c.rows)
    BY <1>4 DEF commit_batch
  <2>2. batch' = [batch EXCEPT ![f] = b2]
    BY <1>4 DEF commit_batch
  \* What the request relies on.
  <2>3. c \in ImportCall /\ CallFits(c, people, batch, version, overlapped)
    BY <1>1, CoherentFits, ImportTypes
  <2>4. RowsFit(c, people, batch) /\ CommitFits(c, batch, version, overlapped)
    BY <1>2, <2>3 DEF CallFits
  <2>5. /\ f \in Files /\ b.status # "none" /\ Len(c.rows) = Len(FileRows[f])
        /\ RowsCoherent(people, f, c.rows)
    BY <2>4 DEF RowsFit
  <2>6. /\ c.rows \in Seq(ImportRow) /\ c.revision \in Nat /\ c.version \in Nat
        /\ DOMAIN c.rows = DOMAIN FileRows[f] /\ e \in Events /\ Len(FileRows[f]) \in Nat
    <3>1. c.rows \in Seq(ImportRow) /\ c.revision \in Nat /\ c.version \in Nat
      BY <2>3 DEF ImportCall
    <3> QED
      BY <2>5, <3>1, FileFacts
  <2>7. /\ b \in ImportBatch /\ Len(b.rows) = Len(FileRows[f])
        /\ BatchFits(f, b, people, version, overlapped) /\ HonouredIn(f, b, people)
    BY <1>1, <2>5, CoherentFits, ImportTypes, HonouredFits
  \* What the rows have done.
  <2>8. /\ s0 \in CommitTables /\ s0.people = people /\ s0.participation = participation /\ s0.rows = c.rows
    BY <1>1, <2>6, ImportTypes DEF CommitBase, CommitTables
  <2>9. Taken(s, s0, f, Len(c.rows))
    BY <1>2, <2>3, <2>5, <2>8, CommitAll DEF Free
  <2> HIDE DEF s0, s
  <2>10. /\ s \in CommitTables /\ Len(s.rows) = Len(s0.rows) /\ TakenRows(s, s0, Len(c.rows))
         /\ TakenChoices(s, s0, f, Len(c.rows)) /\ TakenPeople(s, s0, f, Len(c.rows))
         /\ TakenJoins(s, s0, Len(c.rows)) /\ TakenGone(s, s0)
    BY <1>4, <2>9 DEF Taken
  <2>11. Reviews(people, people') /\ StillThere(people, people') /\ Origins(people, people')
    BY <2>1, <2>8, <2>10, TakenPeopleKeep
  <2>12. people' \in PeopleTable /\ participation' \in ParticipationTable /\ identifiers' \in IdentifierTable
    BY <2>1, <2>10 DEF CommitTables
  \* The batch.
  <2>13. ASSUME NEW i \in DOMAIN FileRows[f]
         PROVE  /\ rows[i] \in ImportRow /\ rows[i].committed /\ rows[i].person = s.rows[i].person
                /\ rows[i].outcome = b.rows[i].outcome /\ rows[i].proposed = b.rows[i].proposed
                /\ rows[i].resolved = b.rows[i].resolved /\ rows[i].action = b.rows[i].action
                /\ rows[i].seen = b.rows[i].seen /\ rows[i].of = b.rows[i].of
                /\ rows[i].error = b.rows[i].error /\ rows[i].erased = b.rows[i].erased
    <3> DEFINE x == b.rows[i]
               done == s.rows[i].committed
               person == s.rows[i].person
    <3>1. i \in 1..Len(c.rows) /\ i \in 1..Len(s.rows) /\ i \in 1..Len(b.rows) /\ i <= Len(c.rows)
      BY <2>5, <2>7, <2>8, <2>10, FileFacts
    <3>2. b.rows \in Seq(ImportRow) /\ s.rows \in Seq(ImportRow)
      BY <2>7, <2>10 DEF ImportBatch, CommitTables
    <3>3. x \in ImportRow /\ s.rows[i] \in ImportRow
      BY <3>1, <3>2
    <3>4. done = TRUE /\ person \in PersonIds \cup {None}
      BY <2>8, <2>10, <3>1, <3>3 DEF TakenRows, ImportRow
    <3>5. rows[i] = [x EXCEPT !.committed = done, !.person = person]
      BY <2>6
    <3> HIDE DEF x, done, person, rows
    <3>6. [x EXCEPT !.committed = done, !.person = person] \in ImportRow
      BY <3>3, <3>4 DEF ImportRow
    <3>7. /\ rows[i].committed /\ rows[i].person = person
          /\ rows[i].outcome = x.outcome /\ rows[i].proposed = x.proposed
          /\ rows[i].resolved = x.resolved /\ rows[i].action = x.action
          /\ rows[i].seen = x.seen /\ rows[i].of = x.of /\ rows[i].error = x.error
          /\ rows[i].erased = x.erased
      BY <3>3, <3>4, <3>5 DEF ImportRow
    <3> QED
      BY <3>5, <3>6, <3>7 DEF x, person
  <2>14. rows \in Seq(ImportRow) /\ Len(rows) = Len(FileRows[f])
    <3>1. DOMAIN rows = 1..Len(FileRows[f])
      BY <2>5, <2>6, FileFacts
    <3>2. \A i \in 1..Len(FileRows[f]) : rows[i] \in ImportRow
      BY <2>5, <2>13, FileFacts
    <3>3. rows \in [1..Len(FileRows[f]) -> ImportRow]
      BY <3>1, <3>2
    <3> HIDE DEF rows
    <3> QED
      BY <2>6, <3>3, RowsAreSeq
  <2>15. raced2 \in BOOLEAN /\ (b.raced => raced2) /\ (~raced2 => ~b.raced /\ b.rows = c.rows)
    BY <2>7 DEF ImportBatch
  <2> HIDE DEF rows, raced2
  <2>16. /\ b2 \in ImportBatch /\ b2.rows = rows /\ b2.status = "COMMITTED" /\ b2.checked = c.version
         /\ b2.raced = raced2 /\ b2.version = b.version /\ b2.reviewed = b.reviewed /\ b2.conflicts = b.conflicts
    <3>1. b \in ImportBatch /\ c.version \in Nat
      BY <2>6, <2>7
    <3> HIDE DEF b, c
    <3> QED
      BY <2>14, <2>15, <3>1 DEF ImportBatch
  <2> HIDE DEF b2
  <2>17. batch'[f] = b2 /\ (\A g \in Files : g # f => batch'[g] = batch[g]) /\ batch' \in [Files -> ImportBatch]
    BY <1>1, <2>2, <2>5, <2>16 DEF ImportTypeOK
  \* The event.
  <2>18. /\ Later(version, version') /\ revision' \in [Events -> Nat] /\ version' \in [Events -> Nat]
         /\ \A d \in Events : revision'[d] <= version'[d]
         /\ Changes(c, s) => version'[e] > version[e]
         /\ ~overlapped' => \A d \in Events : revision'[d] = version'[d]
    <3>1. /\ \A d \in Events : revision[d] \in Nat /\ version[d] \in Nat /\ revision[d] <= version[d]
          /\ ~overlapped => \A d \in Events : revision[d] = version[d]
          /\ revision \in [Events -> Nat] /\ version \in [Events -> Nat]
      BY <1>1, ImportTypes DEF ImportCoherent, ImportTypeOK
    <3>2. /\ c.revision <= version[e]
          /\ ~overlapped => c.revision = c.version
      BY <2>4 DEF CommitFits
    <3>3. CASE ~Changes(c, s)
      <4>1. revision' = revision /\ version' = version
        BY <2>1, <3>3
      <4>2. Later(version, version')
        BY <3>1, <4>1 DEF Later
      <4> QED
        BY <2>1, <3>1, <3>3, <4>1, <4>2
    <3>4. CASE Changes(c, s)
      <4>1. touch_event_program(e, c.revision)
        BY <2>1, <3>4
      <4>2. /\ Later(version, version') /\ revision' \in [Events -> Nat] /\ version' \in [Events -> Nat]
            /\ version'[e] = version[e] + 1 /\ revision'[e] = c.revision + 1
            /\ \A d \in Events : d # e => revision'[d] = revision[d] /\ version'[d] = version[d]
            /\ \A d \in Events : revision'[d] <= version'[d]
        BY <1>1, <2>6, <3>2, <4>1, TouchedLate
      <4>3. version'[e] > version[e]
        BY <2>6, <3>1, <4>2
      <4>4. ~overlapped' => \A d \in Events : revision'[d] = version'[d]
        BY <2>1, <3>1, <3>2, <4>2
      <4> QED
        BY <4>2, <4>3, <4>4
    <3> QED
      BY <3>3, <3>4
  <2>19. overlapped' \in BOOLEAN /\ (~overlapped' => ~overlapped /\ version[e] = c.version /\ b.rows = c.rows)
    BY <1>1, <2>1 DEF ImportTypeOK
  <2>20. call' \in [Calls -> ImportCall] /\ \A y \in Calls : call'[y] = call[y] \/ call'[y] = NoCall
    BY <1>1, <1>2, NoCallFits DEF ImportTypeOK
  \* Everybody who is new was made by a row that changes the program.
  <2>21. \A p : BornOf(s, s0, f, Len(c.rows), p) => version'[e] > version[e]
    <3> SUFFICES ASSUME NEW p, BornOf(s, s0, f, Len(c.rows), p) PROVE Changes(c, s)
      BY <2>18
    <3>1. PICK i \in 1..Len(s0.rows) : ~s0.rows[i].committed /\ Makes(s0.people, f, i, s0.rows[i])
      BY DEF BornOf
    <3>2. i \in DOMAIN c.rows /\ ~Ignored(c.rows[i])
      BY <2>6, <2>8, <3>1 DEF Makes
    <3> QED
      BY <2>8, <3>1, <3>2 DEF Changes
  <2> HIDE DEF c, b, f
  <2>22. ImportTypeOK'
    <3>1. \A g \in Files : IF batch'[g].status = "none" THEN batch'[g] = NoBatch
                           ELSE Len(batch'[g].rows) = Len(FileRows[g]) /\ batch'[g].conflicts <= Len(FileRows[g])
      BY <1>1, <2>5, <2>14, <2>16, <2>17 DEF ImportTypeOK, b
    <3> QED
      BY <1>1, <1>2, <2>12, <2>17, <2>18, <2>19, <2>20, <3>1
         DEF ImportTypeOK, PeopleTable, ParticipationTable, IdentifierTable
  <2>23. StaleOnlyAfterOverlap'
    <3>1. ~overlapped' => b2.checked = b2.version
      BY <2>4, <2>16, <2>19 DEF CommitFits, b, f
    <3> QED
      BY <1>1, <2>17, <2>19, <3>1 DEF StaleOnlyAfterOverlap
  <2>24. DeletedStayOut'
    <3> SUFFICES ASSUME NEW d \in Events, NEW p \in PersonIds, participation'[<<d, p>>] # NoParticipation
                 PROVE  /\ people'[p].state # "gone"
                        /\ people'[p].state = "deleted" =>
                              \/ participation'[<<d, p>>].raced \/ people'[p].raced
                              \/ participation'[<<d, p>>].how \in {"wide", "mixed"}
      BY DEF DeletedStayOut, Participates
    <3>0. people'[p].state # "gone"
      <4> SUFFICES ASSUME people'[p].state = "gone" PROVE FALSE
        OBVIOUS
      <4>1. ~BornOf(s, s0, f, Len(c.rows), p)
        BY <2>1, <2>5, <2>8, BornFacts DEF MadeBy
      <4>2. s0.people[p].state = "gone"
        BY <2>1, <2>10, <4>1 DEF TakenPeople
      <4>3. participation[<<d, p>>] # NoParticipation /\ people[p].state = "gone"
        BY <2>1, <2>8, <2>10, <4>2 DEF TakenGone
      <4> QED
        BY <1>1, <4>3 DEF DeletedStayOut, Participates
    <3> SUFFICES ASSUME people'[p].state = "deleted"
                 PROVE  \/ participation'[<<d, p>>].raced \/ people'[p].raced
                        \/ participation'[<<d, p>>].how \in {"wide", "mixed"}
      BY <3>0
    <3>1. s0.people \in PeopleTable /\ s0.rows \in Seq(ImportRow) /\ RowsCoherent(s0.people, f, s0.rows)
      BY <2>5, <2>8 DEF CommitTables
    <3>2. Len(s0.rows) = Len(FileRows[f]) /\ s.people[p].state = "deleted"
      BY <2>1, <2>5, <2>8
    <3>3. \/ s.participation[<<d, p>>] = s0.participation[<<d, p>>] /\ s.people[p] = s0.people[p]
          \/ s.people[p].raced
          \/ s.participation[<<d, p>>].how \in {"wide", "mixed"}
      BY <2>5, <2>10, <3>1, <3>2, CommittedStayOut
    <3>4. CASE participation'[<<d, p>>] = participation[<<d, p>>] /\ people'[p] = people[p]
      BY <1>1, <3>4 DEF DeletedStayOut, Participates
    <3> QED
      BY <2>1, <2>8, <3>3, <3>4
  <2>25. BatchStatusHonest'
    <3>1. StatusIn(f, b2)
      BY <2>13, <2>16 DEF StatusIn
    <3> QED
      BY <1>1, <2>17, <3>1 DEF BatchStatusHonest, StatusIn
  <2>26. DecisionsHonoured'
    <3>1. HonouredIn(f, b2, people')
      <4>1. CASE raced2
        BY <2>16, <4>1 DEF HonouredIn
      <4>2. CASE ~raced2
        <5>1. b.rows = s0.rows /\ ~b.raced /\ Undisputed(f, b.rows) /\ HonouredIn(f, b, s0.people)
          BY <2>7, <2>8, <2>15, <4>2 DEF BatchFits
        <5>2. DOMAIN b2.rows = DOMAIN FileRows[f]
          BY <2>5, <2>14, <2>16, FileFacts
        <5> SUFFICES ASSUME NEW i \in DOMAIN FileRows[f], FileRows[f][i].kind # "wide",
                            ~MatchLost(rows[i])
                     PROVE  HonouredRow(rows[i], s.people)
          BY <2>1, <2>16, <5>2 DEF HonouredIn
        <5>3. Len(s0.rows) = Len(FileRows[f]) /\ Len(c.rows) = Len(s0.rows) /\ Origins(s0.people, s.people)
          BY <2>1, <2>5, <2>8, <2>11
        <5>4. TakenRows(s, s0, Len(s0.rows)) /\ TakenChoices(s, s0, f, Len(s0.rows))
          BY <2>10, <5>3
        <5>5. /\ rows[i] \in ImportRow /\ rows[i].action = b.rows[i].action
              /\ rows[i].resolved = b.rows[i].resolved /\ rows[i].proposed = b.rows[i].proposed
              /\ rows[i].person = s.rows[i].person
          BY <2>13
        <5>6. ~MatchLost(b.rows[i])
          BY <2>13 DEF MatchLost
        <5> QED
          BY <2>5, <2>8, <2>10, <5>1, <5>3, <5>4, <5>5, <5>6, CommitHonours
      <4> QED
        BY <4>1, <4>2
    <3>2. ASSUME NEW g \in Files, g # f
          PROVE  HonouredIn(g, batch'[g], people')
      <4>1. batch[g] \in ImportBatch /\ HonouredIn(g, batch[g], people)
        BY <1>1, HonouredFits, ImportTypes
      <4>2. HonouredIn(g, batch[g], people')
        BY <2>11, <4>1, HonouredKeeps
      <4> QED
        BY <2>17, <3>2, <4>2
    <3> QED
      BY <2>17, <3>1, <3>2, HonouredFits
  <2>27. OneIdentity'
    <3>1. ~overlapped' /\ ~batch'[f].raced => Fresh(s0.people, f, s0.rows)
      <4> SUFFICES ASSUME ~overlapped', ~raced2, NEW i \in DOMAIN FileRows[f], NEW p \in PersonIds,
                          ~c.rows[i].committed, Makes(people, f, i, c.rows[i]), c.rows[i].action # "create",
                          ~c.rows[i].erased,
                          p \in ActiveWith(people, FileRows[f][i].email), people[p].origin \in Files \ {f},
                          FileEvent[people[p].origin] = e
                   PROVE  FALSE
        BY <2>8, <2>16, <2>17 DEF Fresh
      <4>1. b.rows = c.rows /\ ~b.raced /\ Undisputed(f, c.rows) /\ ~overlapped /\ version[e] = c.version
        BY <2>7, <2>15, <2>19 DEF BatchFits
      <4>2. FileRows[f][i].kind # "wide" /\ Chosen(c.rows[i]) = None /\ ~Ignored(c.rows[i])
        BY DEF Makes
      <4>3. c.rows[i].resolved = None /\ c.rows[i].proposed = None
        BY <4>2 DEF Chosen
      <4>4. c.rows[i] \in ImportRow
        BY <2>6
      <4>5. c.rows[i].action = None
        <5>1. c.rows[i].action \in {None, "choose", "create", "ignore"}
          BY <4>4 DEF ImportRow
        <5>2. c.rows[i].action # "choose"
          BY <4>1, <4>3 DEF Undisputed
        <5> QED
          BY <4>2, <5>1, <5>2 DEF Ignored
      <4>6. ~c.rows[i].error
        BY <2>4, <4>2 DEF CommitFits, f
      <4>7. c.rows[i].outcome = "none"
        BY <2>5, <4>3, <4>5, <4>6 DEF RowsCoherent
      <4>8. LaterIn(f, b, people, version)
        BY <1>1, <2>5, CoherentFits DEF b
      <4>9. version[e] > b.version
        BY <4>1, <4>2, <4>7, <4>8 DEF LaterIn
      <4>10. c.version = b.version
        BY <2>4, <4>1 DEF CommitFits, b, f
      <4>11. version[e] \in Nat
        BY <1>1, <2>6, ImportTypes
      <4> QED
        BY <4>1, <4>9, <4>10, <4>11
    <3>2. \A g \in Files : batch[g].raced => batch'[g].raced
      BY <2>15, <2>16, <2>17 DEF b
    <3>3. OneIn(s0.people, batch, overlapped) /\ Len(s0.rows) = Len(FileRows[f])
      BY <1>1, <2>5, <2>8, OneIdentityIn
    <3>4. f \in Files /\ TakenPeople(s, s0, f, Len(c.rows)) /\ (~overlapped' => ~overlapped)
      BY <2>5, <2>10, <2>19
    <3>5. FreshFrom(s0, f, batch, batch', overlapped, overlapped')
      BY <3>1, <3>2, <3>3, <3>4 DEF FreshFrom
    <3>6. OneIn(s.people, batch', overlapped')
      BY <3>3, <3>4, <3>5, CommitIdentity
    <3> QED
      BY <2>1, <3>6, OneIdentityIn
  <2>28. ImportCoherent'
    <3>1. Descends(f, rows, b.rows)
      BY <2>13 DEF Descends
    <3>2. BatchesDescend(batch, batch')
      <4>1. ASSUME NEW g \in Files, batch[g].status # "none"
            PROVE  /\ batch'[g].status # "none" /\ batch'[g].version = batch[g].version
                   /\ Descends(g, batch'[g].rows, batch[g].rows)
        <5>1. CASE g = f
          BY <2>16, <2>17, <3>1, <5>1 DEF b
        <5>2. CASE g # f
          BY <2>17, <4>1, <5>2 DEF Descends
        <5> QED
          BY <5>1, <5>2
      <4> QED
        BY <4>1 DEF BatchesDescend
    <3>3. ASSUME NEW y \in Calls
          PROVE  CallFits(call'[y], people', batch', version', overlapped')
      <4>1. CallFits(call[y], people, batch, version, overlapped) /\ call[y] \in ImportCall
        BY <1>1, CoherentFits, ImportTypes
      <4>2. CallFits(call[y], people', batch', version', overlapped')
        BY <2>11, <2>18, <2>19, <3>2, <4>1, CallKeeps
      <4> QED
        BY <2>20, <4>2, NoCallFits
    <3>4. ASSUME NEW g \in Files, batch[g].status # "none"
          PROVE  /\ BatchFits(g, batch[g], people', version', overlapped')
                 /\ batch[g] \in ImportBatch /\ batch[g].version <= version[FileEvent[g]]
                 /\ LaterIn(g, batch[g], people, version)
      <4>1. /\ batch[g] \in ImportBatch /\ Len(batch[g].rows) = Len(FileRows[g])
            /\ BatchFits(g, batch[g], people, version, overlapped) /\ LaterIn(g, batch[g], people, version)
        BY <1>1, <3>4, CoherentFits, ImportTypes
      <4>2. BatchFits(g, batch[g], people', version', overlapped')
        BY <2>11, <2>18, <2>19, <4>1, BatchKeeps
      <4> QED
        BY <4>1, <4>2 DEF BatchFits
    <3>5. BatchFits(f, b2, people', version', overlapped')
      <4>1. BatchFits(f, b, people', version', overlapped')
        BY <2>5, <3>4 DEF b
      <4>2. RowsCoherent(people', f, rows)
        BY <2>13, <4>1 DEF BatchFits, RowsCoherent
      <4>3. ~raced2 => Undisputed(f, rows)
        BY <2>13, <2>15, <4>1 DEF BatchFits, Undisputed
      <4> QED
        BY <2>16, <4>1, <4>2, <4>3 DEF BatchFits
    <3>6. ASSUME NEW g \in Files, batch'[g].status # "none"
          PROVE  LaterIn(g, batch'[g], people', version')
      <4>1. batch[g].status # "none"
        BY <2>5, <2>17, <3>6 DEF b
      <4>2. /\ batch'[g].version = batch[g].version
            /\ \A i \in DOMAIN FileRows[g] : batch'[g].rows[i].outcome = batch[g].rows[i].outcome
        BY <3>2, <4>1 DEF BatchesDescend, Descends
      <4>3. Len(s0.rows) = Len(FileRows[f]) /\ LaterIn(g, batch[g], s0.people, version)
        BY <2>5, <2>8, <3>4, <4>1
      <4>4. LaterIn(g, batch'[g], s.people, version')
        BY <2>5, <2>10, <2>18, <2>21, <3>4, <4>1, <4>2, <4>3, CommitLater
      <4> QED
        BY <2>1, <4>4
    <3>7. \A g \in Files : batch'[g].status # "none" =>
                /\ BatchFits(g, batch'[g], people', version', overlapped')
                /\ LaterIn(g, batch'[g], people', version')
      BY <2>17, <3>4, <3>5, <3>6
    <3> QED
      BY <2>18, <3>3, <3>7, CoherentFits
  <2> QED
    BY <2>22, <2>23, <2>24, <2>25, <2>26, <2>27, <2>28 DEF ImportSafe
<1> QED
  BY <1>3, <1>4

LEMMA ImportInitSafe == ImportInit => ImportSafe
<1> SUFFICES ASSUME ImportInit PROVE ImportSafe
  OBVIOUS
<1> USE DEF ImportInit
<1>1. \A p \in PersonIds : people[p] \in PersonRow \cup {NoPerson} /\ people[p].origin \in {"hand", None}
  <2> SUFFICES ASSUME NEW p \in PersonIds
               PROVE  people[p] \in PersonRow \cup {NoPerson} /\ people[p].origin \in {"hand", None}
    OBVIOUS
  <2>1. CASE p \in DOMAIN Known
    <3>1. people[p] \in [state: {"active", "deleted"}, email: Emails \cup {None}, name: Names, revision: Nat,
                         raced: {FALSE}, origin: {"hand"}]
      BY <2>1, ProgramImportAssumption
    <3> QED
      BY <3>1 DEF PersonRow
  <2>2. CASE p \notin DOMAIN Known
    BY <2>2, NobodyIsAbsent
  <2> QED
    BY <2>1, <2>2
<1>2. {"hand", None} \cap Files = {}
  BY ProgramImportAssumption
<1>3. NoBatch \in ImportBatch /\ NoBatch.status = "none" /\ NoBatch.rows = <<>>
  <2> DEFINE none == <<>>
  <2>1. none \in Seq(ImportRow)
    OBVIOUS
  <2> HIDE DEF none
  <2>2. [status |-> "none", reviewed |-> 0, version |-> 0, checked |-> 0, conflicts |-> 0,
         rows |-> none, raced |-> FALSE] \in ImportBatch
    BY <2>1 DEF ImportBatch
  <2>3. NoBatch.status = "none" /\ NoBatch.rows = none
    BY DEF NoBatch, none
  <2> QED
    BY <2>2, <2>3 DEF NoBatch, none
<1>4. ImportTypeOK
  <2>1. people \in [PersonIds -> PersonRow \cup {NoPerson}]
    BY <1>1
  <2>2. participation \in [Events \X PersonIds -> EventParticipation]
    BY DEF NoParticipation, EventParticipation
  <2>3. \A f \in Files : batch[f] = NoBatch
    OBVIOUS
  <2>4. batch \in [Files -> ImportBatch]
    BY <1>3
  <2>5. identifiers \in [ExternalIds -> PersonIds \cup {None}]
    OBVIOUS
  <2>6. /\ revision \in [Events -> Nat] /\ version \in [Events -> Nat]
        /\ \A e \in Events : revision[e] <= version[e]
    OBVIOUS
  <2>7. overlapped \in BOOLEAN
    OBVIOUS
  <2>8. edits \in 0..MaxEdits
    BY ProgramImportAssumption
  <2>9. call \in [Calls -> ImportCall]
    BY NoCallFits
  <2> QED
    BY <1>3, <2>1, <2>2, <2>3, <2>4, <2>5, <2>6, <2>7, <2>8, <2>9 DEF ImportTypeOK
<1>5. \A f \in Files : batch[f].status = "none" /\ batch[f].rows = <<>>
  BY <1>3
<1>6. StaleOnlyAfterOverlap /\ BatchStatusHonest
  BY <1>5 DEF StaleOnlyAfterOverlap, BatchStatusHonest
<1>7. DeletedStayOut
  BY DEF DeletedStayOut, Participates
<1>8. DecisionsHonoured
  BY <1>5 DEF DecisionsHonoured
<1>9. OneIdentity
  BY <1>1, <1>2 DEF OneIdentity
<1>10. ImportCoherent
  <2>1. \A q \in Calls : CallFits(call[q], people, batch, version, overlapped)
    BY NoCallFits
  <2> QED
    BY <1>5, <2>1, CoherentFits
<1> QED
  BY <1>4, <1>6, <1>7, <1>8, <1>9, <1>10 DEF ImportSafe

LEMMA ImportNextSafe ==
    ASSUME ImportSafe, [ImportNext]_importVars
    PROVE  ImportSafe'
<1>1. CASE UNCHANGED importVars
  BY <1>1 DEF ImportSafe, importVars, ImportTypeOK, StaleOnlyAfterOverlap, DeletedStayOut, Participates,
              BatchStatusHonest, DecisionsHonoured, OneIdentity, ImportCoherent, BatchCoherent, LaterPeople,
              CallCoherent, ActiveWith
<1>2. CASE StageAndCommit
  BY <1>2, CreateBatchSafe, BeginCommitSafe, CommitBatchSafe DEF StageAndCommit
<1>3. CASE Decisions
  <2>1. ASSUME NEW q \in Calls, NEW f \in Files, NEW i \in DOMAIN FileRows[f], NEW action \in {"create", "ignore"},
               BeginDecision(q, f, i, action, None)
        PROVE  ImportSafe'
    BY <2>1, BeginDecisionSafe
  <2>2. ASSUME NEW q \in Calls, NEW f \in Files, NEW i \in DOMAIN FileRows[f], NEW p \in PersonIds,
               BeginDecision(q, f, i, "choose", p)
        PROVE  ImportSafe'
    BY <2>2, BeginDecisionSafe
  <2> QED
    BY <1>3, <2>1, <2>2, DecideSafe DEF Decisions
<1>4. CASE HandEdits
  BY <1>4, CreatePersonSafe, UpdatePersonSafe, ExternalIdentifierSafe, ErasePersonSafe, BeginDeleteSafe, BeginParticipantSafe,
     DeletePersonSafe, CreateParticipantSafe DEF HandEdits
<1> QED
  BY <1>1, <1>2, <1>3, <1>4 DEF ImportNext

\* Imports of people stay safe beside edits by hand, decisions and deletions (ImportSafe):
\* whatever requests read before others write, create_batch, decide, commit_batch,
\* delete_person and _delete_person apply no stale review, return nobody who was deleted, report
\* batches as they are, honour the operator's decisions and give an email to one person, with
\* the exceptions the parts of ImportSafe name.
THEOREM ImportIsSafe == ImportSpec => []ImportSafe
<1>1. ImportInit => ImportSafe
  BY ImportInitSafe
<1>2. ImportSafe /\ [ImportNext]_importVars => ImportSafe'
  BY ImportNextSafe
<1> QED
  BY <1>1, <1>2, PTL DEF ImportSpec
==============================================================================
