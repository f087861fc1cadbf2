------------------------ MODULE UserProjectionProofs ------------------------
(***************************************************************************)
(* Proofs about UserProjection, for every number of users, revisions,      *)
(* changes and retries, and any colliding and SMB users.                   *)
(***************************************************************************)
EXTENDS UserProjection, SequenceTheorems, WellFoundedInduction, TLAPS

TableRow == [scope : BOOLEAN, enabled : BOOLEAN, smb : BOOLEAN, rev : 1..(MaxChanges + 1)]
SiteRow == [present : BOOLEAN, active : BOOLEAN, smb : BOOLEAN, rev : 0..(MaxChanges + 1)]
Snapshots == [rev : 1..MaxUserRevision, users : UserTables]

-----------------------------------------------------------------------------
(* Queues and numbers *)

LEMMA AppendFacts ==
    ASSUME NEW S, NEW s \in Seq(S), NEW e \in S
    PROVE  /\ Append(s, e) \in Seq(S) /\ Append(s, e) # <<>>
           /\ Len(s) \in Nat /\ Len(Append(s, e)) = Len(s) + 1
           /\ Append(s, e)[Len(Append(s, e))] = e
           /\ \A i \in 1..Len(Append(s, e)) :
                 \/ i = Len(s) + 1 /\ Append(s, e)[i] = e
                 \/ i \in 1..Len(s) /\ Append(s, e)[i] = s[i]
<1>1. /\ Append(s, e) \in Seq(S) /\ Append(s, e) # <<>> /\ Len(Append(s, e)) = Len(s) + 1
      /\ \A i \in 1..Len(s) : Append(s, e)[i] = s[i]
      /\ Append(s, e)[Len(s) + 1] = e
  BY AppendProperties
<1>2. Len(s) \in Nat /\ (s # <<>> => Len(s) # 0)
  BY LenProperties, EmptySeq
<1> QED
  BY <1>1, <1>2

LEMMA TailFacts ==
    ASSUME NEW S, NEW s \in Seq(S), s # <<>>
    PROVE  /\ Head(s) = s[1] /\ Head(s) \in S /\ Tail(s) \in Seq(S)
           /\ Len(s) \in Nat /\ 1 <= Len(s) /\ Len(Tail(s)) = Len(s) - 1 /\ Len(Tail(s)) \in Nat
           /\ \A i \in 1..Len(Tail(s)) : i + 1 \in 1..Len(s) /\ Tail(s)[i] = s[i + 1]
<1>1. /\ Head(s) \in S /\ Tail(s) \in Seq(S) /\ Len(Tail(s)) = Len(s) - 1
      /\ \A i \in 1..Len(Tail(s)) : Tail(s)[i] = s[i + 1]
      /\ Head(s) = s[1]
  BY HeadTailProperties
<1>2. Len(s) \in Nat /\ Len(s) # 0 /\ Len(Tail(s)) \in Nat /\ (Tail(s) = <<>> <=> Len(Tail(s)) = 0)
  BY <1>1, LenProperties, EmptySeq
<1>3. \A i \in 1..Len(Tail(s)) : i + 1 \in 1..Len(s)
  BY <1>1, <1>2
<1> QED
  BY <1>1, <1>2, <1>3

\* A nonempty set of numbers has a least one.
LEMMA Least ==
    ASSUME NEW T, T \subseteq Nat, T # {}
    PROVE  \E x \in T : \A y \in T : ~(y < x)
<1> DEFINE R == OpToRel(<, Nat)
<1>1. IsWellFoundedOn(R, Nat)
  BY NatLessThanWellFounded
<1>2. \A x, y \in Nat : y < x => <<y, x>> \in R
  BY DEF OpToRel
<1> HIDE DEF R
<1>3. \E x \in T : \A y \in T : <<y, x>> \notin R
  BY <1>1, WFMin
<1>4. PICK x \in T : \A y \in T : <<y, x>> \notin R
  BY <1>3
<1>5. \A y \in T : ~(y < x)
  BY <1>2, <1>4
<1> QED
  BY <1>5

-----------------------------------------------------------------------------
(* What _upsert_snapshot does to one row *)

\* The loop runs to its end only when every listed user has a row.
LEMMA NoneNewMeansAllPresent ==
    ASSUME NEW s, FirstNew(s) = {}, NEW u \in Users, s.users[u].scope
    PROVE  userRows[u].present
<1> DEFINE T == {v \in Users : s.users[v].scope /\ ~userRows[v].present}
<1>1. T \subseteq Nat
  BY UsersAssumption DEF Users
<1> SUFFICES ASSUME T # {} PROVE FALSE
  OBVIOUS
<1>2. PICK n \in T : \A v \in T : ~(v < n)
  BY <1>1, Least
<1>3. n \in FirstNew(s)
  BY <1>2 DEF FirstNew
<1> QED
  BY <1>3

\* One row of the table that _upsert_snapshot leaves.
LEMMA ProjectedRow ==
    ASSUME UsersTypeOK, NEW s \in Snapshots, NEW u \in Users
    PROVE  /\ Projected(s)[u] \in SiteRow
           /\ \/ Projected(s)[u].rev = userRows[u].rev
              \/ Projected(s)[u].rev = s.users[u].rev
              \/ Projected(s)[u].rev = 1
           /\ userRows[u].present => Projected(s)[u].present
           /\ (~userRows[u].present => ~userRows[u].active) =>
                 (~Projected(s)[u].present => ~Projected(s)[u].active)
           /\ u \in Dropped(s) => ~Projected(s)[u].active
           /\ u \in Updated(s) => Projected(s)[u].active = Active(s, u)
           /\ u \in FirstNew(s) => Projected(s)[u].present
           /\ u \notin Dropped(s) \cup Updated(s) \cup FirstNew(s) => Projected(s)[u] = userRows[u]
<1>1. /\ userRows[u] \in SiteRow /\ s.users[u] \in TableRow /\ s.users \in UserTables
  BY DEF UsersTypeOK, SiteRow, TableRow, UserTables, Snapshots
<1>2. MaxChanges \in Nat /\ 1 \in 0..(MaxChanges + 1)
  BY UsersAssumption
<1>3. u \in Dropped(s) => userRows[u].present /\ u \notin Updated(s) /\ u \notin FirstNew(s)
  BY DEF Dropped, Updated, FirstNew
<1>4. u \in Updated(s) => userRows[u].present /\ u \notin FirstNew(s)
  BY DEF Updated, FirstNew
<1>5. CASE u \in Dropped(s)
  <2>1. Projected(s)[u] = [userRows[u] EXCEPT !.active = FALSE, !.smb = FALSE]
    BY <1>5 DEF Projected
  <2> QED
    BY <2>1, <1>1, <1>3, <1>5 DEF SiteRow
<1>6. CASE u \in Updated(s)
  <2>1. Projected(s)[u] = [present |-> TRUE, active |-> Active(s, u), smb |-> Smb(s, u), rev |-> s.users[u].rev]
    BY <1>6, <1>3 DEF Projected
  <2>2. Active(s, u) \in BOOLEAN /\ Smb(s, u) \in BOOLEAN /\ s.users[u].rev \in 0..(MaxChanges + 1)
    BY <1>1, <1>2 DEF Active, Smb, TableRow
  <2> QED
    BY <2>1, <2>2, <1>3, <1>4, <1>6 DEF SiteRow
<1>7. CASE u \in FirstNew(s)
  <2>1. Projected(s)[u] = [present |-> TRUE, active |-> TRUE, smb |-> FALSE, rev |-> 1]
    BY <1>7, <1>3, <1>4 DEF Projected
  <2>2. Projected(s)[u] \in SiteRow
    BY <2>1, <1>2 DEF SiteRow
  <2>3. /\ Projected(s)[u].rev = 1 /\ Projected(s)[u].present
        /\ u \notin Dropped(s) /\ u \notin Updated(s)
    BY <2>1, <1>3, <1>4, <1>7
  <2> QED
    BY <2>2, <2>3, <1>7
<1>8. CASE u \notin Dropped(s) \cup Updated(s) \cup FirstNew(s)
  <2>1. Projected(s)[u] = userRows[u]
    BY <1>8 DEF Projected
  <2> QED
    BY <2>1, <1>1, <1>8
<1> QED
  BY <1>5, <1>6, <1>7, <1>8

\* The jobs that _upsert_snapshot queues are keyed by a user and a revision.
LEMMA RevokeKeysTyped ==
    ASSUME UsersTypeOK, NEW s \in Snapshots
    PROVE  RevokeKeys(s) \subseteq Users \X (1..(MaxUserRevision + MaxChanges + 1))
<1>1. \A u \in Users : s.users[u] \in TableRow
  BY DEF TableRow, UserTables, Snapshots
<1>2. s.rev \in 1..(MaxUserRevision + MaxChanges + 1)
  BY UsersAssumption DEF Snapshots
<1>3. \A u \in Users : s.users[u].rev \in 1..(MaxUserRevision + MaxChanges + 1)
  BY <1>1, UsersAssumption DEF TableRow
<1> QED
  BY <1>2, <1>3 DEF RevokeKeys, Dropped, Updated

-----------------------------------------------------------------------------
(* The invariant *)

UserInv == UsersTypeOK /\ SentWasStored /\ LatestIsCurrent /\ RowsBehindFeed /\ UsersAgree

LEMMA Typed ==
    ASSUME UsersTypeOK
    PROVE  /\ admin \in UserTables /\ snaps \in Seq(UserTables) /\ userFeed \in Seq(Snapshots)
           /\ Len(snaps) \in Nat /\ Len(userFeed) \in Nat /\ changes \in Nat
           /\ snaps # <<>> => Len(snaps) \in 1..Len(snaps) /\ snaps[Len(snaps)] \in UserTables
           /\ \A i \in 1..Len(userFeed) : userFeed[i] \in Snapshots /\ userFeed[i].users \in UserTables
           /\ \A t \in UserTables : \A u \in Users : t[u] \in TableRow /\ t[u].rev \in Nat /\ t[u].rev >= 1
           /\ \A u \in Users : userRows[u] \in SiteRow /\ userRows[u].rev \in Nat
<1>1. /\ admin \in UserTables /\ snaps \in Seq(UserTables) /\ userFeed \in Seq(Snapshots) /\ changes \in Nat
      /\ userRows \in [Users -> SiteRow]
  BY DEF UsersTypeOK, Snapshots, SiteRow
<1>2. Len(snaps) \in Nat /\ Len(userFeed) \in Nat /\ (snaps # <<>> => Len(snaps) # 0)
  BY <1>1, LenProperties, EmptySeq
<1>3. \A t \in UserTables : \A u \in Users : t[u] \in TableRow /\ t[u].rev \in Nat /\ t[u].rev >= 1
  BY UsersAssumption DEF UserTables, TableRow
<1>4. \A u \in Users : userRows[u] \in SiteRow /\ userRows[u].rev \in Nat
  BY <1>1, UsersAssumption DEF SiteRow
<1>5. \A i \in 1..Len(userFeed) : userFeed[i] \in Snapshots /\ userFeed[i].users \in UserTables
  <2>1. \A i \in 1..Len(userFeed) : userFeed[i] \in Snapshots
    BY <1>1, ElementOfSeq
  <2> QED
    BY <2>1 DEF Snapshots
<1>6. snaps # <<>> => Len(snaps) \in 1..Len(snaps) /\ snaps[Len(snaps)] \in UserTables
  BY <1>1, <1>2, ElementOfSeq
<1> QED
  BY <1>1, <1>2, <1>3, <1>4, <1>5, <1>6


\* A push stores Central's table as the latest snapshot and puts it last in the feed.
LEMMA PushKeeps ==
    ASSUME UserInv, Push(admin'), Len(snaps) < MaxUserRevision, admin' \in UserTables,
           changes' \in 0..MaxChanges, userRetries' \in 0..MaxUserRetries, UNCHANGED userSiteVars,
           \A u \in Users : admin[u].rev <= admin'[u].rev /\ admin'[u].rev <= changes' + 1
    PROVE  UserInv'
<1> DEFINE e == [rev |-> Len(snaps) + 1, users |-> admin']
<1> USE DEF UserInv
<1>1. /\ admin \in UserTables /\ snaps \in Seq(UserTables) /\ userFeed \in Seq(Snapshots)
      /\ Len(snaps) \in Nat /\ Len(userFeed) \in Nat
      /\ snaps # <<>> => Len(snaps) \in 1..Len(snaps) /\ snaps[Len(snaps)] \in UserTables
      /\ \A i \in 1..Len(userFeed) : userFeed[i] \in Snapshots /\ userFeed[i].users \in UserTables
      /\ \A t \in UserTables : \A u \in Users : t[u] \in TableRow /\ t[u].rev \in Nat /\ t[u].rev >= 1
      /\ \A u \in Users : userRows[u] \in SiteRow /\ userRows[u].rev \in Nat
  BY Typed
<1>2. e \in Snapshots
  BY <1>1, UsersAssumption DEF Snapshots
<1>3. /\ snaps' = Append(snaps, admin') /\ userFeed' = Append(userFeed, e) /\ failed' = FALSE
      /\ UNCHANGED <<applied, userRows, userKeys>>
  BY DEF Push, userSiteVars
<1> HIDE DEF e
<1>4. /\ snaps' \in Seq(UserTables) /\ snaps' # <<>> /\ Len(snaps') = Len(snaps) + 1
      /\ snaps'[Len(snaps')] = admin'
      /\ \A i \in 1..Len(snaps) : snaps'[i] = snaps[i]
  BY <1>1, <1>3, AppendFacts
<1>5. /\ userFeed' \in Seq(Snapshots) /\ Len(userFeed') = Len(userFeed) + 1 /\ Len(userFeed') \in Nat
      /\ \A i \in 1..Len(userFeed') : \/ i = Len(userFeed) + 1 /\ userFeed'[i] = e
                                      \/ i \in 1..Len(userFeed) /\ userFeed'[i] = userFeed[i]
  BY <1>1, <1>2, <1>3, AppendFacts
<1>6. e.rev = Len(snaps) + 1 /\ e.users = admin'
  BY DEF e
<1>7. UsersTypeOK'
  <2>1. Len(snaps') <= MaxUserRevision
    BY <1>1, <1>4, UsersAssumption
  <2>2. userFeed' \in Seq([rev : 1..MaxUserRevision, users : UserTables])
    BY <1>5 DEF Snapshots
  <2> QED
    BY <2>1, <2>2, <1>3, <1>4 DEF UsersTypeOK
<1>8. SentWasStored'
  <2>1. ASSUME NEW i \in 1..Len(userFeed')
        PROVE  userFeed'[i].rev <= Len(snaps') /\ userFeed'[i].users = snaps'[userFeed'[i].rev]
    <3>1. CASE i = Len(userFeed) + 1 /\ userFeed'[i] = e
      BY <3>1, <1>1, <1>4, <1>6
    <3>2. CASE i \in 1..Len(userFeed) /\ userFeed'[i] = userFeed[i]
      <4>1. userFeed[i].rev <= Len(snaps) /\ userFeed[i].users = snaps[userFeed[i].rev] /\ userFeed[i].rev \in 1..MaxUserRevision
        BY <3>2, <1>1 DEF SentWasStored, Snapshots
      <4> QED
        BY <4>1, <3>2, <1>1, <1>4
    <3> QED
      BY <3>1, <3>2, <1>5
  <2>2. applied' <= Len(snaps') /\ ~failed'
    BY <1>1, <1>3, <1>4 DEF SentWasStored, UsersTypeOK
  <2> QED
    BY <2>1, <2>2, <1>4 DEF SentWasStored
<1>9. LatestIsCurrent'
  BY <1>1, <1>4 DEF LatestIsCurrent
<1>10. /\ \A u \in Users : userRows[u].rev <= admin'[u].rev
       /\ \A i \in 1..Len(userFeed) : \A u \in Users : userFeed[i].users[u].rev <= admin'[u].rev
  <2>1. \A u \in Users : userRows[u].rev <= admin[u].rev
    BY <1>1 DEF RowsBehindFeed, LatestIsCurrent
  <2>2. \A i \in 1..Len(userFeed) : \A u \in Users : userFeed[i].users[u].rev <= admin[u].rev
    <3> SUFFICES ASSUME NEW i \in 1..Len(userFeed), NEW u \in Users
                 PROVE  userFeed[i].users[u].rev <= admin[u].rev
      OBVIOUS
    <3>1. userFeed[i].rev \in 1..MaxUserRevision /\ userFeed[i].rev <= Len(snaps)
      BY <1>1 DEF SentWasStored, Snapshots
    <3>2. snaps # <<>>
      BY <3>1, <1>1, EmptySeq, LenProperties
    <3>3. /\ userFeed[i].users[u].rev <= snaps[Len(snaps)][u].rev
          /\ snaps[Len(snaps)][u].rev <= admin[u].rev
      BY <3>2 DEF RowsBehindFeed, LatestIsCurrent
    <3>4. userFeed[i].users[u].rev \in Nat /\ snaps[Len(snaps)][u].rev \in Nat /\ admin[u].rev \in Nat
      BY <3>2, <1>1
    <3> QED
      BY <3>3, <3>4
  <2>3. \A u \in Users : admin[u].rev \in Nat /\ admin'[u].rev \in Nat /\ userRows[u].rev \in Nat
    BY <1>1
  <2>4. \A i \in 1..Len(userFeed) : \A u \in Users : userFeed[i].users[u].rev \in Nat
    BY <1>1
  <2>5. \A u \in Users : userRows[u].rev <= admin'[u].rev
    BY <2>1, <2>3
  <2>6. \A i \in 1..Len(userFeed) : \A u \in Users : userFeed[i].users[u].rev <= admin'[u].rev
    BY <2>2, <2>3, <2>4
  <2> QED
    BY <2>5, <2>6
<1>11. RowsBehindFeed'
  <2>1. ASSUME NEW u \in Users
        PROVE  /\ admin'[u].rev <= changes' + 1
               /\ ~userRows'[u].present => ~userRows'[u].active
               /\ snaps' # <<>> /\ userRows'[u].rev <= snaps'[Len(snaps')][u].rev
    BY <1>3, <1>4, <1>10 DEF RowsBehindFeed
  <2>2. ASSUME NEW i \in 1..Len(userFeed'), NEW u \in Users
        PROVE  /\ userRows'[u].rev <= userFeed'[i].users[u].rev
               /\ userFeed'[i].users[u].rev <= snaps'[Len(snaps')][u].rev
               /\ \A j \in i..Len(userFeed') : userFeed'[i].users[u].rev <= userFeed'[j].users[u].rev
    <3>0. admin'[u].rev \in Nat
      BY <1>1
    <3>1. CASE i = Len(userFeed) + 1 /\ userFeed'[i] = e
      <4>1. \A j \in i..Len(userFeed') : j = i
        BY <3>1, <1>1, <1>5
      <4> QED
        BY <4>1, <3>0, <3>1, <1>3, <1>4, <1>6, <1>10
    <3>2. CASE i \in 1..Len(userFeed) /\ userFeed'[i] = userFeed[i]
      <4>1. /\ userRows[u].rev <= userFeed[i].users[u].rev /\ userFeed[i].users[u].rev <= admin'[u].rev
            /\ \A j \in i..Len(userFeed) : userFeed[i].users[u].rev <= userFeed[j].users[u].rev
        BY <3>2, <1>10 DEF RowsBehindFeed
      <4>2. ASSUME NEW j \in i..Len(userFeed') PROVE userFeed[i].users[u].rev <= userFeed'[j].users[u].rev
        <5>1. j \in 1..Len(userFeed') /\ (j \in 1..Len(userFeed) => j \in i..Len(userFeed))
          BY <3>2, <1>1, <1>5
        <5> QED
          BY <5>1, <4>1, <1>5, <1>6
      <4> QED
        BY <4>1, <4>2, <3>2, <1>3, <1>4
    <3> QED
      BY <3>1, <3>2, <1>5
  <2> QED
    BY <2>1, <2>2 DEF RowsBehindFeed
<1>12. UsersAgree'
  <2>1. applied' # Len(snaps')
    BY <1>1, <1>3, <1>4 DEF SentWasStored, UsersTypeOK
  <2> QED
    BY <2>1 DEF UsersAgree
<1> QED
  BY <1>7, <1>8, <1>9, <1>11, <1>12

LEMMA PushDeploymentKeeps == ASSUME UserInv, push_deployment_users PROVE UserInv'
<1>1. /\ admin' = admin /\ changes' = changes /\ userRetries' = userRetries /\ UNCHANGED userSiteVars
      /\ Push(admin) /\ Len(snaps) < MaxUserRevision
  BY DEF push_deployment_users
<1>2. Push(admin')
  BY <1>1 DEF Push
<1>3. \A u \in Users : admin[u].rev <= admin'[u].rev /\ admin'[u].rev <= changes' + 1
  <2>1. \A u \in Users : admin[u].rev \in Nat
    BY Typed DEF UserInv
  <2> QED
    BY <2>1, <1>1 DEF UserInv, RowsBehindFeed
<1>4. admin' \in UserTables /\ changes' \in 0..MaxChanges /\ userRetries' \in 0..MaxUserRetries
  BY <1>1 DEF UserInv, UsersTypeOK
<1> QED
  BY <1>1, <1>2, <1>3, <1>4, PushKeeps

\* A change of Central's table alone, of a user that no snapshot has to show: nobody's
\* access differs from the latest snapshot's.
LEMMA AdminAloneKeeps ==
    ASSUME UserInv, UNCHANGED <<snaps, failed, userFeed, userSiteVars, userRetries>>, admin' \in UserTables,
           changes' \in 0..MaxChanges, changes <= changes',
           \A u \in Users : /\ admin'[u].scope = admin[u].scope
                            /\ admin[u].scope => admin'[u].enabled = admin[u].enabled
                            /\ admin[u].rev <= admin'[u].rev
                            /\ admin'[u].rev <= changes' + 1
    PROVE  UserInv'
<1> USE DEF UserInv
<1>1. UNCHANGED <<snaps, failed, userFeed, applied, userRows, userKeys, userRetries>>
  BY DEF userSiteVars
<1>2. /\ snaps # <<>> => snaps[Len(snaps)] \in UserTables
      /\ \A t \in UserTables : \A u \in Users : t[u].rev \in Nat
  BY Typed
<1>3. UsersTypeOK'
  BY <1>1 DEF UsersTypeOK
<1>4. SentWasStored'
  BY <1>1 DEF SentWasStored
<1>5. LatestIsCurrent'
  <2> SUFFICES ASSUME snaps # <<>>, NEW u \in Users
               PROVE  /\ snaps[Len(snaps)][u].scope = admin'[u].scope
                      /\ admin'[u].scope => snaps[Len(snaps)][u].enabled = admin'[u].enabled
                      /\ snaps[Len(snaps)][u].rev <= admin'[u].rev
    BY <1>1 DEF LatestIsCurrent
  <2>1. /\ snaps[Len(snaps)][u].scope = admin[u].scope
        /\ admin[u].scope => snaps[Len(snaps)][u].enabled = admin[u].enabled
        /\ snaps[Len(snaps)][u].rev <= admin[u].rev
    BY DEF LatestIsCurrent
  <2>2. snaps[Len(snaps)][u].rev \in Nat /\ admin[u].rev \in Nat /\ admin'[u].rev \in Nat
    BY <1>2 DEF UsersTypeOK
  <2>3. snaps[Len(snaps)][u].rev <= admin'[u].rev
    BY <2>1, <2>2
  <2> QED
    BY <2>1, <2>3
<1>6. RowsBehindFeed'
  BY <1>1 DEF RowsBehindFeed
<1>7. UsersAgree'
  BY <1>1 DEF UsersAgree
<1> QED
  BY <1>3, <1>4, <1>5, <1>6, <1>7

LEMMA UpdateUserKeeps ==
    ASSUME UserInv, NEW u \in Users, NEW enabled \in BOOLEAN, NEW scope \in BOOLEAN,
           update_user(u, enabled, scope)
    PROVE  UserInv'
<1> USE DEF UserInv
<1>1. /\ changes < MaxChanges /\ changes' = changes + 1 /\ Len(snaps) < MaxUserRevision
      /\ admin' = [admin EXCEPT ![u].enabled = enabled, ![u].scope = scope, ![u].rev = @ + 1]
      /\ UNCHANGED <<userSiteVars, userRetries>>
  BY DEF update_user
<1>2. /\ admin \in [Users -> TableRow] /\ UserTables = [Users -> TableRow]
      /\ changes \in 0..MaxChanges /\ userRetries \in 0..MaxUserRetries /\ MaxChanges \in Nat
      /\ \A v \in Users : admin[v].rev \in 1..(MaxChanges + 1) /\ admin[v].rev <= changes + 1
  BY UsersAssumption DEF UsersTypeOK, RowsBehindFeed, UserTables, TableRow
<1>3. /\ admin'[u] = [admin[u] EXCEPT !.enabled = enabled, !.scope = scope, !.rev = admin[u].rev + 1]
      /\ \A v \in Users : v # u => admin'[v] = admin[v]
      /\ DOMAIN admin' = Users /\ admin' = [v \in Users |-> admin'[v]]
  BY <1>1, <1>2
<1>4. /\ admin'[u].rev = admin[u].rev + 1 /\ admin'[u].scope = scope /\ admin'[u] \in TableRow
  BY <1>1, <1>2, <1>3 DEF TableRow
<1>5. admin' \in UserTables
  BY <1>2, <1>3, <1>4
<1>6. \A v \in Users : admin[v].rev <= admin'[v].rev /\ admin'[v].rev <= changes' + 1
  BY <1>1, <1>2, <1>3, <1>4
<1>7. changes' \in 0..MaxChanges /\ changes <= changes' /\ userRetries' \in 0..MaxUserRetries
  BY <1>1, <1>2
<1>8. CASE admin[u].scope \/ scope
  <2>1. Push(admin')
    BY <1>8 DEF update_user
  <2> QED
    BY <2>1, <1>1, <1>5, <1>6, <1>7, PushKeeps
<1>9. CASE ~(admin[u].scope \/ scope)
  <2>1. UNCHANGED <<snaps, userFeed, failed>>
    BY <1>9 DEF update_user
  <2>2. admin[u].scope = FALSE /\ admin'[u].scope = FALSE
    BY <1>2, <1>4, <1>9 DEF TableRow
  <2>3. \A v \in Users : /\ admin'[v].scope = admin[v].scope
                         /\ admin[v].scope => admin'[v].enabled = admin[v].enabled
    BY <2>2, <1>3
  <2> QED
    BY <2>1, <2>3, <1>1, <1>5, <1>6, <1>7, AdminAloneKeeps
<1> QED
  BY <1>8, <1>9

LEMMA SmbAccessKeeps ==
    ASSUME UserInv, NEW u \in Users, set_smb_access(u)
    PROVE  UserInv'
<1> USE DEF UserInv
<1>1. /\ changes < MaxChanges /\ changes' = changes + 1
      /\ admin' = [admin EXCEPT ![u].smb = ~@]
      /\ UNCHANGED <<snaps, failed, userFeed, userSiteVars, userRetries>>
  BY DEF set_smb_access
<1>2. /\ admin \in [Users -> TableRow] /\ UserTables = [Users -> TableRow]
      /\ changes \in 0..MaxChanges /\ MaxChanges \in Nat
      /\ \A v \in Users : admin[v].rev \in 1..(MaxChanges + 1) /\ admin[v].rev <= changes + 1
  BY UsersAssumption DEF UsersTypeOK, RowsBehindFeed, UserTables, TableRow
<1>3. /\ admin'[u] = [admin[u] EXCEPT !.smb = ~admin[u].smb]
      /\ \A v \in Users : v # u => admin'[v] = admin[v]
      /\ DOMAIN admin' = Users /\ admin' = [v \in Users |-> admin'[v]]
  BY <1>1, <1>2
<1>4. /\ admin'[u] \in TableRow /\ admin'[u].rev = admin[u].rev
      /\ admin'[u].scope = admin[u].scope /\ admin'[u].enabled = admin[u].enabled
  BY <1>2, <1>3 DEF TableRow
<1>5. admin' \in UserTables
  BY <1>2, <1>3, <1>4
<1>6. \A v \in Users : admin[v].rev <= admin'[v].rev /\ admin'[v].rev <= changes' + 1
  BY <1>1, <1>2, <1>3, <1>4
<1>7. \A v \in Users : /\ admin'[v].scope = admin[v].scope
                       /\ admin[v].scope => admin'[v].enabled = admin[v].enabled
  BY <1>3, <1>4
<1>8. changes' \in 0..MaxChanges /\ changes <= changes'
  BY <1>1, <1>2
<1> QED
  BY <1>1, <1>5, <1>6, <1>7, <1>8, AdminAloneKeeps


LEMMA RetryKeeps == ASSUME UserInv, retry_deployment_users PROVE UserInv'
<1> DEFINE e == [rev |-> Len(snaps), users |-> snaps[Len(snaps)]]
<1> USE DEF UserInv
<1>1. /\ userRetries < MaxUserRetries /\ userRetries' = userRetries + 1 /\ failed /\ failed' = FALSE
      /\ userFeed' = Append(userFeed, e)
      /\ UNCHANGED <<admin, snaps, applied, userRows, userKeys, changes>>
  BY DEF retry_deployment_users, userSiteVars
<1>2. snaps # <<>>
  BY <1>1 DEF SentWasStored
<1>3. /\ userFeed \in Seq(Snapshots) /\ Len(snaps) \in Nat /\ Len(userFeed) \in Nat
      /\ Len(snaps) \in 1..Len(snaps) /\ snaps[Len(snaps)] \in UserTables
      /\ \A t \in UserTables : \A u \in Users : t[u].rev \in Nat
  BY <1>2, Typed
<1>4. e \in Snapshots
  BY <1>3, UsersAssumption DEF UsersTypeOK, Snapshots
<1> HIDE DEF e
<1>5. /\ userFeed' \in Seq(Snapshots) /\ Len(userFeed') = Len(userFeed) + 1 /\ Len(userFeed') \in Nat
      /\ \A i \in 1..Len(userFeed') : \/ i = Len(userFeed) + 1 /\ userFeed'[i] = e
                                      \/ i \in 1..Len(userFeed) /\ userFeed'[i] = userFeed[i]
  BY <1>1, <1>3, <1>4, AppendFacts
<1>6. e.rev = Len(snaps) /\ e.users = snaps[Len(snaps)]
  BY DEF e
<1>7. UsersTypeOK'
  <2>1. userRetries' \in 0..MaxUserRetries
    BY <1>1, UsersAssumption DEF UsersTypeOK
  <2> QED
    BY <2>1, <1>1, <1>5 DEF UsersTypeOK, Snapshots
<1>8. SentWasStored'
  <2>1. ASSUME NEW i \in 1..Len(userFeed')
        PROVE  userFeed'[i].rev <= Len(snaps') /\ userFeed'[i].users = snaps'[userFeed'[i].rev]
    BY <1>1, <1>3, <1>5, <1>6 DEF SentWasStored
  <2> QED
    BY <2>1, <1>1 DEF SentWasStored
<1>9. LatestIsCurrent'
  BY <1>1 DEF LatestIsCurrent
<1>10. RowsBehindFeed'
  <2>1. ASSUME NEW i \in 1..Len(userFeed'), NEW u \in Users
        PROVE  /\ userRows[u].rev <= userFeed'[i].users[u].rev
               /\ userFeed'[i].users[u].rev <= snaps[Len(snaps)][u].rev
               /\ \A j \in i..Len(userFeed') : userFeed'[i].users[u].rev <= userFeed'[j].users[u].rev
    <3>0. snaps[Len(snaps)][u].rev \in Nat
      BY <1>3
    <3>1. CASE i = Len(userFeed) + 1 /\ userFeed'[i] = e
      <4>1. \A j \in i..Len(userFeed') : j = i
        BY <3>1, <1>3, <1>5
      <4>2. userRows[u].rev <= snaps[Len(snaps)][u].rev
        BY <1>2 DEF RowsBehindFeed
      <4> QED
        BY <4>1, <4>2, <3>0, <3>1, <1>6
    <3>2. CASE i \in 1..Len(userFeed) /\ userFeed'[i] = userFeed[i]
      <4>1. /\ userRows[u].rev <= userFeed[i].users[u].rev
            /\ userFeed[i].users[u].rev <= snaps[Len(snaps)][u].rev
            /\ \A j \in i..Len(userFeed) : userFeed[i].users[u].rev <= userFeed[j].users[u].rev
        BY <3>2 DEF RowsBehindFeed
      <4>2. ASSUME NEW j \in i..Len(userFeed') PROVE userFeed[i].users[u].rev <= userFeed'[j].users[u].rev
        <5>1. j \in 1..Len(userFeed') /\ (j \in 1..Len(userFeed) => j \in i..Len(userFeed))
          BY <3>2, <1>3, <1>5
        <5> QED
          BY <5>1, <4>1, <1>5, <1>6
      <4> QED
        BY <4>1, <4>2, <3>2
    <3> QED
      BY <3>1, <3>2, <1>5
  <2> QED
    BY <2>1, <1>1 DEF RowsBehindFeed
<1>11. UsersAgree'
  BY <1>1 DEF UsersAgree
<1> QED
  BY <1>7, <1>8, <1>9, <1>10, <1>11

-----------------------------------------------------------------------------
(* The Site *)

\* The head of the feed, which every step of the Site consumes.
LEMMA HeadFacts ==
    ASSUME UserInv, userFeed # <<>>
    PROVE  /\ Head(userFeed) \in Snapshots /\ Head(userFeed).users \in UserTables
           /\ Head(userFeed) = userFeed[1] /\ 1 \in 1..Len(userFeed)
           /\ Head(userFeed).rev \in 1..MaxUserRevision
           /\ Head(userFeed).rev <= Len(snaps)
           /\ Head(userFeed).users = snaps[Head(userFeed).rev]
           /\ Tail(userFeed) \in Seq(Snapshots) /\ Len(userFeed) \in Nat /\ Len(Tail(userFeed)) = Len(userFeed) - 1
           /\ \A i \in 1..Len(Tail(userFeed)) : i + 1 \in 1..Len(userFeed) /\ Tail(userFeed)[i] = userFeed[i + 1]
           /\ snaps # <<>>
<1> USE DEF UserInv
<1>1. userFeed \in Seq(Snapshots) /\ snaps \in Seq(UserTables) /\ Len(snaps) \in Nat
  BY Typed
<1>2. /\ Head(userFeed) = userFeed[1] /\ Head(userFeed) \in Snapshots /\ Tail(userFeed) \in Seq(Snapshots)
      /\ Len(userFeed) \in Nat /\ 1 <= Len(userFeed) /\ Len(Tail(userFeed)) = Len(userFeed) - 1
      /\ \A i \in 1..Len(Tail(userFeed)) : i + 1 \in 1..Len(userFeed) /\ Tail(userFeed)[i] = userFeed[i + 1]
  BY <1>1, TailFacts
<1>3. 1 \in 1..Len(userFeed)
  BY <1>2
<1>4. Head(userFeed).rev <= Len(snaps) /\ Head(userFeed).users = snaps[Head(userFeed).rev]
  BY <1>2, <1>3 DEF SentWasStored
<1>5. Head(userFeed).rev \in 1..MaxUserRevision /\ Head(userFeed).users \in UserTables
  BY <1>2 DEF Snapshots
<1>6. snaps # <<>>
  BY <1>1, <1>4, <1>5, EmptySeq, UsersAssumption
<1> QED
  BY <1>2, <1>3, <1>4, <1>5, <1>6

\* Once the head is consumed, the rest of the feed is as it was, and no row that took
\* its revision from the head is ahead of it.
LEMMA FeedConsumed ==
    ASSUME UserInv, userFeed # <<>>, userFeed' = Tail(userFeed), UNCHANGED <<admin, snaps, changes>>,
           \A u \in Users : /\ userRows'[u].rev \in {userRows[u].rev, Head(userFeed).users[u].rev, 1}
                            /\ ~userRows'[u].present => ~userRows'[u].active
    PROVE  LatestIsCurrent' /\ RowsBehindFeed'
<1> USE DEF UserInv
<1>1. LatestIsCurrent'
  BY DEF LatestIsCurrent
<1>2. /\ Head(userFeed) = userFeed[1] /\ 1 \in 1..Len(userFeed) /\ Head(userFeed).users \in UserTables /\ snaps # <<>>
      /\ Len(userFeed) \in Nat /\ Len(Tail(userFeed)) = Len(userFeed) - 1
      /\ \A i \in 1..Len(Tail(userFeed)) : i + 1 \in 1..Len(userFeed) /\ Tail(userFeed)[i] = userFeed[i + 1]
  BY HeadFacts
<1>3. /\ \A t \in UserTables : \A u \in Users : t[u].rev \in Nat /\ t[u].rev >= 1
      /\ snaps[Len(snaps)] \in UserTables
      /\ \A i \in 1..Len(userFeed) : userFeed[i].users \in UserTables
      /\ \A u \in Users : userRows[u].rev \in Nat
  BY <1>2, Typed
<1>4. ASSUME NEW u \in Users PROVE userRows'[u].rev <= snaps[Len(snaps)][u].rev
  <2>1. /\ userRows[u].rev <= snaps[Len(snaps)][u].rev
        /\ Head(userFeed).users[u].rev <= snaps[Len(snaps)][u].rev
        /\ 1 <= snaps[Len(snaps)][u].rev
    BY <1>2, <1>3 DEF RowsBehindFeed
  <2> QED
    BY <2>1
<1>5. ASSUME NEW i \in 1..Len(Tail(userFeed)), NEW u \in Users
      PROVE  /\ userRows'[u].rev <= Tail(userFeed)[i].users[u].rev
             /\ Tail(userFeed)[i].users[u].rev <= snaps[Len(snaps)][u].rev
             /\ \A j \in i..Len(Tail(userFeed)) : Tail(userFeed)[i].users[u].rev <= Tail(userFeed)[j].users[u].rev
  <2>1. i + 1 \in 1..Len(userFeed) /\ i + 1 \in 1..Len(userFeed) /\ Tail(userFeed)[i] = userFeed[i + 1]
    BY <1>2
  <2>2. /\ userRows[u].rev <= userFeed[i + 1].users[u].rev
        /\ userFeed[1].users[u].rev <= userFeed[i + 1].users[u].rev
        /\ 1 <= userFeed[i + 1].users[u].rev
        /\ userFeed[i + 1].users[u].rev <= snaps[Len(snaps)][u].rev
        /\ \A j \in (i + 1)..Len(userFeed) : userFeed[i + 1].users[u].rev <= userFeed[j].users[u].rev
    BY <2>1, <1>2, <1>3 DEF RowsBehindFeed
  <2>3. userRows'[u].rev <= userFeed[i + 1].users[u].rev
    BY <2>2, <1>2
  <2>4. ASSUME NEW j \in i..Len(Tail(userFeed))
        PROVE  Tail(userFeed)[i].users[u].rev <= Tail(userFeed)[j].users[u].rev
    <3>1. j \in 1..Len(Tail(userFeed)) /\ j + 1 \in (i + 1)..Len(userFeed)
      BY <1>2
    <3> QED
      BY <3>1, <2>1, <2>2, <1>2
  <2> QED
    BY <2>1, <2>2, <2>3, <2>4
<1>6. RowsBehindFeed'
  BY <1>2, <1>4, <1>5 DEF RowsBehindFeed
<1> QED
  BY <1>1, <1>6

LEMMA SentStaysStored ==
    ASSUME UserInv, userFeed # <<>>, userFeed' = Tail(userFeed), snaps' = snaps,
           applied' = applied \/ applied' = Head(userFeed).rev
    PROVE  SentWasStored'
<1> USE DEF UserInv
<1>1. /\ \A i \in 1..Len(Tail(userFeed)) : i + 1 \in 1..Len(userFeed) /\ Tail(userFeed)[i] = userFeed[i + 1]
      /\ Head(userFeed).rev <= Len(snaps) /\ snaps # <<>>
  BY HeadFacts
<1> QED
  BY <1>1 DEF SentWasStored

LEMMA DuplicateKeeps == ASSUME UserInv, DuplicateSnapshot PROVE UserInv'
<1> USE DEF UserInv
<1>1. /\ userFeed # <<>> /\ userFeed' = Tail(userFeed)
      /\ UNCHANGED <<admin, snaps, failed, applied, userRows, userKeys, changes, userRetries>>
  BY DEF DuplicateSnapshot, userSiteVars
<1>2. Tail(userFeed) \in Seq(Snapshots)
  BY <1>1, HeadFacts
<1>3. UsersTypeOK'
  BY <1>1, <1>2 DEF UsersTypeOK, Snapshots
<1>4. \A u \in Users : ~userRows'[u].present => ~userRows'[u].active
  BY <1>1 DEF RowsBehindFeed
<1>5. LatestIsCurrent' /\ RowsBehindFeed'
  BY <1>1, <1>4, FeedConsumed
<1>6. SentWasStored'
  BY <1>1, SentStaysStored
<1>7. UsersAgree'
  BY <1>1 DEF UsersAgree
<1> QED
  BY <1>3, <1>5, <1>6, <1>7

\* Whether the loop of _upsert_snapshot ends or raises, everything but the agreement of
\* the users is kept.
LEMMA ProjectionKeeps ==
    ASSUME UserInv, userFeed # <<>>, userFeed' = Tail(userFeed), userRows' = Projected(Head(userFeed)),
           userKeys' = userKeys \cup RevokeKeys(Head(userFeed)), failed' \in BOOLEAN,
           applied' = applied \/ applied' = Head(userFeed).rev,
           UNCHANGED <<admin, snaps, changes, userRetries>>
    PROVE  UsersTypeOK' /\ SentWasStored' /\ LatestIsCurrent' /\ RowsBehindFeed'
<1> USE DEF UserInv
<1>1. /\ Head(userFeed) \in Snapshots /\ Tail(userFeed) \in Seq(Snapshots) /\ Head(userFeed).rev \in 1..MaxUserRevision
  BY HeadFacts
<1>2. \A u \in Users : /\ userRows'[u] \in SiteRow
                       /\ userRows'[u].rev \in {userRows[u].rev, Head(userFeed).users[u].rev, 1}
                       /\ ~userRows'[u].present => ~userRows'[u].active
  BY <1>1, ProjectedRow DEF RowsBehindFeed
<1>3. userRows' \in [Users -> SiteRow]
  BY <1>2 DEF Projected
<1>4. userKeys' \subseteq Users \X (1..(MaxUserRevision + MaxChanges + 1))
  BY <1>1, RevokeKeysTyped DEF UsersTypeOK
<1>5. applied' \in 0..MaxUserRevision
  BY <1>1, UsersAssumption DEF UsersTypeOK
<1>6. UsersTypeOK'
  BY <1>1, <1>3, <1>4, <1>5 DEF UsersTypeOK, Snapshots, SiteRow
<1>7. LatestIsCurrent' /\ RowsBehindFeed'
  BY <1>2, FeedConsumed
<1>8. SentWasStored'
  BY SentStaysStored
<1> QED
  BY <1>6, <1>7, <1>8

LEMMA ApplyKeeps == ASSUME UserInv, ApplyUserSnapshot PROVE UserInv'
<1> DEFINE s == Head(userFeed)
<1> USE DEF UserInv
<1>1. /\ userFeed # <<>> /\ s.rev > applied /\ FirstNew(s) = {}
      /\ userFeed' = Tail(userFeed) /\ applied' = s.rev
      /\ userRows' = Projected(s) /\ userKeys' = userKeys \cup RevokeKeys(s)
      /\ UNCHANGED <<admin, snaps, failed, changes, userRetries>>
  BY DEF ApplyUserSnapshot
<1>2. UsersTypeOK' /\ SentWasStored' /\ LatestIsCurrent' /\ RowsBehindFeed'
  <2>1. failed' \in BOOLEAN
    BY <1>1 DEF UsersTypeOK
  <2> QED
    BY <2>1, <1>1, ProjectionKeeps
<1>3. UsersAgree'
  <2> SUFFICES ASSUME s.rev = Len(snaps), NEW u \in Users
               PROVE  userRows'[u].active <=> admin[u].scope /\ admin[u].enabled /\ u \notin Colliding
    BY <1>1 DEF UsersAgree
  <2>1. /\ s \in Snapshots /\ s.users = snaps[Len(snaps)] /\ snaps # <<>>
        /\ s = userFeed[1] /\ 1 \in 1..Len(userFeed)
    BY <1>1, HeadFacts
  <2>2. /\ s.users[u].scope = admin[u].scope
        /\ admin[u].scope => s.users[u].enabled = admin[u].enabled
        /\ userRows[u].rev <= s.users[u].rev
    BY <2>1 DEF LatestIsCurrent, RowsBehindFeed
  <2>3. s.users[u].rev \in Nat /\ userRows[u].rev \in Nat
    BY <2>1, Typed DEF Snapshots
  <2> HIDE DEF s
  <2>4. CASE s.users[u].scope
    <3>1. userRows[u].present
      BY <2>4, <1>1, NoneNewMeansAllPresent
    <3>2. u \in Updated(s)
      BY <3>1, <2>2, <2>3, <2>4, <1>1 DEF Updated
    <3>3. userRows'[u].active = Active(s, u)
      BY <3>2, <2>1, <1>1, ProjectedRow
    <3> QED
      BY <3>3, <2>2, <2>4 DEF Active
  <2>5. CASE ~s.users[u].scope /\ userRows[u].present
    <3>1. u \in Dropped(s)
      BY <2>5 DEF Dropped
    <3>2. ~userRows'[u].active
      BY <3>1, <2>1, <1>1, ProjectedRow
    <3> QED
      BY <3>2, <2>2, <2>5
  <2>6. CASE ~s.users[u].scope /\ ~userRows[u].present
    <3>1. u \notin Dropped(s) \cup Updated(s) \cup FirstNew(s)
      BY <2>6 DEF Dropped, Updated, FirstNew
    <3>2. userRows'[u] = userRows[u]
      BY <3>1, <2>1, <1>1, ProjectedRow
    <3>3. ~userRows[u].active
      BY <2>6 DEF RowsBehindFeed
    <3> QED
      BY <3>2, <3>3, <2>2, <2>6
  <2> QED
    BY <2>4, <2>5, <2>6
<1> QED
  BY <1>2, <1>3

LEMMA FailsKeeps == ASSUME UserInv, UserSnapshotFails PROVE UserInv'
<1> DEFINE s == Head(userFeed)
<1> USE DEF UserInv
<1>1. /\ userFeed # <<>> /\ s.rev > applied /\ userFeed' = Tail(userFeed) /\ failed' = TRUE
      /\ userRows' = Projected(s) /\ userKeys' = userKeys \cup RevokeKeys(s)
      /\ UNCHANGED <<admin, snaps, applied, changes, userRetries>>
  BY DEF UserSnapshotFails
<1>2. UsersTypeOK' /\ SentWasStored' /\ LatestIsCurrent' /\ RowsBehindFeed'
  BY <1>1, ProjectionKeeps
<1>3. s.rev <= Len(snaps) /\ s.rev \in 1..MaxUserRevision
  BY <1>1, HeadFacts
<1>4. applied' # Len(snaps')
  BY <1>1, <1>3, UsersAssumption DEF UsersTypeOK
<1>5. UsersAgree'
  BY <1>4 DEF UsersAgree
<1> QED
  BY <1>2, <1>5

-----------------------------------------------------------------------------
(* The theorems *)

LEMMA UserInitHolds == UsersInit => UserInv
<1> SUFFICES ASSUME UsersInit PROVE UserInv
  OBVIOUS
<1> USE UsersAssumption DEF UsersInit
<1>1. 1 \in 1..(MaxChanges + 1) /\ 0 \in 0..(MaxChanges + 1) /\ 0 \in 0..MaxUserRevision
  OBVIOUS
<1>2. admin \in UserTables
  BY <1>1 DEF UserTables
<1>3. userRows \in [Users -> SiteRow] /\ \A u \in Users : userRows[u].rev = 0 /\ userRows[u].active = FALSE
  BY <1>1 DEF SiteRow, NoRow
<1>4. UsersTypeOK
  <2>1. /\ snaps \in Seq(UserTables) /\ Len(snaps) <= MaxUserRevision
        /\ userFeed \in Seq([rev : 1..MaxUserRevision, users : UserTables])
    BY EmptySeq
  <2>2. applied \in 0..MaxUserRevision /\ changes \in 0..MaxChanges /\ userRetries \in 0..MaxUserRetries
    OBVIOUS
  <2>3. failed \in BOOLEAN /\ userKeys \subseteq Users \X (1..(MaxUserRevision + MaxChanges + 1))
    OBVIOUS
  <2> QED
    BY <2>1, <2>2, <2>3, <1>2, <1>3 DEF UsersTypeOK, SiteRow
<1>5. SentWasStored /\ LatestIsCurrent /\ UsersAgree
  BY DEF SentWasStored, LatestIsCurrent, UsersAgree
<1>6. \A u \in Users : admin[u].rev = 1
  OBVIOUS
<1>7. RowsBehindFeed
  BY <1>3, <1>6 DEF RowsBehindFeed
<1> QED
  BY <1>4, <1>5, <1>7 DEF UserInv

LEMMA UserStepKeeps == UserInv /\ [UsersNext]_userVars => UserInv'
<1> SUFFICES ASSUME UserInv, [UsersNext]_userVars PROVE UserInv'
  OBVIOUS
<1>1. CASE push_deployment_users
  BY <1>1, PushDeploymentKeeps
<1>2. CASE \E u \in Users : \E enabled, scope \in BOOLEAN : update_user(u, enabled, scope)
  BY <1>2, UpdateUserKeeps
<1>3. CASE \E u \in Users : set_smb_access(u)
  BY <1>3, SmbAccessKeeps
<1>4. CASE retry_deployment_users
  BY <1>4, RetryKeeps
<1>5. CASE DuplicateSnapshot
  BY <1>5, DuplicateKeeps
<1>6. CASE ApplyUserSnapshot
  BY <1>6, ApplyKeeps
<1>7. CASE UserSnapshotFails
  BY <1>7, FailsKeeps
<1>8. CASE UNCHANGED userVars
  BY <1>8 DEF UserInv, UsersTypeOK, SentWasStored, LatestIsCurrent, RowsBehindFeed, UsersAgree, userVars
<1> QED
  BY <1>1, <1>2, <1>3, <1>4, <1>5, <1>6, <1>7, <1>8 DEF UsersNext, SiteProjects

\* Whoever may sign in at the Site once the latest snapshot is applied is who Central
\* says, after any partial applications, retransmissions, changes of users and changes
\* of scope (_upsert_snapshot, push_deployment, retry_deployment, update_user).
THEOREM UsersAreSafe == UsersSpec => []UsersSafe
<1>1. UserInv => UsersSafe
  BY DEF UserInv, UsersSafe
<1> QED
  BY <1>1, UserInitHolds, UserStepKeeps, PTL DEF UsersSpec

=============================================================================
