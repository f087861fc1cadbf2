------------------------ MODULE EventDeploymentProofs ------------------------
(***************************************************************************)
(* Proofs about EventDeployment, for every number of revisions, failures   *)
(* and retries.                                                            *)
(***************************************************************************)
EXTENDS EventDeployment, SequenceTheorems, TLAPS

DepRows == [status : DeploymentStatuses \cup {"ABSENT"}, desired : Revisions, ack : Revisions]
ProjRows == [status : {"ABSENT", "DEPLOYED", "FAILED", "REVOKED"},
             desired : Revisions, applied : Revisions]
FeedRows == [kind : {"snapshot", "revocation", "deletion"}, rev : Revisions]
ReportRows == [status : {"received", "applied", "stale", "failed", "revoked"},
               desired : Revisions, applied : Revisions]
Kinds == {"snapshot", "revocation", "deleted"}
Keys == Revisions \X Revisions \X {"received", "applied", "stale", "revoked"}

-----------------------------------------------------------------------------
(* Queues and numbers *)

LEMMA AppendFacts ==
    ASSUME NEW S, NEW s \in Seq(S), NEW e \in S
    PROVE  /\ Append(s, e) \in Seq(S) /\ Append(s, e) # <<>>
           /\ Len(s) \in Nat /\ Len(Append(s, e)) = Len(s) + 1
           /\ Append(s, e)[Len(Append(s, e))] = e
           /\ \A i \in 1..Len(Append(s, e)) :
                 \/ i = Len(s) + 1 /\ Append(s, e)[i] = e
                 \/ i \in 1..Len(s) /\ Append(s, e)[i] = s[i]
           /\ s # <<>> => Len(Append(s, e)) # 1
<1>1. /\ Append(s, e) \in Seq(S) /\ Append(s, e) # <<>> /\ Len(Append(s, e)) = Len(s) + 1
      /\ \A i \in 1..Len(s) : Append(s, e)[i] = s[i]
      /\ Append(s, e)[Len(s) + 1] = e
  BY AppendProperties
<1>2. Len(s) \in Nat /\ (s # <<>> => Len(s) # 0)
  BY LenProperties, EmptySeq
<1> QED
  BY <1>1, <1>2

LEMMA TailFacts ==
    ASSUME NEW S, NEW s \in Seq(S), s # <<>>
    PROVE  /\ Head(s) = s[1] /\ Head(s) \in S /\ Tail(s) \in Seq(S)
           /\ Len(s) \in Nat /\ 1 <= Len(s) /\ Len(Tail(s)) = Len(s) - 1 /\ Len(Tail(s)) \in Nat
           /\ \A i \in 1..Len(Tail(s)) : i + 1 \in 1..Len(s) /\ Tail(s)[i] = s[i + 1]
           /\ Tail(s) = <<>> <=> Len(s) = 1
           /\ Tail(s) # <<>> => Tail(s)[Len(Tail(s))] = s[Len(s)]
<1>1. /\ Head(s) \in S /\ Tail(s) \in Seq(S) /\ Len(Tail(s)) = Len(s) - 1
      /\ \A i \in 1..Len(Tail(s)) : Tail(s)[i] = s[i + 1]
      /\ Head(s) = s[1]
  BY HeadTailProperties
<1>2. Len(s) \in Nat /\ Len(s) # 0 /\ Len(Tail(s)) \in Nat /\ (Tail(s) = <<>> <=> Len(Tail(s)) = 0)
  BY <1>1, LenProperties, EmptySeq
<1>3. Tail(s) = <<>> <=> Len(s) = 1
  BY <1>1, <1>2
<1>4. Tail(s) # <<>> => Tail(s)[Len(Tail(s))] = s[Len(s)]
  BY <1>1, <1>2
<1>5. \A i \in 1..Len(Tail(s)) : i + 1 \in 1..Len(s)
  BY <1>1, <1>2
<1> QED
  BY <1>1, <1>2, <1>3, <1>4, <1>5

LEMMA MaxMin ==
    ASSUME NEW a \in Revisions, NEW b \in Revisions
    PROVE  /\ Revisions \subseteq Nat
           /\ Max2(a, b) \in Revisions /\ a <= Max2(a, b) /\ b <= Max2(a, b)
           /\ Max2(a, b) = a \/ Max2(a, b) = b
           /\ a <= b => Max2(a, b) = b
           /\ Min2(a, b) \in Revisions /\ Min2(a, b) <= a /\ Min2(a, b) <= b
           /\ a = b => Min2(a, b) = a
BY ConstantsAssumption DEF Max2, Min2, Revisions

-----------------------------------------------------------------------------
(* The invariant *)

DeployInv == TypeOK /\ NotAhead /\ DeploymentCoherent

LEMMA Typed ==
    ASSUME TypeOK
    PROVE  /\ dep \in DepRows /\ reading \in DepRows /\ proj \in ProjRows
           /\ kinds \in Seq(Kinds) /\ feed \in Seq(FeedRows) /\ reports \in Seq(ReportRows)
           /\ rows \in SUBSET Revisions /\ keys \in SUBSET Keys
           /\ dep.desired \in Nat /\ dep.ack \in Nat /\ reading.desired \in Nat /\ reading.ack \in Nat
           /\ proj.desired \in Nat /\ proj.applied \in Nat
           /\ dep.desired \in Revisions /\ dep.ack \in Revisions /\ reading.desired \in Revisions
           /\ reading.ack \in Revisions /\ proj.desired \in Revisions /\ proj.applied \in Revisions
<1>1. Revisions \subseteq Nat
  BY ConstantsAssumption DEF Revisions
<1>2. /\ dep \in DepRows /\ reading \in DepRows /\ proj \in ProjRows
      /\ kinds \in Seq(Kinds) /\ feed \in Seq(FeedRows) /\ reports \in Seq(ReportRows)
      /\ rows \in SUBSET Revisions /\ keys \in SUBSET Keys
  BY DEF TypeOK, DepRows, ProjRows, FeedRows, ReportRows, Kinds, Keys
<1>3. /\ dep.desired \in Revisions /\ dep.ack \in Revisions /\ reading.desired \in Revisions
      /\ reading.ack \in Revisions /\ proj.desired \in Revisions /\ proj.applied \in Revisions
  BY <1>2 DEF DepRows, ProjRows
<1> QED
  BY <1>1, <1>2, <1>3

LEMMA Retyped ==
    ASSUME dep' \in DepRows, reading' \in DepRows, proj' \in ProjRows, kinds' \in Seq(Kinds),
           feed' \in Seq(FeedRows), reports' \in Seq(ReportRows), rows' \in SUBSET Revisions,
           keys' \in SUBSET Keys, jam' \in {"none", "job_key", "room_time"},
           failures' \in 0..MaxFailures, retries' \in 0..MaxRetries
    PROVE  TypeOK'
BY DEF TypeOK, DepRows, ProjRows, FeedRows, ReportRows, Kinds, Keys

\* A row that is there has a status.
LEMMA There ==
    ASSUME DeployInv
    PROVE  /\ dep = Absent <=> dep.status = "ABSENT"
           /\ reading = Absent <=> reading.status = "ABSENT"
           /\ proj = NoProjection <=> proj.status = "ABSENT"
           /\ proj = NoProjection => proj.desired = 0 /\ proj.applied = 0
BY DEF DeployInv, DeploymentCoherent, RowsThere, Absent, NoProjection

\* With no deployment at Central only the rows of the Site and the queues are left.
LEMMA NothingDeployed ==
    ASSUME TypeOK', NotAhead', dep' = Absent, kinds' = <<"deleted">>,
           reading'.status = "ABSENT" => reading' = Absent,
           proj'.status = "ABSENT" => proj' = NoProjection,
           reading' # Absent => reports' # <<>>
    PROVE  DeployInv'
BY DEF DeployInv, DeploymentCoherent, RowsThere, FeedLeadsOn, SiteBehind, ReportsTrue, VerdictComes,
       LastReadCurrent, Absent

-----------------------------------------------------------------------------
(* Central: administrator operations *)

LEMMA CreateKeeps == ASSUME DeployInv, create_deployment PROVE DeployInv'
<1>1. /\ dep = Absent /\ kinds = <<>>
      /\ dep' = [status |-> "PENDING", desired |-> 1, ack |-> 0]
      /\ kinds' = <<"snapshot">> /\ feed' = Append(feed, [kind |-> "snapshot", rev |-> 1])
      /\ UNCHANGED <<reading, proj, rows, keys, jam, failures, reports, retries>>
  BY DEF create_deployment, _enqueue, siteVars
<1>2. /\ feed = <<>> /\ reports = <<>> /\ keys = {} /\ proj = NoProjection /\ reading = Absent
  <2>1. kinds # <<"deleted">>
    BY <1>1
  <2> QED
    BY <1>1, <2>1 DEF DeployInv, DeploymentCoherent, RowsThere
<1>3. 1 \in Revisions /\ 0 \in Revisions
  BY ConstantsAssumption DEF Revisions
<1>4. /\ feed' = <<[kind |-> "snapshot", rev |-> 1]>> /\ Len(feed') = 1
      /\ feed'[1] = [kind |-> "snapshot", rev |-> 1] /\ feed' # <<>>
      /\ Len(kinds') = 1 /\ kinds'[1] = "snapshot" /\ Len(reports') = 0
  BY <1>1, <1>2
<1>5. TypeOK'
  <2>1. dep' \in DepRows
    BY <1>1, <1>3 DEF DepRows, DeploymentStatuses
  <2>2. [kind |-> "snapshot", rev |-> 1] \in FeedRows /\ feed' \in Seq(FeedRows)
    <3>1. [kind |-> "snapshot", rev |-> 1] \in FeedRows
      BY <1>3 DEF FeedRows
    <3> QED
      BY <1>1, <3>1, Typed, AppendFacts DEF DeployInv
  <2>3. kinds' \in Seq(Kinds)
    BY <1>1 DEF Kinds
  <2> QED
    BY <1>1, <2>1, <2>2, <2>3, Typed, Retyped DEF DeployInv, TypeOK
<1>6. RowsThere'
  BY <1>1, <1>2 DEF RowsThere, Absent, NoProjection
<1>7. NotAhead' /\ SiteBehind' /\ ReportsTrue' /\ VerdictComes' /\ LastReadCurrent'
  <2>1. dep'.desired = 1 /\ dep'.ack = 0 /\ proj'.desired = 0 /\ proj'.applied = 0
        /\ proj'.status = "ABSENT" /\ keys' = {}
    BY <1>1, <1>2 DEF NoProjection
  <2>2. ~Concluded'
    BY <1>4, <2>1 DEF Concluded
  <2> QED
    BY <1>1, <1>2, <1>4, <2>1, <2>2 DEF NotAhead, SiteBehind, ReportsTrue, VerdictComes, LastReadCurrent
<1>8. FeedLeadsOn'
  <2>1. proj'.desired = 0 /\ dep'.desired = 1
    BY <1>1, <1>2 DEF NoProjection
  <2> QED
    BY <1>4, <2>1 DEF FeedLeadsOn
<1> QED
  BY <1>5, <1>6, <1>7, <1>8 DEF DeployInv, DeploymentCoherent

\* A new revision: nothing is settled until the Site has dealt with it.
LEMMA RevisionKeeps == ASSUME DeployInv, push_deployment \/ revoke_deployment PROVE DeployInv'
<1>1. PICK kind \in {"snapshot", "revocation"}, st \in {"UPDATE_PENDING", "REVOKED"} :
         /\ dep.status # "ABSENT" /\ dep.desired < MaxRevision
         /\ dep' = [dep EXCEPT !.status = st, !.desired = @ + 1]
         /\ kinds' = Append(kinds, kind)
         /\ feed' = Append(feed, [kind |-> kind, rev |-> dep.desired + 1])
         /\ UNCHANGED <<reading, proj, rows, keys, jam, failures, reports, retries>>
  BY DEF push_deployment, revoke_deployment, _enqueue, siteVars, DEPLOYABLE_STATUSES,
         DeploymentStatuses
<1> DEFINE n == dep.desired + 1
           f == [kind |-> kind, rev |-> n]
<1>2. /\ dep # Absent /\ dep \in DepRows /\ dep.desired \in Nat /\ dep.ack \in Nat
      /\ proj.desired \in Nat /\ proj.applied \in Nat
      /\ proj.desired <= dep.desired /\ proj.applied <= proj.desired /\ dep.ack <= dep.desired
      /\ dep.ack <= proj.applied
      /\ kinds \in Seq(Kinds) /\ feed \in Seq(FeedRows) /\ 1 <= dep.desired /\ Len(kinds) = dep.desired
  BY <1>1, There, Typed DEF DeployInv, NotAhead, DeploymentCoherent, FeedLeadsOn, SiteBehind, ReportsTrue
<1>3. /\ dep'.desired = n /\ dep'.ack = dep.ack /\ dep'.status = st /\ dep' # Absent
      /\ n \in Revisions /\ dep' \in DepRows /\ n \in Nat
  <2>1. n \in Revisions /\ n \in Nat
    BY <1>1, <1>2, ConstantsAssumption DEF Revisions
  <2>2. dep'.desired = n /\ dep'.ack = dep.ack /\ dep'.status = st /\ dep' \in DepRows
    BY <1>1, <1>2, <2>1 DEF DepRows, DeploymentStatuses
  <2> QED
    BY <2>1, <2>2 DEF Absent
<1>4. f \in FeedRows /\ kind \in Kinds
  BY <1>3 DEF FeedRows, Kinds
<1> HIDE DEF n
<1>5. /\ kinds' \in Seq(Kinds) /\ Len(kinds') = n /\ kinds'[n] = kind
      /\ \A i \in 1..dep.desired : kinds'[i] = kinds[i]
  <2>1. Len(kinds') = Len(kinds) + 1 /\ kinds' \in Seq(Kinds)
    BY <1>1, <1>2, <1>4, AppendProperties
  <2>2. kinds'[Len(kinds) + 1] = kind /\ \A i \in 1..Len(kinds) : kinds'[i] = kinds[i]
    BY <1>1, <1>2, <1>4, AppendProperties
  <2> QED
    BY <1>2, <2>1, <2>2 DEF n
<1>6. /\ feed' \in Seq(FeedRows) /\ feed' # <<>> /\ Len(feed) \in Nat /\ Len(feed') = Len(feed) + 1
      /\ feed'[Len(feed')] = f
      /\ \A i \in 1..Len(feed') :
            \/ i = Len(feed) + 1 /\ feed'[i] = f
            \/ i \in 1..Len(feed) /\ feed'[i] = feed[i]
  <2>1. feed' = Append(feed, f) /\ f \in FeedRows
    BY <1>1, <1>4 DEF n
  <2> HIDE DEF f
  <2>2. feed \in Seq(FeedRows)
    BY <1>2
  <2>3. /\ Append(feed, f) \in Seq(FeedRows) /\ Append(feed, f) # <<>>
        /\ Len(feed) \in Nat /\ Len(Append(feed, f)) = Len(feed) + 1
        /\ Append(feed, f)[Len(Append(feed, f))] = f
        /\ \A i \in 1..Len(Append(feed, f)) :
              \/ i = Len(feed) + 1 /\ Append(feed, f)[i] = f
              \/ i \in 1..Len(feed) /\ Append(feed, f)[i] = feed[i]
    BY <2>1, <2>2, AppendFacts
  <2> QED
    BY <2>1, <2>3
<1>7. TypeOK'
  BY <1>1, <1>3, <1>5, <1>6, Typed, Retyped DEF DeployInv, TypeOK
<1>8. RowsThere' /\ NotAhead'
  <2>1. RowsThere'
    BY <1>1, <1>3 DEF DeployInv, DeploymentCoherent, RowsThere
  <2>2. dep.ack <= n
    BY <1>2, <1>3 DEF n
  <2> QED
    BY <1>1, <1>2, <1>3, <2>1, <2>2 DEF NotAhead
<1>9. FeedLeadsOn'
  <2>1. \A i \in 1..Len(kinds') : kinds'[i] # "deleted"
    <3>1. \A i \in 1..n : i = n \/ i \in 1..dep.desired
      BY <1>2 DEF n
    <3>2. \A i \in 1..dep.desired : kinds[i] # "deleted"
      BY <1>2 DEF DeployInv, DeploymentCoherent, FeedLeadsOn
    <3> QED
      BY <1>5, <3>1, <3>2
  <2>2. \A i \in 1..Len(feed) :
           /\ feed[i].rev \in Nat /\ 1 <= feed[i].rev /\ feed[i].rev <= dep.desired
           /\ feed[i].kind = kinds[feed[i].rev] /\ proj.desired <= feed[i].rev
    <3>1. \A i \in 1..Len(feed) : feed[i] \in FeedRows
      BY <1>2, ElementOfSeq
    <3>2. \A i \in 1..Len(feed) : feed[i].rev \in Nat
      BY <3>1, ConstantsAssumption DEF FeedRows, Revisions
    <3> QED
      BY <1>2, <3>2 DEF DeployInv, DeploymentCoherent, FeedLeadsOn
  <2>3. f.rev = n /\ f.kind = kind /\ 1 <= n /\ n <= n /\ proj.desired <= n /\ dep.desired <= n
    BY <1>2, <1>3 DEF n
  <2>4. \A i \in 1..Len(feed') :
           /\ 1 <= feed'[i].rev /\ feed'[i].rev <= n
           /\ feed'[i].kind = kinds'[feed'[i].rev] /\ proj.desired <= feed'[i].rev
    <3> SUFFICES ASSUME NEW i \in 1..Len(feed')
                 PROVE  /\ 1 <= feed'[i].rev /\ feed'[i].rev <= n
                        /\ feed'[i].kind = kinds'[feed'[i].rev] /\ proj.desired <= feed'[i].rev
      OBVIOUS
    <3> HIDE DEF f
    <3>1. CASE feed'[i] = f
      BY <1>5, <2>3, <3>1
    <3>2. CASE i \in 1..Len(feed) /\ feed'[i] = feed[i]
      <4>1. feed[i].rev \in 1..dep.desired /\ feed[i].rev <= n
        BY <1>2, <1>3, <2>2, <2>3, <3>2
      <4> QED
        BY <1>5, <2>2, <3>2, <4>1
    <3> QED
      BY <1>6, <3>1, <3>2
  <2>5. \A i, j \in 1..Len(feed') : i <= j => feed'[i].rev <= feed'[j].rev
    <3> SUFFICES ASSUME NEW i \in 1..Len(feed'), NEW j \in 1..Len(feed'), i <= j
                 PROVE  feed'[i].rev <= feed'[j].rev
      OBVIOUS
    <3> HIDE DEF f
    <3>1. CASE feed'[j] = f
      BY <2>3, <2>4, <3>1
    <3>2. CASE j \in 1..Len(feed) /\ feed'[j] = feed[j]
      <4>1. i \in 1..Len(feed) /\ feed'[i] = feed[i]
        BY <1>6, <3>2
      <4> QED
        BY <1>2, <3>2, <4>1 DEF DeployInv, DeploymentCoherent, FeedLeadsOn
    <3> QED
      BY <1>6, <3>1, <3>2
  <2> QED
    BY <1>1, <1>3, <1>5, <1>6, <2>1, <2>3, <2>4, <2>5 DEF FeedLeadsOn
<1>10. SiteBehind'
  <2>1. proj.status \in {"DEPLOYED", "REVOKED"} => proj.applied \in 1..dep.desired
    BY <1>2 DEF DeployInv, DeploymentCoherent, SiteBehind
  <2>2. proj.desired <= n
    BY <1>2 DEF n
  <2> QED
    BY <1>1, <1>2, <1>3, <1>5, <2>1, <2>2 DEF DeployInv, DeploymentCoherent, SiteBehind
<1>11. ReportsTrue'
  <2>1. reading.desired <= dep.desired => reading.desired <= n
    BY <1>2, Typed DEF DeployInv, n
  <2> QED
    BY <1>1, <1>2, <1>3, <2>1 DEF DeployInv, DeploymentCoherent, ReportsTrue
<1>12. VerdictComes' /\ LastReadCurrent'
  <2>1. ~Concluded'
    BY <1>1, <1>2, <1>3, <1>6 DEF Concluded, n
  <2> QED
    BY <2>1 DEF VerdictComes, LastReadCurrent
<1> QED
  BY <1>7, <1>8, <1>9, <1>10, <1>11, <1>12 DEF DeployInv, DeploymentCoherent

\* The desired revision again: the feed repeats its last step.
LEMMA RetryKeeps == ASSUME DeployInv, retry_deployment PROVE DeployInv'
<1>1. PICK st \in {"PENDING", "UPDATE_PENDING"} :
         /\ dep.status = "FAILED" /\ retries < MaxRetries /\ retries' = retries + 1
         /\ dep' = [dep EXCEPT !.status = st]
         /\ feed' = Append(feed, [kind |-> kinds[dep.desired], rev |-> dep.desired])
         /\ UNCHANGED <<kinds, reading, proj, rows, keys, jam, failures, reports>>
  BY DEF retry_deployment, _enqueue, siteVars
<1> DEFINE n == dep.desired
           f == [kind |-> kinds[n], rev |-> n]
<1>2. /\ dep # Absent /\ dep \in DepRows /\ n \in Nat /\ dep.ack \in Nat
      /\ proj.desired \in Nat /\ proj.applied \in Nat
      /\ proj.desired <= n /\ proj.applied <= proj.desired
      /\ kinds \in Seq(Kinds) /\ feed \in Seq(FeedRows) /\ 1 <= n /\ Len(kinds) = n
      /\ n \in Revisions
  BY <1>1, There, Typed DEF DeployInv, NotAhead, DeploymentCoherent, FeedLeadsOn, SiteBehind, ReportsTrue
<1>3. /\ dep'.desired = n /\ dep'.ack = dep.ack /\ dep'.status = st /\ dep' # Absent
      /\ dep' \in DepRows
  <2>1. dep'.desired = n /\ dep'.ack = dep.ack /\ dep'.status = st /\ dep' \in DepRows
    BY <1>1, <1>2 DEF DepRows, DeploymentStatuses
  <2> QED
    BY <2>1 DEF Absent
<1>4. f \in FeedRows /\ f.rev = n /\ f.kind = kinds[n]
  <2>1. kinds[n] \in Kinds /\ kinds[n] # "deleted"
    <3>1. n \in 1..Len(kinds)
      BY <1>2
    <3> QED
      BY <1>2, <3>1, ElementOfSeq DEF DeployInv, DeploymentCoherent, FeedLeadsOn
  <2> QED
    BY <1>2, <2>1 DEF FeedRows, Kinds
<1>5. /\ feed' \in Seq(FeedRows) /\ feed' # <<>> /\ Len(feed) \in Nat /\ Len(feed') = Len(feed) + 1
      /\ feed'[Len(feed')] = f
      /\ \A i \in 1..Len(feed') :
            \/ i = Len(feed) + 1 /\ feed'[i] = f
            \/ i \in 1..Len(feed) /\ feed'[i] = feed[i]
  <2>1. feed' = Append(feed, f) /\ f \in FeedRows
    BY <1>1, <1>4
  <2> HIDE DEF f
  <2>2. feed \in Seq(FeedRows)
    BY <1>2
  <2>3. /\ Append(feed, f) \in Seq(FeedRows) /\ Append(feed, f) # <<>>
        /\ Len(feed) \in Nat /\ Len(Append(feed, f)) = Len(feed) + 1
        /\ Append(feed, f)[Len(Append(feed, f))] = f
        /\ \A i \in 1..Len(Append(feed, f)) :
              \/ i = Len(feed) + 1 /\ Append(feed, f)[i] = f
              \/ i \in 1..Len(feed) /\ Append(feed, f)[i] = feed[i]
    BY <2>1, <2>2, AppendFacts
  <2> QED
    BY <2>1, <2>3
<1> HIDE DEF f
<1>6. TypeOK'
  <2>1. retries' \in 0..MaxRetries
    BY <1>1, ConstantsAssumption DEF DeployInv, TypeOK
  <2> QED
    BY <1>1, <1>3, <1>5, <2>1, Typed, Retyped DEF DeployInv, TypeOK
<1>7. RowsThere' /\ NotAhead'
  BY <1>1, <1>3 DEF DeployInv, DeploymentCoherent, RowsThere, NotAhead
<1>8. FeedLeadsOn'
  <2>1. \A i \in 1..Len(feed) :
           /\ 1 <= feed[i].rev /\ feed[i].rev <= n
           /\ feed[i].kind = kinds[feed[i].rev] /\ proj.desired <= feed[i].rev
    BY <1>2 DEF DeployInv, DeploymentCoherent, FeedLeadsOn
  <2>2. \A i \in 1..Len(feed') :
           /\ 1 <= feed'[i].rev /\ feed'[i].rev <= n
           /\ feed'[i].kind = kinds[feed'[i].rev] /\ proj.desired <= feed'[i].rev
    BY <1>2, <1>4, <1>5, <2>1
  <2>3. \A i, j \in 1..Len(feed') : i <= j => feed'[i].rev <= feed'[j].rev
    <3> SUFFICES ASSUME NEW i \in 1..Len(feed'), NEW j \in 1..Len(feed'), i <= j
                 PROVE  feed'[i].rev <= feed'[j].rev
      OBVIOUS
    <3>1. CASE feed'[j] = f
      BY <1>4, <2>2, <3>1
    <3>2. CASE j \in 1..Len(feed) /\ feed'[j] = feed[j]
      <4>1. i \in 1..Len(feed) /\ feed'[i] = feed[i]
        BY <1>5, <3>2
      <4> QED
        BY <1>2, <3>2, <4>1 DEF DeployInv, DeploymentCoherent, FeedLeadsOn
    <3> QED
      BY <1>5, <3>1, <3>2
  <2> QED
    BY <1>1, <1>2, <1>3, <1>4, <1>5, <2>2, <2>3 DEF DeployInv, DeploymentCoherent, FeedLeadsOn
<1>9. SiteBehind' /\ ReportsTrue'
  BY <1>1, <1>2, <1>3 DEF DeployInv, DeploymentCoherent, SiteBehind, ReportsTrue
<1>10. VerdictComes' /\ LastReadCurrent'
  <2> SUFFICES ASSUME Concluded' PROVE VerdictComes' /\ LastReadCurrent'
    BY DEF VerdictComes, LastReadCurrent
  <2>1. proj.applied = n /\ Concluded
    BY <1>1, <1>3, <1>5 DEF Concluded
  <2>2. dep.status # proj.status
    BY <1>1, <1>2, <2>1 DEF DeployInv, DeploymentCoherent, SiteBehind
  <2>3. reports # <<>> /\ reports[Len(reports)] = Verdict
    BY <1>2, <2>1, <2>2 DEF DeployInv, DeploymentCoherent, VerdictComes
  <2>4. VerdictComes'
    BY <1>1, <1>3, <2>1, <2>3 DEF VerdictComes, Verdict
  <2>5. LastReadCurrent'
    BY <1>1, <1>2, <1>3, <2>1 DEF DeployInv, DeploymentCoherent, LastReadCurrent
  <2> QED
    BY <2>4, <2>5
<1> QED
  BY <1>6, <1>7, <1>8, <1>9, <1>10 DEF DeployInv, DeploymentCoherent

LEMMA DeleteKeeps == ASSUME DeployInv, _delete_event PROVE DeployInv'
<1>1. /\ dep' = Absent /\ kinds' = <<"deleted">>
      /\ feed' = Append(feed, [kind |-> "deletion", rev |-> 0])
      /\ UNCHANGED <<reading, proj, rows, keys, jam, failures, reports, retries>>
  BY DEF _delete_event, _enqueue, siteVars
<1>2. 0 \in Revisions
  BY ConstantsAssumption DEF Revisions
<1>3. dep' \in DepRows /\ kinds' \in Seq(Kinds) /\ [kind |-> "deletion", rev |-> 0] \in FeedRows
  BY <1>1, <1>2 DEF DepRows, Absent, Kinds, FeedRows
<1>4. feed' \in Seq(FeedRows)
  BY <1>1, <1>3, Typed, AppendFacts DEF DeployInv
<1>5. TypeOK'
  BY <1>1, <1>3, <1>4, Typed, Retyped DEF DeployInv, TypeOK
<1>6. NotAhead'
  BY <1>1 DEF DeployInv, NotAhead, Absent
<1> QED
  BY <1>1, <1>5, <1>6, NothingDeployed DEF DeployInv, DeploymentCoherent, RowsThere

-----------------------------------------------------------------------------
(* Site: the head of the feed *)

\* What is known of the event at the head, with the deployment in place.
LEMMA HeadFacts ==
    ASSUME DeployInv, feed # <<>>, dep # Absent
    PROVE  /\ Head(feed).rev \in Revisions /\ Head(feed).rev \in Nat
           /\ 1 <= Head(feed).rev /\ Head(feed).rev <= dep.desired
           /\ Head(feed).kind = kinds[Head(feed).rev] /\ proj.desired <= Head(feed).rev
           /\ proj.applied <= proj.desired /\ proj.desired <= dep.desired
           /\ Tail(feed) = <<>> => Head(feed).rev = dep.desired
<1>1. /\ Head(feed) = feed[1] /\ Head(feed) \in FeedRows /\ 1 <= Len(feed) /\ Len(feed) \in Nat
      /\ Tail(feed) = <<>> => Len(feed) = 1
  BY Typed, TailFacts DEF DeployInv
<1>2. 1 \in 1..Len(feed)
  BY <1>1
<1>3. Head(feed).rev \in Revisions
  BY <1>1 DEF FeedRows
<1>4. Revisions \subseteq Nat
  BY ConstantsAssumption DEF Revisions
<1>5. /\ 1 <= feed[1].rev /\ feed[1].rev <= dep.desired
      /\ feed[1].kind = kinds[feed[1].rev] /\ proj.desired <= feed[1].rev
      /\ feed[Len(feed)].rev = dep.desired
  BY <1>2 DEF DeployInv, DeploymentCoherent, FeedLeadsOn
<1> QED
  BY <1>1, <1>3, <1>4, <1>5 DEF DeployInv, NotAhead, DeploymentCoherent, SiteBehind

\* The head is consumed and the Site is told of no later revision than the head's.
LEMMA FeedConsumed ==
    ASSUME DeployInv, feed # <<>>, feed' = Tail(feed), UNCHANGED <<dep, kinds>>,
           proj'.desired \in Nat, proj'.desired <= Head(feed).rev
    PROVE  FeedLeadsOn'
<1> SUFFICES ASSUME dep # Absent PROVE FeedLeadsOn'
  BY DEF FeedLeadsOn
<1>1. /\ Head(feed) = feed[1] /\ 1 <= Len(feed) /\ Len(feed) \in Nat /\ Len(feed') = Len(feed) - 1
      /\ \A i \in 1..Len(feed') : i + 1 \in 1..Len(feed) /\ feed'[i] = feed[i + 1]
      /\ feed' # <<>> => feed'[Len(feed')] = feed[Len(feed)]
  BY Typed, TailFacts DEF DeployInv
<1>2. /\ 1 <= dep.desired /\ Len(kinds) = dep.desired
      /\ \A i \in 1..Len(kinds) : kinds[i] # "deleted"
      /\ \A i \in 1..Len(feed) :
            /\ 1 <= feed[i].rev /\ feed[i].rev <= dep.desired
            /\ feed[i].kind = kinds[feed[i].rev]
      /\ \A i, j \in 1..Len(feed) : i <= j => feed[i].rev <= feed[j].rev
      /\ feed[Len(feed)].rev = dep.desired
  BY DEF DeployInv, DeploymentCoherent, FeedLeadsOn
<1>3. \A i \in 1..Len(feed) : feed[i].rev \in Nat
  <2>1. \A i \in 1..Len(feed) : feed[i] \in FeedRows
    BY Typed, ElementOfSeq DEF DeployInv
  <2> QED
    BY <2>1, ConstantsAssumption DEF FeedRows, Revisions
<1>4. ASSUME NEW i \in 1..Len(feed')
      PROVE  /\ 1 <= feed'[i].rev /\ feed'[i].rev <= dep.desired
             /\ feed'[i].kind = kinds[feed'[i].rev] /\ proj'.desired <= feed'[i].rev
  <2>1. i + 1 \in 1..Len(feed) /\ feed'[i] = feed[i + 1] /\ 1 \in 1..Len(feed) /\ 1 <= i + 1
    BY <1>1
  <2>2. feed[1].rev <= feed[i + 1].rev
    BY <1>2, <2>1
  <2>3. proj'.desired <= feed[i + 1].rev
    BY <1>1, <1>3, <2>1, <2>2
  <2> QED
    BY <1>2, <2>1, <2>3
<1>5. ASSUME NEW i \in 1..Len(feed'), NEW j \in 1..Len(feed'), i <= j
      PROVE  feed'[i].rev <= feed'[j].rev
  <2>1. i + 1 \in 1..Len(feed) /\ j + 1 \in 1..Len(feed) /\ i + 1 <= j + 1
    BY <1>1, <1>5
  <2> QED
    BY <1>1, <1>2, <2>1
<1> QED
  BY <1>1, <1>2, <1>4, <1>5 DEF FeedLeadsOn

\* With its event deleted, the Site works off the rest of the feed.
LEMMA SiteAlone ==
    ASSUME DeployInv, dep = Absent, feed # <<>>, UNCHANGED <<dep, kinds, reading>>, TypeOK',
           proj'.applied <= proj'.desired, proj'.status = "ABSENT" => proj' = NoProjection,
           reports # <<>> => reports' # <<>>
    PROVE  DeployInv'
<1>1. kinds' = <<"deleted">>
  BY DEF DeployInv, DeploymentCoherent, RowsThere
<1>2. NotAhead'
  BY DEF NotAhead, Absent
<1> QED
  BY <1>1, <1>2, NothingDeployed DEF DeployInv, DeploymentCoherent, RowsThere

\* A report that says no more than the Site has applied.
Says(r, n) == /\ r.status \in {"applied", "stale"} => r.applied <= n
              /\ r.status = "revoked" => r.desired <= n

\* What a Site step leaves true of Central's row, of the handler's and of the reports.
LEMMA ReportsStayTrue ==
    ASSUME DeployInv, UNCHANGED <<dep, reading>>, proj'.applied \in Nat,
           proj.applied <= proj'.applied, reports' \in Seq(ReportRows),
           \A i \in 1..Len(reports') :
              Says(reports'[i], proj'.applied) \/ \E j \in 1..Len(reports) : reports'[i] = reports[j]
    PROVE  ReportsTrue'
<1> SUFFICES ASSUME dep # Absent PROVE ReportsTrue'
  BY DEF ReportsTrue
<1>1. /\ dep.ack \in Nat /\ proj.applied \in Nat /\ reports \in Seq(ReportRows)
      /\ dep.ack <= proj.applied
      /\ reading # Absent => /\ reading.ack = dep.ack
                             /\ reading.ack <= reading.desired /\ reading.desired <= dep.desired
      /\ \A j \in 1..Len(reports) : Says(reports[j], proj.applied)
  BY Typed DEF DeployInv, DeploymentCoherent, ReportsTrue, Says
<1>2. \A j \in 1..Len(reports) : reports[j].applied \in Nat /\ reports[j].desired \in Nat
  <2>1. \A j \in 1..Len(reports) : reports[j] \in ReportRows
    BY <1>1, ElementOfSeq
  <2> QED
    BY <2>1, ConstantsAssumption DEF ReportRows, Revisions
<1>3. \A j \in 1..Len(reports) : Says(reports[j], proj'.applied)
  BY <1>1, <1>2 DEF Says
<1>4. \A i \in 1..Len(reports') : Says(reports'[i], proj'.applied)
  BY <1>3
<1>5. dep.ack <= proj'.applied
  BY <1>1
<1> QED
  BY <1>1, <1>4, <1>5 DEF ReportsTrue, Says

\* A failed application: the failure is the last report, and nothing newer was applied.
LEMMA FailureKeeps == ASSUME DeployInv, SnapshotFails \/ UnknownRevocation PROVE DeployInv'
<1> DEFINE rev == Head(feed).rev
           r == [status |-> "failed", desired |-> rev, applied |-> proj.applied]
<1>1. /\ feed # <<>> /\ feed' = Tail(feed)
      /\ proj' = IF proj = NoProjection THEN proj
                 ELSE [proj EXCEPT !.status = "FAILED", !.desired = Max2(@, rev)]
      /\ reports' = Append(reports, r)
      /\ UNCHANGED <<dep, kinds, reading, retries, rows, keys, jam>>
      /\ failures' = failures \/ (failures < MaxFailures /\ failures' = failures + 1)
      /\ proj = NoProjection \/ rev > proj.applied
  BY DEF SnapshotFails, FreshSnapshot, UnknownRevocation, ReportFailure, centralVars
<1>2. /\ feed' \in Seq(FeedRows) /\ rev \in Revisions /\ Revisions \subseteq Nat
  <2>1. feed' \in Seq(FeedRows) /\ Head(feed) \in FeedRows
    BY <1>1, Typed, TailFacts DEF DeployInv
  <2> QED
    BY <2>1, ConstantsAssumption DEF FeedRows, Revisions
<1>3. /\ proj \in ProjRows /\ proj.desired \in Revisions /\ proj.applied \in Revisions
      /\ proj.desired \in Nat /\ proj.applied \in Nat /\ reports \in Seq(ReportRows)
  BY Typed DEF DeployInv
<1>4. /\ Max2(proj.desired, rev) \in Revisions /\ proj.desired <= Max2(proj.desired, rev)
      /\ Max2(proj.desired, rev) \in Nat /\ rev <= Max2(proj.desired, rev)
      /\ proj.desired <= rev => Max2(proj.desired, rev) = rev
  BY <1>2, <1>3, MaxMin
<1>5. r \in ReportRows
  BY <1>2, <1>3 DEF ReportRows
<1> HIDE DEF rev
<1>6. /\ proj' \in ProjRows /\ proj'.applied = proj.applied
      /\ proj = NoProjection => proj' = proj
      /\ proj # NoProjection => proj'.status = "FAILED" /\ proj'.desired = Max2(proj.desired, rev)
  BY <1>1, <1>3, <1>4 DEF ProjRows
<1>7. /\ reports' \in Seq(ReportRows) /\ reports' # <<>> /\ reports'[Len(reports')] = r
      /\ reports # <<>> => Len(reports') # 1
      /\ \A i \in 1..Len(reports') : reports'[i] = r \/ \E j \in 1..Len(reports) : reports'[i] = reports[j]
  <2>1. reports' = Append(reports, r) /\ r \in ReportRows
    BY <1>1, <1>5
  <2> HIDE DEF r
  <2> QED
    BY <1>3, <2>1, AppendFacts
<1>8. TypeOK'
  <2>1. failures' \in 0..MaxFailures
    BY <1>1, ConstantsAssumption DEF DeployInv, TypeOK
  <2> QED
    BY <1>1, <1>2, <1>6, <1>7, <2>1, Typed, Retyped DEF DeployInv, TypeOK
<1>9. proj'.applied <= proj'.desired /\ (proj'.status = "ABSENT" => proj' = NoProjection)
  BY <1>3, <1>4, <1>6, There DEF DeployInv, NotAhead
<1>10. CASE dep = Absent
  BY <1>1, <1>7, <1>8, <1>9, <1>10, SiteAlone
<1>11. CASE dep # Absent
  <2>1. /\ 1 <= rev /\ rev <= dep.desired /\ proj.desired <= rev /\ proj.desired <= dep.desired
        /\ Tail(feed) = <<>> => rev = dep.desired
        /\ dep.desired \in Nat
    BY <1>1, <1>11, HeadFacts, Typed DEF DeployInv, rev
  <2>2. proj.applied < rev
    BY <1>1, <1>2, <1>3, <2>1, There
  <2>3. proj'.desired \in Nat /\ proj'.desired <= rev /\ proj'.desired <= dep.desired
    BY <1>2, <1>3, <1>4, <1>6, <2>1
  <2>4. FeedLeadsOn'
    BY <1>1, <2>3, FeedConsumed DEF rev
  <2>5. RowsThere' /\ NotAhead'
    BY <1>1, <1>7, <1>9, <1>11 DEF DeployInv, NotAhead, DeploymentCoherent, RowsThere
  <2>6. SiteBehind'
    <3>1. proj # NoProjection => proj'.desired = rev
      BY <1>4, <1>6, <2>1
    <3>2. proj = NoProjection => proj'.status = "ABSENT"
      BY <1>6, There
    <3>3. proj'.status = "FAILED" => proj'.applied < proj'.desired
      BY <1>6, <2>2, <3>1, <3>2
    <3>4. proj'.status \notin {"DEPLOYED", "REVOKED"}
      BY <1>6, <3>2
    <3> QED
      BY <1>1, <1>6, <1>11, <2>3, <3>3, <3>4 DEF DeployInv, DeploymentCoherent, SiteBehind
  <2>7. ReportsTrue'
    <3>1. Says(r, proj'.applied)
      BY DEF Says
    <3>2. proj'.applied \in Nat /\ proj.applied <= proj'.applied
      BY <1>3, <1>6
    <3> HIDE DEF r
    <3> QED
      BY <1>1, <1>7, <3>1, <3>2, ReportsStayTrue
  <2>8. VerdictComes' /\ LastReadCurrent'
    <3>1. proj'.applied # dep'.desired
      BY <1>1, <1>2, <1>3, <1>6, <2>1, <2>2
    <3>2. reading' # Absent => Len(reports') # 1
      BY <1>1, <1>7 DEF DeployInv, DeploymentCoherent, RowsThere
    <3>3. r.status = "failed"
      OBVIOUS
    <3> HIDE DEF r
    <3> QED
      BY <1>7, <3>1, <3>2, <3>3 DEF VerdictComes, LastReadCurrent
  <2> QED
    BY <1>8, <2>4, <2>5, <2>6, <2>7, <2>8 DEF DeployInv, DeploymentCoherent
<1> QED
  BY <1>10, <1>11


Report(p, status) == [status |-> status, desired |-> p.desired, applied |-> p.applied]

\* _status_event leaves the queue or appends the report to it.
LEMMA StatusEvent ==
    ASSUME NEW q \in Seq(ReportRows), NEW p \in ProjRows,
           NEW status \in {"received", "applied", "stale", "revoked"}
    PROVE  /\ Report(p, status) \in ReportRows
           /\ \/ _status_event(q, p, status) = q /\ <<p.desired, p.applied, status>> \in keys
              \/ _status_event(q, p, status) = Append(q, Report(p, status))
           /\ _status_event(q, p, status) \in Seq(ReportRows)
           /\ q # <<>> => _status_event(q, p, status) # <<>>
           /\ \A i \in 1..Len(_status_event(q, p, status)) :
                 \/ _status_event(q, p, status)[i] = Report(p, status)
                 \/ \E j \in 1..Len(q) : _status_event(q, p, status)[i] = q[j]
<1> DEFINE r == Report(p, status)
           t == _status_event(q, p, status)
<1>1. r \in ReportRows
  BY DEF Report, ProjRows, ReportRows
<1>2. \/ t = q /\ <<p.desired, p.applied, status>> \in keys
      \/ t = Append(q, r)
  BY DEF _status_event, Report
<1> HIDE DEF r, t
<1>3. CASE t = q
  BY <1>1, <1>2, <1>3 DEF r, t
<1>4. CASE t = Append(q, r)
  <2>1. /\ t \in Seq(ReportRows) /\ t # <<>>
        /\ \A i \in 1..Len(t) : t[i] = r \/ \E j \in 1..Len(q) : t[i] = q[j]
    BY <1>1, <1>4, AppendFacts
  <2> QED
    BY <1>1, <1>2, <2>1 DEF r, t
<1> QED
  BY <1>2, <1>3, <1>4

LEMMA KeysTyped ==
    ASSUME DeployInv, NEW p \in ProjRows,
           NEW S \in SUBSET {"received", "applied", "stale", "revoked"}, keys' = StatusKeys(p, S)
    PROVE  /\ keys' \in SUBSET Keys
           /\ \A k \in keys' : k \in keys \/ k[2] = p.applied
<1>1. p.desired \in Revisions /\ p.applied \in Revisions /\ keys \in SUBSET Keys
  BY Typed DEF ProjRows, DeployInv
<1>2. \A st \in S : <<p.desired, p.applied, st>> \in Keys
  BY <1>1 DEF Keys
<1>3. \A k \in keys' : k \in keys \/ \E st \in S : k = <<p.desired, p.applied, st>>
  BY DEF StatusKeys
<1> QED
  BY <1>1, <1>2, <1>3

\* The Site applies the revision at the head: its verdict is the last report.
LEMMA AppliedKeeps ==
    ASSUME DeployInv, dep # Absent, feed # <<>>, feed' = Tail(feed), TypeOK',
           UNCHANGED <<dep, kinds, reading>>, proj.applied < Head(feed).rev,
           NEW st \in {"DEPLOYED", "REVOKED"},
           Head(feed).kind = IF st = "DEPLOYED" THEN "snapshot" ELSE "revocation",
           proj' = [status |-> st, desired |-> Head(feed).rev, applied |-> Head(feed).rev],
           \A k \in keys' : k \in keys \/ k[2] = Head(feed).rev,
           reports' # <<>>, reports # <<>> => Len(reports') # 1,
           reports'[Len(reports')] = Report(proj', IF st = "DEPLOYED" THEN "applied" ELSE "revoked"),
           \A i \in 1..Len(reports') :
              \/ \E s \in {"received", "applied", "revoked"} : reports'[i] = Report(proj', s)
              \/ \E j \in 1..Len(reports) : reports'[i] = reports[j]
    PROVE  DeployInv'
<1> DEFINE rev == Head(feed).rev
<1>1. /\ 1 <= rev /\ rev <= dep.desired /\ proj.desired <= rev /\ rev \in Nat
      /\ Tail(feed) = <<>> => rev = dep.desired
      /\ Head(feed).kind = kinds[rev] /\ proj.applied <= proj.desired
      /\ dep.desired \in Nat /\ proj.applied \in Nat /\ proj.desired \in Nat
  BY HeadFacts, Typed DEF DeployInv
<1>2. /\ proj'.status = st /\ proj'.desired = rev /\ proj'.applied = rev
      /\ proj' # NoProjection /\ proj'.status # "ABSENT"
  BY DEF NoProjection
<1> HIDE DEF rev
<1>3. FeedLeadsOn'
  BY <1>1, <1>2, FeedConsumed DEF rev
<1>4. RowsThere'
  BY <1>2 DEF DeployInv, DeploymentCoherent, RowsThere
<1>5. NotAhead'
  <2>1. rev <= rev
    BY <1>1
  <2> QED
    BY <1>2, <2>1 DEF DeployInv, NotAhead
<1>6. SiteBehind'
  <2>1. \A k \in keys : k[2] \in Nat /\ k[2] <= proj.applied
    <3>1. \A k \in keys : k \in Keys
      BY Typed DEF DeployInv
    <3>2. \A k \in keys : k[2] \in Nat
      BY <3>1, ConstantsAssumption DEF Keys, Revisions
    <3> QED
      BY <3>2 DEF DeployInv, DeploymentCoherent, SiteBehind
  <2>2. \A k \in keys' : k[2] <= rev
    BY <1>1, <2>1 DEF rev
  <2>3. kinds[rev] = IF st = "DEPLOYED" THEN "snapshot" ELSE "revocation"
    BY <1>1 DEF rev
  <2> QED
    BY <1>1, <1>2, <2>2, <2>3 DEF SiteBehind
<1>7. ReportsTrue'
  <2>1. \A s \in {"received", "applied", "revoked"} : Says(Report(proj', s), proj'.applied)
    <3>1. rev <= rev
      BY <1>1
    <3> QED
      BY <1>2, <3>1 DEF Says, Report
  <2>2. proj'.applied \in Nat /\ proj.applied <= proj'.applied
    BY <1>1, <1>2
  <2>3. reports' \in Seq(ReportRows)
    BY DEF TypeOK, ReportRows
  <2> QED
    BY <2>1, <2>2, <2>3, ReportsStayTrue
<1>8. VerdictComes' /\ LastReadCurrent'
  <2>1. reading' # Absent => Len(reports') # 1
    BY DEF DeployInv, DeploymentCoherent, RowsThere
  <2>2. Concluded' => rev = dep.desired
    BY <1>1, <1>2 DEF Concluded
  <2>3. rev = dep.desired => reports'[Len(reports')] = Verdict'
    BY <1>2 DEF Verdict, Report
  <2> QED
    BY <1>2, <2>1, <2>2, <2>3 DEF VerdictComes, LastReadCurrent
<1> QED
  BY <1>3, <1>4, <1>5, <1>6, <1>7, <1>8 DEF DeployInv, DeploymentCoherent

\* The revision at the head is the one the Site runs: nothing changes but a report that
\* may be repeated.
LEMMA RepeatedKeeps ==
    ASSUME DeployInv, dep # Absent, feed # <<>>, feed' = Tail(feed), TypeOK',
           UNCHANGED <<dep, kinds, reading, proj>>, proj # NoProjection,
           proj.applied = Head(feed).rev,
           \A k \in keys' : k \in keys \/ k[2] = Head(feed).rev,
           \/ reports' = reports
           \/ reports' = Append(reports, Report(proj, IF Head(feed).kind = "snapshot" THEN "applied"
                                                      ELSE "revoked"))
    PROVE  DeployInv'
<1> DEFINE rev == Head(feed).rev
           s == IF Head(feed).kind = "snapshot" THEN "applied" ELSE "revoked"
<1>1. /\ 1 <= rev /\ rev <= dep.desired /\ proj.desired <= rev /\ rev \in Nat
      /\ Tail(feed) = <<>> => rev = dep.desired
      /\ Head(feed).kind = kinds[rev] /\ proj.applied <= proj.desired
      /\ dep.desired \in Nat /\ proj.applied \in Nat /\ proj.desired \in Nat /\ proj \in ProjRows
  BY HeadFacts, Typed DEF DeployInv
<1>2. proj.desired = rev /\ proj.applied = rev
  BY <1>1
<1>3. proj.status \in {"DEPLOYED", "REVOKED"} /\ s = IF proj.status = "DEPLOYED" THEN "applied" ELSE "revoked"
  <2>1. proj.status # "ABSENT" /\ proj.status # "FAILED"
    BY <1>1, <1>2, There DEF DeployInv, DeploymentCoherent, SiteBehind
  <2>2. proj.status \in {"DEPLOYED", "REVOKED"}
    BY <1>1, <2>1 DEF ProjRows
  <2>3. kinds[rev] = IF proj.status = "DEPLOYED" THEN "snapshot" ELSE "revocation"
    BY <1>2, <2>2 DEF DeployInv, DeploymentCoherent, SiteBehind
  <2> QED
    BY <1>1, <2>2, <2>3
<1>4. Report(proj, s) \in ReportRows
  <2>1. s \in {"applied", "revoked"}
    OBVIOUS
  <2> HIDE DEF s
  <2> QED
    BY <1>1, <2>1 DEF Report, ReportRows, ProjRows
<1>5. reports' = reports \/ reports' = Append(reports, Report(proj, s))
  OBVIOUS
<1> HIDE DEF rev, s
<1>6. /\ reports # <<>> => reports' # <<>>
      /\ \A i \in 1..Len(reports') : \/ reports'[i] = Report(proj, s)
                                     \/ \E j \in 1..Len(reports) : reports'[i] = reports[j]
      /\ reports' # reports => /\ reports' # <<>> /\ reports'[Len(reports')] = Report(proj, s)
                               /\ reports # <<>> => Len(reports') # 1
  <2>1. CASE reports' = reports
    BY <2>1
  <2>2. CASE reports' = Append(reports, Report(proj, s))
    <3>1. reports \in Seq(ReportRows)
      BY Typed DEF DeployInv
    <3> QED
      BY <1>4, <2>2, <3>1, AppendFacts
  <2> QED
    BY <1>5, <2>1, <2>2
<1>7. FeedLeadsOn'
  BY <1>1, FeedConsumed DEF rev
<1>8. RowsThere' /\ NotAhead'
  BY <1>6 DEF DeployInv, DeploymentCoherent, RowsThere, NotAhead
<1>9. SiteBehind'
  <2>1. rev <= rev
    BY <1>1
  <2>2. \A k \in keys' : k[2] <= proj.applied
    BY <1>2, <2>1 DEF DeployInv, DeploymentCoherent, SiteBehind, rev
  <2> QED
    BY <2>2 DEF DeployInv, DeploymentCoherent, SiteBehind
<1>10. ReportsTrue'
  <2>1. rev <= rev
    BY <1>1
  <2>2. Says(Report(proj, s), proj'.applied)
    BY <1>2, <1>3, <2>1 DEF Says, Report
  <2>3. proj'.applied \in Nat /\ proj.applied <= proj'.applied
    BY <1>1
  <2>4. reports' \in Seq(ReportRows)
    BY DEF TypeOK, ReportRows
  <2> QED
    BY <1>6, <2>2, <2>3, <2>4, ReportsStayTrue
<1>11. VerdictComes' /\ LastReadCurrent'
  <2> SUFFICES ASSUME Concluded' PROVE VerdictComes' /\ LastReadCurrent'
    BY DEF VerdictComes, LastReadCurrent
  <2>1. rev = dep.desired /\ Concluded
    BY <1>1, <1>2 DEF Concluded
  <2>2. Report(proj, s) = Verdict /\ Verdict' = Verdict
    BY <1>2, <1>3, <2>1 DEF Report, Verdict
  <2>3. VerdictComes'
    BY <1>2, <1>6, <2>1, <2>2 DEF DeployInv, DeploymentCoherent, VerdictComes
  <2>4. LastReadCurrent'
    BY <1>2, <1>6, <2>1 DEF DeployInv, DeploymentCoherent, LastReadCurrent, RowsThere
  <2> QED
    BY <2>3, <2>4
<1> QED
  BY <1>7, <1>8, <1>9, <1>10, <1>11 DEF DeployInv, DeploymentCoherent


LEMMA ApplySnapshotKeeps == ASSUME DeployInv, ApplySnapshot PROVE DeployInv'
<1> DEFINE rev == Head(feed).rev
           fresh == proj = NoProjection \/ rev > proj.applied
<1>1. /\ feed # <<>> /\ Head(feed).kind = "snapshot" /\ feed' = Tail(feed)
      /\ UNCHANGED <<dep, kinds, reading, retries, jam, failures>>
      /\ proj' = IF fresh THEN [status |-> "DEPLOYED", desired |-> rev, applied |-> rev]
                 ELSE [proj EXCEPT !.desired = Max2(@, rev)]
      /\ rows' = IF fresh THEN rows \cup {rev} ELSE rows
  BY DEF ApplySnapshot, centralVars
<1>2. IF fresh
      THEN /\ reports' = _status_event(_status_event(reports, proj', "received"), proj', "applied")
           /\ keys' = StatusKeys(proj', {"received", "applied"})
      ELSE \E s \in {"applied", "stale"} :
              /\ rev = proj'.applied => s = "applied"
              /\ reports' = _status_event(reports, proj', s)
              /\ keys' = StatusKeys(proj', {s})
  BY DEF ApplySnapshot
<1>3. /\ feed' \in Seq(FeedRows) /\ rev \in Revisions /\ Revisions \subseteq Nat
  <2>1. feed' \in Seq(FeedRows) /\ Head(feed) \in FeedRows
    BY <1>1, Typed, TailFacts DEF DeployInv
  <2> QED
    BY <2>1, ConstantsAssumption DEF FeedRows, Revisions
<1>4. /\ proj \in ProjRows /\ proj.desired \in Revisions /\ proj.applied \in Revisions
      /\ proj.desired \in Nat /\ proj.applied \in Nat /\ reports \in Seq(ReportRows)
      /\ rows \in SUBSET Revisions /\ proj.applied <= proj.desired
  BY Typed DEF DeployInv, NotAhead
<1>5. /\ Max2(proj.desired, rev) \in Revisions /\ proj.desired <= Max2(proj.desired, rev)
      /\ Max2(proj.desired, rev) \in Nat
      /\ proj.desired <= rev => Max2(proj.desired, rev) = rev
  BY <1>3, <1>4, MaxMin
<1> HIDE DEF rev
<1>6. CASE fresh
  <2>1. proj' = [status |-> "DEPLOYED", desired |-> rev, applied |-> rev]
    BY <1>1, <1>6
  <2>2. proj' \in ProjRows /\ proj'.applied = rev /\ proj'.desired = rev /\ proj'.status = "DEPLOYED"
    BY <1>3, <2>1 DEF ProjRows
  <2> DEFINE p == proj'
             q == _status_event(reports, p, "received")
  <2>3. reports' = _status_event(q, p, "applied") /\ keys' = StatusKeys(p, {"received", "applied"})
    BY <1>2, <1>6
  <2>4. /\ q \in Seq(ReportRows) /\ (reports # <<>> => q # <<>>)
        /\ \A i \in 1..Len(q) : q[i] = Report(p, "received") \/ \E j \in 1..Len(reports) : q[i] = reports[j]
    BY <1>4, <2>2, StatusEvent
  <2> HIDE DEF q
  <2>5. /\ Report(p, "applied") \in ReportRows
        /\ \/ reports' = q /\ <<p.desired, p.applied, "applied">> \in keys
           \/ reports' = Append(q, Report(p, "applied"))
        /\ reports' \in Seq(ReportRows) /\ (q # <<>> => reports' # <<>>)
        /\ \A i \in 1..Len(reports') :
              reports'[i] = Report(p, "applied") \/ \E j \in 1..Len(q) : reports'[i] = q[j]
    BY <2>2, <2>3, <2>4, StatusEvent
  <2>6. keys' \in SUBSET Keys /\ \A k \in keys' : k \in keys \/ k[2] = rev
    BY <2>2, <2>3, KeysTyped
  <2>7. TypeOK'
    <3>1. rows' \in SUBSET Revisions
      BY <1>1, <1>3, <1>4
    <3> QED
      BY <1>1, <1>3, <2>2, <2>5, <2>6, <3>1, Typed, Retyped DEF DeployInv, TypeOK
  <2>8. CASE dep = Absent
    <3>1. rev <= rev
      BY <1>3
    <3> QED
      BY <1>1, <2>2, <2>4, <2>5, <2>7, <2>8, <3>1, SiteAlone
  <2>9. CASE dep # Absent
    <3>1. proj.applied < rev
      BY <1>1, <1>3, <1>4, <1>6, <2>9, HeadFacts, There DEF rev
    <3>2. <<p.desired, p.applied, "applied">> \notin keys
      <4>1. \A k \in keys : k[2] <= proj.applied
        BY <2>9 DEF DeployInv, DeploymentCoherent, SiteBehind
      <4>2. <<p.desired, p.applied, "applied">>[2] = rev
        BY <2>2
      <4> QED
        BY <1>3, <1>4, <3>1, <4>1, <4>2
    <3>3. reports' = Append(q, Report(p, "applied"))
      BY <2>5, <3>2
    <3>4. /\ reports' # <<>> /\ reports'[Len(reports')] = Report(p, "applied")
          /\ q # <<>> => Len(reports') # 1
      BY <2>4, <2>5, <3>3, AppendFacts
    <3>5. \A i \in 1..Len(reports') :
             \/ \E s \in {"received", "applied", "revoked"} : reports'[i] = Report(p, s)
             \/ \E j \in 1..Len(reports) : reports'[i] = reports[j]
      BY <2>4, <2>5
    <3>6. reports # <<>> => Len(reports') # 1
      BY <2>4, <3>4
    <3> QED
      BY <1>1, <2>1, <2>6, <2>7, <2>9, <3>1, <3>4, <3>5, <3>6, AppliedKeeps DEF rev
  <2> QED
    BY <2>8, <2>9
<1>7. CASE ~fresh
  <2>1. proj' = [proj EXCEPT !.desired = Max2(@, rev)] /\ proj # NoProjection /\ rev <= proj.applied
    BY <1>1, <1>3, <1>4, <1>7
  <2>2. /\ proj' \in ProjRows /\ proj'.applied = proj.applied /\ proj'.status = proj.status
        /\ proj'.desired = Max2(proj.desired, rev)
    BY <1>4, <1>5, <2>1 DEF ProjRows
  <2>3. PICK s \in {"applied", "stale"} :
           /\ rev = proj'.applied => s = "applied"
           /\ reports' = _status_event(reports, proj', s)
           /\ keys' = StatusKeys(proj', {s})
    BY <1>2, <1>7
  <2>4. /\ reports' = reports \/ reports' = Append(reports, Report(proj', s))
        /\ reports' \in Seq(ReportRows) /\ (reports # <<>> => reports' # <<>>)
    <3>1. s \in {"received", "applied", "stale", "revoked"}
      OBVIOUS
    <3>2. /\ \/ _status_event(reports, proj', s) = reports
             \/ _status_event(reports, proj', s) = Append(reports, Report(proj', s))
          /\ _status_event(reports, proj', s) \in Seq(ReportRows)
          /\ reports # <<>> => _status_event(reports, proj', s) # <<>>
      BY <1>4, <2>2, <3>1, StatusEvent
    <3> QED
      BY <2>3, <3>2
  <2>5. keys' \in SUBSET Keys /\ \A k \in keys' : k \in keys \/ k[2] = proj.applied
    <3>1. {s} \in SUBSET {"received", "applied", "stale", "revoked"}
      OBVIOUS
    <3> QED
      BY <2>2, <2>3, <3>1, KeysTyped
  <2>6. TypeOK'
    <3>1. rows' \in SUBSET Revisions
      BY <1>1, <1>4, <1>7
    <3> QED
      BY <1>1, <1>3, <2>2, <2>4, <2>5, <3>1, Typed, Retyped DEF DeployInv, TypeOK
  <2>7. CASE dep = Absent
    <3>1. proj'.applied <= proj'.desired
      BY <1>4, <1>5, <2>2
    <3>2. proj'.status # "ABSENT"
      BY <2>1, <2>2, There
    <3> QED
      BY <1>1, <2>4, <2>6, <2>7, <3>1, <3>2, SiteAlone
  <2>8. CASE dep # Absent
    <3>1. proj.desired <= rev
      BY <1>1, <2>8, HeadFacts DEF rev
    <3>2. rev = proj.applied /\ rev = proj.desired
      BY <1>3, <1>4, <2>1, <3>1
    <3>3. proj' = proj /\ s = "applied"
      <4>1. proj' = [proj EXCEPT !.desired = proj.desired]
        BY <1>5, <2>1, <3>1, <3>2
      <4> QED
        BY <1>4, <2>2, <2>3, <3>2, <4>1 DEF ProjRows
    <3> QED
      BY <1>1, <2>1, <2>4, <2>5, <2>6, <2>8, <3>2, <3>3, RepeatedKeeps DEF rev
  <2> QED
    BY <2>7, <2>8
<1> QED
  BY <1>6, <1>7

LEMMA ApplyRevocationKeeps == ASSUME DeployInv, ApplyRevocation PROVE DeployInv'
<1> DEFINE rev == Head(feed).rev
<1>1. /\ feed # <<>> /\ Head(feed).kind = "revocation" /\ feed' = Tail(feed) /\ proj # NoProjection
      /\ UNCHANGED <<dep, kinds, reading, retries, jam, failures>>
      /\ proj' = [status |-> "REVOKED", desired |-> Max2(proj.desired, rev),
                  applied |-> Max2(proj.applied, rev)]
      /\ rows' = rows \cup {rev}
      /\ reports' = _status_event(reports, proj', "revoked")
      /\ keys' = StatusKeys(proj', {"revoked"})
  BY DEF ApplyRevocation, centralVars
<1>2. /\ feed' \in Seq(FeedRows) /\ rev \in Revisions /\ Revisions \subseteq Nat
  <2>1. feed' \in Seq(FeedRows) /\ Head(feed) \in FeedRows
    BY <1>1, Typed, TailFacts DEF DeployInv
  <2> QED
    BY <2>1, ConstantsAssumption DEF FeedRows, Revisions
<1>3. /\ proj \in ProjRows /\ proj.desired \in Revisions /\ proj.applied \in Revisions
      /\ proj.desired \in Nat /\ proj.applied \in Nat /\ reports \in Seq(ReportRows)
      /\ rows \in SUBSET Revisions /\ proj.applied <= proj.desired
  BY Typed DEF DeployInv, NotAhead
<1> HIDE DEF rev
<1>4. /\ Max2(proj.desired, rev) \in Revisions /\ proj.desired <= Max2(proj.desired, rev)
      /\ rev <= Max2(proj.desired, rev) /\ (proj.desired <= rev => Max2(proj.desired, rev) = rev)
      /\ Max2(proj.applied, rev) \in Revisions
      /\ Max2(proj.applied, rev) = proj.applied \/ Max2(proj.applied, rev) = rev
      /\ proj.applied <= rev => Max2(proj.applied, rev) = rev
  BY <1>2, <1>3, MaxMin
<1>5. /\ proj' \in ProjRows /\ proj'.status = "REVOKED" /\ proj'.desired = Max2(proj.desired, rev)
      /\ proj'.applied = Max2(proj.applied, rev)
  BY <1>1, <1>4 DEF ProjRows
<1>6. /\ Report(proj', "revoked") \in ReportRows
      /\ \/ reports' = reports /\ <<proj'.desired, proj'.applied, "revoked">> \in keys
         \/ reports' = Append(reports, Report(proj', "revoked"))
      /\ reports' \in Seq(ReportRows) /\ (reports # <<>> => reports' # <<>>)
      /\ \A i \in 1..Len(reports') :
            reports'[i] = Report(proj', "revoked") \/ \E j \in 1..Len(reports) : reports'[i] = reports[j]
  BY <1>1, <1>3, <1>5, StatusEvent
<1>7. keys' \in SUBSET Keys /\ \A k \in keys' : k \in keys \/ k[2] = proj'.applied
  BY <1>1, <1>5, KeysTyped
<1>8. TypeOK'
  <2>1. rows' \in SUBSET Revisions
    BY <1>1, <1>2, <1>3
  <2> QED
    BY <1>1, <1>2, <1>5, <1>6, <1>7, <2>1, Typed, Retyped DEF DeployInv, TypeOK
<1>9. CASE dep = Absent
  <2>1. proj'.applied <= proj'.desired
    <3>1. Max2(proj.desired, rev) \in Nat /\ rev \in Nat
      BY <1>2, <1>4
    <3>2. proj.applied <= Max2(proj.desired, rev)
      BY <1>3, <1>4, <3>1
    <3> QED
      BY <1>4, <1>5, <3>2
  <2> QED
    BY <1>1, <1>5, <1>6, <1>8, <1>9, <2>1, SiteAlone
<1>10. CASE dep # Absent
  <2>1. proj.desired <= rev /\ rev \in Nat
    BY <1>1, <1>10, HeadFacts DEF rev
  <2>2. proj' = [status |-> "REVOKED", desired |-> rev, applied |-> rev]
    BY <1>1, <1>2, <1>3, <1>4, <2>1
  <2>3. \A k \in keys' : k \in keys \/ k[2] = rev
    BY <1>7, <2>2
  <2>4. CASE proj.applied < rev
    <3>1. <<proj'.desired, proj'.applied, "revoked">> \notin keys
      <4>1. \A k \in keys : k[2] <= proj.applied
        BY <1>10 DEF DeployInv, DeploymentCoherent, SiteBehind
      <4>2. <<proj'.desired, proj'.applied, "revoked">>[2] = rev
        BY <2>2
      <4> QED
        BY <1>3, <2>1, <2>4, <4>1, <4>2
    <3>2. reports' = Append(reports, Report(proj', "revoked"))
      BY <1>6, <3>1
    <3>3. /\ reports' # <<>> /\ reports'[Len(reports')] = Report(proj', "revoked")
          /\ reports # <<>> => Len(reports') # 1
      BY <1>3, <1>6, <3>2, AppendFacts
    <3>4. \A i \in 1..Len(reports') :
             \/ \E s \in {"received", "applied", "revoked"} : reports'[i] = Report(proj', s)
             \/ \E j \in 1..Len(reports) : reports'[i] = reports[j]
      BY <1>6
    <3> QED
      BY <1>1, <1>8, <1>10, <2>2, <2>3, <2>4, <3>3, <3>4, AppliedKeeps DEF rev
  <2>5. CASE proj.applied = rev
    <3>1. proj.desired = rev
      BY <1>3, <2>1, <2>5
    <3>2. proj.status = "REVOKED"
      <4>1. kinds[rev] = "revocation"
        BY <1>1, <1>10, HeadFacts DEF rev
      <4>2. proj.status # "ABSENT" /\ proj.status # "FAILED" /\ proj.status # "DEPLOYED"
        BY <1>1, <1>3, <1>10, <2>5, <3>1, <4>1, There DEF DeployInv, DeploymentCoherent, SiteBehind
      <4> QED
        BY <1>3, <4>2 DEF ProjRows
    <3>3. proj' = proj
      BY <1>3, <2>2, <2>5, <3>1, <3>2 DEF ProjRows
    <3> QED
      BY <1>1, <1>6, <1>8, <1>10, <2>3, <2>5, <3>3, RepeatedKeeps DEF rev
  <2> QED
    BY <1>3, <2>1, <2>4, <2>5
<1> QED
  BY <1>9, <1>10

\* The deletion is the last event of a deployment that Central no longer has.
LEMMA ApplyDeletionKeeps == ASSUME DeployInv, ApplyDeletion PROVE DeployInv'
<1>1. /\ feed # <<>> /\ Head(feed).kind = "deletion" /\ feed' = Tail(feed)
      /\ proj' = NoProjection /\ rows' = {}
      /\ UNCHANGED <<dep, kinds, reading, retries, keys, jam, failures, reports>>
  BY DEF ApplyDeletion, centralVars
<1>2. dep = Absent
  <2> SUFFICES ASSUME dep # Absent PROVE FALSE
    OBVIOUS
  <2>1. /\ Head(feed).rev \in 1..Len(kinds) /\ Head(feed).kind = kinds[Head(feed).rev]
    BY <1>1, HeadFacts DEF DeployInv, DeploymentCoherent, FeedLeadsOn
  <2>2. kinds[Head(feed).rev] \in Kinds
    BY <2>1, Typed, ElementOfSeq DEF DeployInv
  <2> QED
    BY <1>1, <2>1, <2>2 DEF Kinds
<1>3. proj' \in ProjRows /\ proj'.applied <= proj'.desired
  BY <1>1, ConstantsAssumption DEF NoProjection, ProjRows, Revisions
<1>4. TypeOK'
  <2>1. feed' \in Seq(FeedRows) /\ rows' \in SUBSET Revisions
    BY <1>1, Typed, TailFacts DEF DeployInv
  <2> QED
    BY <1>1, <1>3, <2>1, Typed, Retyped DEF DeployInv, TypeOK
<1> QED
  BY <1>1, <1>2, <1>3, <1>4, SiteAlone


-----------------------------------------------------------------------------
(* Central: the head of the reports *)

LEMMA ReadKeeps == ASSUME DeployInv, ReadDeployment PROVE DeployInv'
<1>1. /\ reports # <<>> /\ dep # Absent /\ reading' = dep
      /\ UNCHANGED <<dep, kinds, retries, feed, proj, rows, keys, jam, failures, reports>>
  BY DEF ReadDeployment, siteVars
<1>2. TypeOK'
  BY <1>1, Typed, Retyped DEF DeployInv, TypeOK
<1>3. RowsThere' /\ NotAhead' /\ FeedLeadsOn' /\ SiteBehind'
  BY <1>1 DEF DeployInv, NotAhead, DeploymentCoherent, RowsThere, FeedLeadsOn, SiteBehind
<1>4. ReportsTrue'
  <2>1. dep.desired <= dep.desired /\ dep.ack <= dep.desired
    BY Typed DEF DeployInv, NotAhead
  <2> QED
    BY <1>1, <2>1 DEF DeployInv, DeploymentCoherent, ReportsTrue
<1>5. VerdictComes' /\ LastReadCurrent'
  BY <1>1 DEF DeployInv, DeploymentCoherent, VerdictComes, LastReadCurrent, Concluded, Verdict
<1> QED
  BY <1>2, <1>3, <1>4, <1>5 DEF DeployInv, DeploymentCoherent

\* The columns the handler computes: an acknowledgement between what was acknowledged
\* and the revision that was desired, never beyond what the report says.
LEMMA ReportedFacts ==
    ASSUME NEW r \in DepRows, NEW p \in ReportRows, r.ack <= r.desired,
           NEW n \in Nat, r.ack <= n, Says(p, n)
    PROVE  /\ Reported(r, p).ack \in Revisions /\ Reported(r, p).ack <= r.desired
           /\ r.ack <= Reported(r, p).ack /\ Reported(r, p).ack <= n
           /\ Reported(r, p).status \in DeploymentStatuses \/ Reported(r, p).status = r.status
           /\ p.status = "failed" => Reported(r, p).status = "FAILED"
           /\ p.status = "applied" /\ p.applied = r.desired =>
                 Reported(r, p).status = "DEPLOYED" /\ Reported(r, p).ack = r.desired
           /\ p.status = "revoked" /\ p.desired = r.desired =>
                 Reported(r, p).status = "REVOKED" /\ Reported(r, p).ack = r.desired
<1>1. /\ r.ack \in Revisions /\ r.desired \in Revisions /\ p.desired \in Revisions /\ p.applied \in Revisions
      /\ Revisions \subseteq Nat /\ r.ack <= r.ack
      /\ p.status \in {"received", "applied", "stale", "failed", "revoked"}
  BY ConstantsAssumption DEF DepRows, ReportRows, Revisions
<1> DEFINE Acked(a) == Max2(r.ack, Min2(a, r.desired))
<1>2. ASSUME NEW a \in Revisions
      PROVE  /\ Acked(a) \in Revisions /\ Acked(a) <= r.desired /\ r.ack <= Acked(a)
             /\ a <= n => Acked(a) <= n
             /\ a = r.desired => Acked(a) = r.desired
  <2>1. /\ Min2(a, r.desired) \in Revisions /\ Min2(a, r.desired) <= a /\ Min2(a, r.desired) <= r.desired
        /\ a = r.desired => Min2(a, r.desired) = a
    BY <1>1, MaxMin
  <2>2. /\ Acked(a) \in Revisions /\ r.ack <= Acked(a)
        /\ Acked(a) = r.ack \/ Acked(a) = Min2(a, r.desired)
        /\ r.ack <= Min2(a, r.desired) => Acked(a) = Min2(a, r.desired)
    BY <1>1, <2>1, MaxMin
  <2> HIDE DEF Acked
  <2>3. Acked(a) \in Nat /\ Min2(a, r.desired) \in Nat /\ a \in Nat /\ r.ack \in Nat /\ r.desired \in Nat
    BY <1>1, <2>1, <2>2
  <2> QED
    BY <2>1, <2>2, <2>3
<1>3. CASE p.status \in {"applied", "stale"}
  <2>1. Reported(r, p) = [r EXCEPT !.ack = Acked(p.applied),
                                   !.status = IF Acked(p.applied) = r.desired THEN "DEPLOYED"
                                              ELSE "UPDATE_PENDING"]
    BY <1>3 DEF Reported
  <2> HIDE DEF Acked
  <2>2. /\ Reported(r, p).ack = Acked(p.applied)
        /\ Reported(r, p).status = IF Acked(p.applied) = r.desired THEN "DEPLOYED" ELSE "UPDATE_PENDING"
    BY <2>1 DEF DepRows
  <2>3. p.applied <= n
    BY <1>3 DEF Says
  <2>4. /\ Acked(p.applied) \in Revisions /\ Acked(p.applied) <= r.desired /\ r.ack <= Acked(p.applied)
        /\ Acked(p.applied) <= n /\ (p.applied = r.desired => Acked(p.applied) = r.desired)
    BY <1>1, <1>2, <2>3
  <2> QED
    BY <1>3, <2>2, <2>4 DEF DeploymentStatuses
<1>4. CASE p.status = "received"
  <2>1. Reported(r, p) = [r EXCEPT !.status = IF @ \in {"PENDING", "UPDATE_PENDING"} THEN "DEPLOYING" ELSE @]
    BY <1>4 DEF Reported
  <2>2. /\ Reported(r, p).ack = r.ack
        /\ Reported(r, p).status = "DEPLOYING" \/ Reported(r, p).status = r.status
    BY <2>1 DEF DepRows
  <2> QED
    BY <1>1, <1>4, <2>2 DEF DeploymentStatuses
<1>5. CASE p.status = "failed"
  <2>1. Reported(r, p) = [r EXCEPT !.status = "FAILED"]
    BY <1>5 DEF Reported
  <2>2. Reported(r, p).ack = r.ack /\ Reported(r, p).status = "FAILED"
    BY <2>1 DEF DepRows
  <2> QED
    BY <1>1, <1>5, <2>2 DEF DeploymentStatuses
<1>6. CASE p.status = "revoked"
  <2>1. Reported(r, p) = [r EXCEPT !.status = "REVOKED", !.ack = Acked(p.desired)]
    BY <1>6 DEF Reported
  <2> HIDE DEF Acked
  <2>2. Reported(r, p).ack = Acked(p.desired) /\ Reported(r, p).status = "REVOKED"
    BY <2>1 DEF DepRows
  <2>3. p.desired <= n
    BY <1>6 DEF Says
  <2>4. /\ Acked(p.desired) \in Revisions /\ Acked(p.desired) <= r.desired /\ r.ack <= Acked(p.desired)
        /\ Acked(p.desired) <= n /\ (p.desired = r.desired => Acked(p.desired) = r.desired)
    BY <1>1, <1>2, <2>3
  <2> QED
    BY <1>6, <2>2, <2>4 DEF DeploymentStatuses
<1> QED
  BY <1>1, <1>3, <1>4, <1>5, <1>6

LEMMA ApplyReportKeeps == ASSUME DeployInv, ApplyReport PROVE DeployInv'
<1> DEFINE p == Head(reports)
           new == Reported(reading, p)
<1>1. /\ reading # Absent /\ reading' = Absent
      /\ UNCHANGED <<kinds, retries, feed, proj, rows, keys, jam, failures>>
      /\ IF dep = Absent THEN UNCHANGED <<dep, reports>>
         ELSE /\ dep' = [dep EXCEPT !.status = IF new.status = reading.status THEN @ ELSE new.status,
                                    !.ack = IF new.ack = reading.ack THEN @ ELSE new.ack]
              /\ reports' = Tail(reports)
  BY DEF ApplyReport, siteVars
<1>2. reading' \in DepRows
  BY <1>1, ConstantsAssumption DEF DepRows, Absent, Revisions
<1>3. CASE dep = Absent
  <2>1. TypeOK'
    BY <1>1, <1>2, <1>3, Typed, Retyped DEF DeployInv, TypeOK
  <2>2. NotAhead'
    BY <1>1, <1>3 DEF DeployInv, NotAhead
  <2>3. kinds = <<"deleted">>
    BY <1>1, <1>3 DEF DeployInv, DeploymentCoherent, RowsThere
  <2> QED
    BY <1>1, <1>3, <2>1, <2>2, <2>3, NothingDeployed DEF DeployInv, DeploymentCoherent, RowsThere
<1>4. CASE dep # Absent
  <2>1. /\ dep \in DepRows /\ reading \in DepRows /\ reports \in Seq(ReportRows)
        /\ reports # <<>> /\ dep.desired \in Nat /\ dep.ack \in Nat /\ reading.desired \in Nat
        /\ reading.ack \in Nat /\ proj.applied \in Nat
        /\ reading.ack = dep.ack /\ reading.desired <= dep.desired /\ dep.ack <= proj.applied
        /\ dep.ack <= dep.desired /\ proj.applied <= proj.desired
    BY <1>1, <1>4, Typed DEF DeployInv, NotAhead, DeploymentCoherent, RowsThere, ReportsTrue
  <2>2. /\ p = reports[1] /\ p \in ReportRows /\ reports' \in Seq(ReportRows)
        /\ Len(reports) \in Nat /\ 1 <= Len(reports) /\ Len(reports') = Len(reports) - 1
        /\ \A i \in 1..Len(reports') : i + 1 \in 1..Len(reports) /\ reports'[i] = reports[i + 1]
        /\ reports' = <<>> <=> Len(reports) = 1
        /\ reports' # <<>> => reports'[Len(reports')] = reports[Len(reports)]
    <3>1. reports' = Tail(reports) /\ reports \in Seq(ReportRows) /\ reports # <<>>
      BY <1>1, <1>4, <2>1
    <3>2. /\ Head(reports) = reports[1] /\ Head(reports) \in ReportRows /\ Tail(reports) \in Seq(ReportRows)
          /\ Len(reports) \in Nat /\ 1 <= Len(reports) /\ Len(Tail(reports)) = Len(reports) - 1
          /\ \A i \in 1..Len(Tail(reports)) : i + 1 \in 1..Len(reports) /\ Tail(reports)[i] = reports[i + 1]
          /\ Tail(reports) = <<>> <=> Len(reports) = 1
          /\ Tail(reports) # <<>> => Tail(reports)[Len(Tail(reports))] = reports[Len(reports)]
      BY <3>1, TailFacts
    <3> QED
      BY <3>1, <3>2
  <2>3. \A i \in 1..Len(reports) : Says(reports[i], proj.applied)
    BY <1>4 DEF DeployInv, DeploymentCoherent, ReportsTrue, Says
  <2>4. Says(p, proj.applied)
    <3>1. 1 \in 1..Len(reports)
      BY <2>2
    <3> QED
      BY <2>2, <2>3, <3>1
  <2>5. reading.ack <= reading.desired
    BY <1>1, <1>4 DEF DeployInv, DeploymentCoherent, ReportsTrue
  <2>6. reading.ack <= proj.applied
    BY <2>1
  <2> HIDE DEF p
  <2>7. /\ new.ack \in Revisions /\ new.ack <= reading.desired
        /\ reading.ack <= new.ack /\ new.ack <= proj.applied
        /\ new.status \in DeploymentStatuses \/ new.status = reading.status
        /\ p.status = "failed" => new.status = "FAILED"
        /\ p.status = "applied" /\ p.applied = reading.desired =>
              new.status = "DEPLOYED" /\ new.ack = reading.desired
        /\ p.status = "revoked" /\ p.desired = reading.desired =>
              new.status = "REVOKED" /\ new.ack = reading.desired
    BY <2>1, <2>2, <2>4, <2>5, <2>6, ReportedFacts
  <2> HIDE DEF new
  <2>8. /\ dep' \in DepRows /\ dep'.desired = dep.desired
        /\ dep'.status = IF new.status = reading.status THEN dep.status ELSE new.status
        /\ dep'.ack = IF new.ack = reading.ack THEN dep.ack ELSE new.ack
    <3>1. dep' = [dep EXCEPT !.status = IF new.status = reading.status THEN @ ELSE new.status,
                             !.ack = IF new.ack = reading.ack THEN @ ELSE new.ack]
      BY <1>1, <1>4
    <3> QED
      BY <2>1, <2>7, <3>1 DEF DepRows
  <2>9. dep'.ack = new.ack /\ dep'.ack <= dep'.desired /\ dep'.ack <= proj.applied
    <3>1. dep'.ack = new.ack /\ new.ack \in Nat
      BY <2>1, <2>7, <2>8, ConstantsAssumption DEF Revisions
    <3> QED
      BY <2>1, <2>7, <2>8, <3>1
  <2>10. dep'.status # "ABSENT" /\ dep' # Absent
    <3>1. dep.status # "ABSENT" /\ "ABSENT" \notin DeploymentStatuses
      BY <1>4, There DEF DeploymentStatuses
    <3>2. dep'.status # "ABSENT"
      BY <2>7, <2>8, <3>1
    <3> QED
      BY <3>2 DEF Absent
  <2>11. TypeOK'
    BY <1>1, <1>2, <2>2, <2>8, Typed, Retyped DEF DeployInv, TypeOK
  <2>12. RowsThere' /\ NotAhead' /\ FeedLeadsOn' /\ SiteBehind'
    BY <1>1, <1>4, <2>1, <2>8, <2>9, <2>10
    DEF DeployInv, NotAhead, DeploymentCoherent, RowsThere, FeedLeadsOn, SiteBehind
  <2>13. ReportsTrue'
    <3>1. \A i \in 1..Len(reports') : Says(reports'[i], proj.applied)
      BY <2>2, <2>3
    <3> QED
      BY <1>1, <2>9, <3>1 DEF ReportsTrue, Says
  <2>14. LastReadCurrent'
    BY <1>1 DEF LastReadCurrent
  <2>15. VerdictComes'
    <3> SUFFICES ASSUME Concluded' PROVE VerdictComes'
      BY DEF VerdictComes
    <3>1. Concluded /\ Verdict' = Verdict
      BY <1>1, <2>8 DEF Concluded, Verdict
    <3>2. CASE reports' # <<>>
      BY <1>1, <1>4, <2>1, <2>2, <2>8, <3>1, <3>2 DEF DeployInv, DeploymentCoherent, VerdictComes
    <3>3. CASE reports' = <<>>
      <4>1. Len(reports) = 1 /\ p = reports[Len(reports)]
        BY <2>2, <3>3
      <4>2. /\ reading.desired = dep.desired
            /\ \/ reading.status = dep.status
               \/ reading.status = "FAILED" /\ proj.applied = dep.desired
        BY <1>1, <1>4, <3>1, <4>1 DEF DeployInv, DeploymentCoherent, LastReadCurrent
      <4>3. CASE proj.applied = dep.desired
        <5>1. p = Verdict
          BY <1>4, <2>1, <3>1, <4>1, <4>3 DEF DeployInv, DeploymentCoherent, VerdictComes
        <5>2. proj.status \in {"DEPLOYED", "REVOKED"}
          <6>1. /\ 1 <= dep.desired /\ proj.desired <= dep.desired /\ proj.desired \in Nat /\ proj \in ProjRows
            BY <1>4, Typed DEF DeployInv, DeploymentCoherent, FeedLeadsOn, SiteBehind
          <6>2. proj.status # "ABSENT" /\ proj.status # "FAILED"
            BY <1>4, <2>1, <4>3, <6>1, There DEF DeployInv, DeploymentCoherent, SiteBehind
          <6> QED
            BY <6>1, <6>2 DEF ProjRows
        <5>3. /\ p.status = IF proj.status = "DEPLOYED" THEN "applied" ELSE "revoked"
              /\ p.desired = dep.desired /\ p.applied = dep.desired
          BY <5>1 DEF Verdict
        <5>4. new.status = proj.status /\ new.ack = dep.desired
          BY <2>7, <4>2, <5>2, <5>3
        <5>5. dep'.status = proj.status
          BY <2>8, <4>2, <5>2, <5>4
        <5> QED
          BY <1>1, <2>8, <2>9, <3>3, <4>3, <5>4, <5>5 DEF VerdictComes
      <4>4. CASE proj.applied # dep.desired
        <5>1. p.status = "failed"
          BY <1>4, <2>1, <3>1, <4>1, <4>4 DEF DeployInv, DeploymentCoherent, VerdictComes
        <5>2. dep'.status = "FAILED"
          BY <2>7, <2>8, <4>2, <4>4, <5>1
        <5> QED
          BY <1>1, <2>8, <3>3, <4>4, <5>2 DEF VerdictComes
      <4> QED
        BY <4>3, <4>4
    <3> QED
      BY <3>2, <3>3
  <2> QED
    BY <2>11, <2>12, <2>13, <2>14, <2>15 DEF DeployInv, DeploymentCoherent
<1> QED
  BY <1>3, <1>4

-----------------------------------------------------------------------------
(* The theorem *)

LEMMA DeployInitHolds == Init => DeployInv
<1> SUFFICES ASSUME Init PROVE DeployInv
  OBVIOUS
<1>1. 0 \in Revisions /\ 0 \in 0..MaxFailures /\ 0 \in 0..MaxRetries
  BY ConstantsAssumption DEF Revisions
<1>2. Absent \in DepRows /\ NoProjection \in ProjRows
  BY <1>1 DEF Absent, NoProjection, DepRows, ProjRows
<1>3. TypeOK
  BY <1>1, <1>2 DEF Init, TypeOK, DepRows, ProjRows
<1>4. NotAhead /\ RowsThere
  BY DEF Init, NotAhead, RowsThere, Absent, NoProjection
<1> QED
  BY <1>3, <1>4 DEF Init, DeployInv, DeploymentCoherent, FeedLeadsOn, SiteBehind, ReportsTrue,
                    VerdictComes, LastReadCurrent

LEMMA DeployStepKeeps == DeployInv /\ [Next]_vars => DeployInv'
<1> SUFFICES ASSUME DeployInv, [Next]_vars PROVE DeployInv'
  OBVIOUS
<1>1. CASE UNCHANGED vars \/ SnapshotBreaks \/ SessionStarts
  <2>1. UNCHANGED <<dep, kinds, reading, feed, proj, rows, keys, reports, retries>>
    BY <1>1 DEF vars, SnapshotBreaks, SessionStarts, centralVars
  <2>2. jam' \in {"none", "job_key", "room_time"} /\ failures' \in 0..MaxFailures
    BY <1>1, ConstantsAssumption DEF vars, SnapshotBreaks, SessionStarts, DeployInv, TypeOK
  <2>3. TypeOK' /\ NotAhead' /\ RowsThere' /\ FeedLeadsOn' /\ SiteBehind' /\ ReportsTrue'
    BY <2>1, <2>2 DEF DeployInv, TypeOK, NotAhead, DeploymentCoherent, RowsThere, FeedLeadsOn,
                      SiteBehind, ReportsTrue
  <2>4. VerdictComes' /\ LastReadCurrent'
    BY <2>1 DEF DeployInv, DeploymentCoherent, VerdictComes, LastReadCurrent, Concluded, Verdict
  <2> QED
    BY <2>3, <2>4 DEF DeployInv, DeploymentCoherent
<1>2. CASE Administer
  BY <1>2, CreateKeeps, RevisionKeeps, RetryKeeps, DeleteKeeps DEF Administer
<1>3. CASE SiteApply
  BY <1>1, <1>3, ApplySnapshotKeeps, FailureKeeps, ApplyRevocationKeeps, ApplyDeletionKeeps
  DEF SiteApply
<1>4. CASE CentralApply
  BY <1>4, ReadKeeps, ApplyReportKeeps DEF CentralApply
<1> QED
  BY <1>1, <1>2, <1>3, <1>4 DEF Next

\* However pushes, revocations, retries, failed and broken applications and report
\* handlers that read without a lock interleave: Central acknowledges nothing the Site has not applied,
\* no CHECK constraint is violated, and with nothing under way both sides agree on the
\* revision and on its outcome (push_deployment, apply_snapshot_event,
\* apply_revocation_event, apply_site_event).
THEOREM DeploymentIsHonest == Spec => []DeploymentHonest
<1>1. DeployInv => DeploymentHonest
  <2> SUFFICES ASSUME DeployInv PROVE AckedWasApplied /\ QuietMeansAgreed
    BY DEF DeployInv, DeploymentHonest
  <2>1. AckedWasApplied
    BY DEF DeployInv, DeploymentCoherent, ReportsTrue, AckedWasApplied
  <2>2. QuietMeansAgreed
    <3> SUFFICES ASSUME Quiet, dep # Absent
                 PROVE  /\ dep.status \in {"DEPLOYED", "FAILED", "REVOKED"}
                        /\ dep.status = "DEPLOYED" =>
                              proj = [status |-> "DEPLOYED", desired |-> dep.desired, applied |-> dep.desired]
                        /\ dep.status # "FAILED" => dep.ack = dep.desired
      BY DEF QuietMeansAgreed
    <3>1. Concluded /\ reports = <<>>
      BY DEF Quiet, Concluded
    <3>2. CASE proj.applied = dep.desired
      <4>1. dep.status = proj.status /\ dep.ack = dep.desired
        BY <3>1, <3>2 DEF DeployInv, DeploymentCoherent, VerdictComes
      <4>2. /\ 1 <= dep.desired /\ proj.desired <= dep.desired /\ proj.desired \in Nat
            /\ dep.desired \in Nat /\ proj \in ProjRows /\ proj.applied <= proj.desired
        BY Typed DEF DeployInv, NotAhead, DeploymentCoherent, FeedLeadsOn, SiteBehind
      <4>3. proj.status # "ABSENT" /\ proj.status # "FAILED"
        BY <3>2, <4>2, There DEF DeployInv, DeploymentCoherent, SiteBehind
      <4>4. proj.desired = dep.desired
        BY <3>2, <4>2
      <4>5. proj = [status |-> proj.status, desired |-> dep.desired, applied |-> dep.desired]
        BY <3>2, <4>2, <4>4 DEF ProjRows
      <4> QED
        BY <4>1, <4>2, <4>3, <4>5 DEF ProjRows
    <3>3. CASE proj.applied # dep.desired
      BY <3>1, <3>3 DEF DeployInv, DeploymentCoherent, VerdictComes
    <3> QED
      BY <3>2, <3>3
  <2> QED
    BY <2>1, <2>2
<1> QED
  BY <1>1, DeployInitHolds, DeployStepKeeps, PTL DEF Spec

=============================================================================
