------------------------------ MODULE Enrollment ------------------------------
(***************************************************************************)
(* How a Site enrolls with Central: the Site asks with a claim secret,     *)
(* Central answers with a poll token, an administrator approves, and a     *)
(* poll with the token returns a credential derived from the claim.        *)
(*                                                                         *)
(* The sync worker of the Site takes one step at a time.  A step reads the *)
(* registration in one transaction, calls Central, and writes what it was  *)
(* told in a second transaction, whatever the operator did in between.     *)
(* Requests and answers can be lost, the worker can die, and Central's     *)
(* answer leaves before its transaction commits.                           *)
(*                                                                         *)
(* The Site makes a new claim secret for every request, so a claim is      *)
(* answered with one token at most and the two are named alike, and so is  *)
(* the credential, which is a function of the secret.                      *)
(***************************************************************************)
EXTENDS Naturals, FiniteSets

CONSTANTS
    Secrets,        \* claim secrets
    NoSecret,
    MaxChanges,     \* bound on the administrator's and the operator's actions
    MaxLosses       \* bound on losses, deaths, failing commits and expirations

ASSUME EnrollmentAssumption == NoSecret \notin Secrets /\ MaxChanges \in Nat /\ MaxLosses \in Nat

VARIABLES
    enrollmentState,    \* Site.enrollment_state at Central
    claim,              \* SiteEnrollmentClaim at Central
    credential,         \* SiteCredential rows at Central, by the secret they derive from
    registration,       \* CentralRegistration at the Site
    step,               \* the step of the Site's sync worker
    late,               \* a credential was inserted after the revocation it should have met
    changes,
    losses

enrollmentVars == <<enrollmentState, claim, credential, registration, step, late, changes, losses>>

EnrollmentState == {"PENDING", "ACTIVE", "REJECTED", "REVOKED", "DISABLED"}
NoClaim == [secret |-> NoSecret, live |-> FALSE, approved |-> FALSE]
Idle == [kind |-> "idle", secret |-> NoSecret, answer |-> "none"]

EnrollmentTypeOK ==
    /\ enrollmentState \in EnrollmentState \cup {"NONE"}
    /\ claim \in [secret: Secrets, live: BOOLEAN, approved: BOOLEAN] \cup {NoClaim}
    /\ credential \in [Secrets -> {"none", "live", "revoked"}]
    /\ registration \in [state: EnrollmentState \cup {"UNREGISTERED"},
                         token: Secrets \cup {NoSecret}, credential: Secrets \cup {NoSecret}]
    /\ step \in [kind: {"request", "status", "deliver"}, secret: Secrets,
                 answer: EnrollmentState \cup {"none", "read", "refused"}] \cup {Idle}
    /\ late \in BOOLEAN
    /\ changes \in 0..MaxChanges
    /\ losses \in 0..MaxLosses

EnrollmentInit ==
    /\ enrollmentState = "NONE"
    /\ claim = NoClaim
    /\ credential = [x \in Secrets |-> "none"]
    /\ registration = [state |-> "UNREGISTERED", token |-> NoSecret, credential |-> NoSecret]
    /\ step = Idle
    /\ late = FALSE
    /\ changes = 0
    /\ losses = 0

Begin(kind, x) == step = Idle /\ step' = [kind |-> kind, secret |-> x, answer |-> "none"]
Awaits(kind) == step.kind = kind /\ step.answer = "none"
Answer(a) == step' = [step EXCEPT !.answer = a]

CentralUnchanged == UNCHANGED <<enrollmentState, claim, credential, late>>

-----------------------------------------------------------------------------
(* The request.                                                            *)

\* secrets.token_urlsafe: a value nothing refers to.
Unused == {x \in Secrets : credential[x] = "none" /\ claim.secret # x
                           /\ registration.token # x /\ registration.credential # x}

BeginRequest ==
    /\ registration.state = "UNREGISTERED" /\ Unused # {}
    /\ Begin("request", CHOOSE x \in Unused : TRUE)
    /\ CentralUnchanged /\ UNCHANGED <<registration, changes, losses>>

\* The answer's commit can fail, and the answer is sent all the same.
request_enrollment(commits) ==
    LET state == IF enrollmentState \in {"ACTIVE", "REJECTED"} THEN enrollmentState ELSE "PENDING"
        accepted == /\ enrollmentState \notin {"REVOKED", "DISABLED"}
                    /\ claim = NoClaim \/ claim.secret = step.secret
    IN  /\ Awaits("request")
        /\ IF accepted THEN Answer(state) ELSE step' = Idle
        /\ IF accepted /\ commits
           THEN /\ enrollmentState' = state
                /\ claim' = [secret |-> step.secret, live |-> TRUE, approved |-> FALSE]
           ELSE UNCHANGED <<enrollmentState, claim>>
        /\ UNCHANGED <<credential, late, registration, changes>>

StoreAnswer ==
    /\ step.kind = "request" /\ step.answer # "none"
    /\ registration' = [registration EXCEPT !.state = step.answer, !.token = step.secret]
    /\ step' = Idle
    /\ CentralUnchanged /\ UNCHANGED <<changes, losses>>

-----------------------------------------------------------------------------
(* The poll.                                                               *)

\* The Site polls while it believes that its request is pending.
Polls_until_credential ==
    registration.state \in {"PENDING", "ACTIVE"} /\ registration.credential = NoSecret

Polls == registration.state = "PENDING"

BeginPoll ==
    /\ Polls /\ registration.token # NoSecret
    /\ Begin("status", registration.token)
    /\ CentralUnchanged /\ UNCHANGED <<registration, changes, losses>>

\* Whether Central accepts the token of a poll.
PollGrant_once ==
    claim # NoClaim /\ claim.secret = step.secret /\ claim.live /\ credential[step.secret] = "none"

PollGrant == claim # NoClaim /\ claim.secret = step.secret /\ claim.live

enrollment_status ==
    /\ Awaits("status")
    /\ IF ~PollGrant THEN step' = Idle
       ELSE Answer(IF enrollmentState = "ACTIVE" THEN "read" ELSE enrollmentState)
    /\ CentralUnchanged /\ UNCHANGED <<registration, changes, losses>>

\* For an approved Site the handler inserts the credential unless a row exists, be it
\* revoked, and stamps the claim, which fails if the claim has been deleted meanwhile.
IssueCredential(commits) ==
    /\ step.kind = "status" /\ step.answer = "read"
    /\ Answer("ACTIVE")
    /\ IF commits /\ claim.secret = step.secret /\ credential[step.secret] = "none"
       THEN /\ credential' = [credential EXCEPT ![step.secret] = "live"]
            /\ late' = (late \/ enrollmentState = "REVOKED")
       ELSE UNCHANGED <<credential, late>>
    /\ UNCHANGED <<enrollmentState, claim, registration, changes>>

StorePoll ==
    /\ step.kind = "status" /\ step.answer \notin {"none", "read"}
    /\ registration' = IF step.answer = "ACTIVE"
                       THEN [state |-> "ACTIVE", token |-> NoSecret, credential |-> step.secret]
                       ELSE [registration EXCEPT !.state = step.answer]
    /\ step' = Idle
    /\ CentralUnchanged /\ UNCHANGED <<changes, losses>>

-----------------------------------------------------------------------------
(* The use of the credential.                                              *)

\* auth_context and the POST of deliver_site_events; heartbeats make it come round.
BeginDelivery ==
    /\ registration.state = "ACTIVE" /\ registration.credential # NoSecret
    /\ Begin("deliver", registration.credential)
    /\ CentralUnchanged /\ UNCHANGED <<registration, changes, losses>>

\* The credential is compared with one of the Site's unrevoked ones.
authenticate_site ==
    LET live == {x \in Secrets : credential[x] = "live"}
    IN  /\ Awaits("deliver")
        /\ \/ step.secret \in live /\ enrollmentState = "ACTIVE" /\ step' = Idle
           \/ (live # {step.secret} \/ enrollmentState # "ACTIVE") /\ Answer("refused")
        /\ CentralUnchanged /\ UNCHANGED <<registration, changes, losses>>

StoreRefusal ==
    /\ step.kind = "deliver" /\ step.answer = "refused"
    /\ registration' = [registration EXCEPT !.state = "REVOKED"]
    /\ step' = Idle
    /\ CentralUnchanged /\ UNCHANGED <<changes, losses>>

-----------------------------------------------------------------------------
(* Central's administrator and the Site's operator.                        *)

Allowed ==
    [ACTIVE |-> {"PENDING", "REJECTED", "DISABLED"}, PENDING |-> {"REVOKED"},
     REJECTED |-> {"PENDING"}, REVOKED |-> {"ACTIVE", "DISABLED"}, DISABLED |-> {"ACTIVE"}]

change_state_keeps_credentials(target) ==
    /\ enrollmentState \in Allowed[target]
    /\ enrollmentState' = target
    /\ claim' = CASE target = "PENDING" -> NoClaim
                  [] target = "ACTIVE" /\ claim # NoClaim -> [claim EXCEPT !.approved = TRUE]
                  [] OTHER -> claim
    /\ UNCHANGED credential

\* approve, reject, revoke, disable and reenroll, the last of which drops the claim.
change_state(target) ==
    /\ enrollmentState \in Allowed[target]
    /\ enrollmentState' = target
    /\ claim' = CASE target = "PENDING" -> NoClaim
                  [] target = "ACTIVE" /\ claim # NoClaim -> [claim EXCEPT !.approved = TRUE]
                  [] OTHER -> claim
    /\ credential' = IF target = "REVOKED"
                     THEN [x \in Secrets |-> IF credential[x] = "live" THEN "revoked"
                                             ELSE credential[x]]
                     ELSE credential

Administrate(target) ==
    /\ changes < MaxChanges /\ changes' = changes + 1
    /\ change_state(target)
    /\ UNCHANGED <<registration, step, late, losses>>

restart_enrollment ==
    /\ changes < MaxChanges /\ changes' = changes + 1
    /\ registration' = [state |-> "UNREGISTERED", token |-> NoSecret, credential |-> NoSecret]
    /\ CentralUnchanged /\ UNCHANGED <<step, losses>>

-----------------------------------------------------------------------------
(* Faults.                                                                 *)

\* The request or the answer is lost, or the worker dies: the step ends.  Central may
\* still finish a handler it has begun, which is IssueCredential before the loss.
LoseStep ==
    /\ step # Idle /\ losses < MaxLosses
    /\ losses' = losses + 1
    /\ step' = Idle
    /\ CentralUnchanged /\ UNCHANGED <<registration, changes>>

CommitLost ==
    /\ losses < MaxLosses /\ losses' = losses + 1
    /\ request_enrollment(FALSE) \/ IssueCredential(FALSE)

TokenExpires ==
    /\ claim.live /\ losses < MaxLosses
    /\ losses' = losses + 1
    /\ claim' = [claim EXCEPT !.live = FALSE]
    /\ UNCHANGED <<enrollmentState, credential, registration, step, late, changes>>

-----------------------------------------------------------------------------

SiteEnrolls ==
    \/ BeginRequest \/ StoreAnswer \/ BeginPoll \/ StorePoll \/ BeginDelivery \/ StoreRefusal
    \/ request_enrollment(TRUE) /\ UNCHANGED losses
    \/ enrollment_status
    \/ IssueCredential(TRUE) /\ UNCHANGED losses
    \/ authenticate_site

EnrollmentNext ==
    \/ SiteEnrolls
    \/ \E target \in EnrollmentState : Administrate(target)
    \/ restart_enrollment
    \/ LoseStep \/ CommitLost \/ TokenExpires

\* The sync worker loops for ever; nobody else has to do anything.
EnrollmentSpec ==
    EnrollmentInit /\ [][EnrollmentNext]_enrollmentVars /\ WF_enrollmentVars(SiteEnrolls)

-----------------------------------------------------------------------------

\* However claims, revocations and re-enrollments follow each other, Central accepts one
\* credential of a Site at most: authenticate_site compares with only one of them.  The
\* exception is a poll that found the Site active and inserts its credential after the
\* revocation (enrollment_status against change_state).
OneCredential == ~late => Cardinality({x \in Secrets : credential[x] = "live"}) <= 1

\* A credential derives from a claim that an administrator has approved after it was
\* made, also when the Site had been approved before it asked again: such a Site is
\* answered "active" and does not poll (request_enrollment and enrollment_step).
CredentialWasApproved ==
    \A x \in Secrets : credential[x] # "none" /\ claim.secret = x => claim.approved

\* The Site is connected, or it is in one of the situations only the operator and the
\* administrator can end: it asks with a new secret while Central keeps another claim,
\* its token is gone, replaced or expired, it has been told or has concluded that it is
\* rejected, revoked or disabled, or it was answered "active" without a credential.
Connected == registration.state = "ACTIVE" /\ registration.credential # NoSecret
             /\ credential[registration.credential] = "live"

NeedsOperator ==
    \/ registration.state = "UNREGISTERED" /\ claim # NoClaim
    \/ registration.state = "PENDING" /\ (~claim.live \/ registration.token # claim.secret)
    \/ registration.state \in {"REJECTED", "REVOKED", "DISABLED"}
    \/ registration.state = "ACTIVE" /\ registration.credential = NoSecret

\* A Site that stays approved is connected in the end, whatever answers were lost before,
\* the one with its credential included, unless it is in one of those situations
\* (enrollment_step, enrollment_status).
EnrollmentSettles == <>[](enrollmentState = "ACTIVE") => <>[](Connected \/ NeedsOperator)

\* What the steps keep true between them, and why the two above hold: a claim exists
\* only for a Site that is known; a request under way carries a secret nothing refers
\* to; a poll carries the token of a Site that still waits, or that was restarted; the
\* unapproved claim of a Site that was told to wait is not that of an active Site; and
\* a live credential belongs to the present claim, of a Site that is not revoked.
Waits(x) ==
    \/ registration.state = "PENDING" /\ registration.token = x
    \/ step.kind = "request" /\ step.answer = "PENDING" /\ step.secret = x
    \/ step.kind = "status" /\ step.secret = x

EnrollmentCoherent ==
    /\ claim # NoClaim => enrollmentState # "NONE"
    /\ step.kind = "request" => step.answer \in {"none", "PENDING", "ACTIVE", "REJECTED"}
    /\ step.kind = "status" => step.answer \in EnrollmentState \cup {"none", "read"}
    /\ Awaits("request") => /\ claim.secret # step.secret /\ registration.token # step.secret
                            /\ credential[step.secret] = "none"
    /\ step.kind = "status" => \/ registration.state = "PENDING" /\ registration.token = step.secret
                               \/ registration.token = NoSecret
    /\ (step.kind = "status" /\ step.answer = "read" /\ claim.secret = step.secret) => claim.approved
    /\ \A x \in Secrets : (Waits(x) /\ claim.secret = x /\ enrollmentState = "ACTIVE") => claim.approved
    /\ ~late => \A x \in Secrets : credential[x] = "live" =>
                   claim.secret = x /\ enrollmentState # "REVOKED"

\* Credentials of a Site: at most one is valid, but for a poll that races a revocation,
\* and each was given to a claim that an administrator approved (enrollment_status,
\* change_state).
EnrollmentSafe ==
    EnrollmentTypeOK /\ EnrollmentCoherent /\ OneCredential /\ CredentialWasApproved
=============================================================================
