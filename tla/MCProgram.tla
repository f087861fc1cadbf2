------------------------------- MODULE MCProgram -------------------------------
(***************************************************************************)
(* The program of an event on small instances: its deployment to a Site    *)
(* with the users, and at Central the imports of people and the sessions   *)
(* and presentations of sheets.  An initial state chooses a world; in a    *)
(* world one of the four runs, some of its operations only, and the others *)
(* stand still.                                                            *)
(***************************************************************************)
EXTENDS EventDeployment, MCUserProjection, ProgramImport, ProgramCatalog, TLC

CONSTANTS p1, p2

VARIABLE world

Worlds == {"deployment", "users", "imports", "edits", "decisions", "withdrawn", "schedule", "links"}

allVars == <<world, vars, userVars, importVars, catalogVars>>

-----------------------------------------------------------------------------
(* Imports: f1 and f3 bring the same person to two events, f2 a known one  *)
(* with an identifier and the new one as a presenter, f4 doubtful rows.    *)

Row(kind, ref, email, name) ==
    [kind |-> kind, id |-> None, ref |-> ref, email |-> email, name |-> name]

MCFileEvent == [f \in Files |-> IF f = "f3" THEN "e2" ELSE "e1"]

MCFileRows ==
    "f1" :> <<Row("participant", None, "a", "n")>>
    @@ "f2" :> <<Row("participant", "x", "b", "m"), Row("wide", None, "a", "n")>>
    @@ "f3" :> <<Row("person", None, "a", "n")>>
    @@ "f4" :> <<Row("participant", None, None, "m"), Row("participant", None, "b", "k")>>

KnownAs(email, name) == [state |-> "active", email |-> email, name |-> name, revision |-> 0,
                         raced |-> FALSE, origin |-> "hand"]
MCKnown == p1 :> KnownAs("b", "m") @@ p2 :> KnownAs(None, "k")

StageAndCommitOf(files) ==
    \/ \E f \in files : create_batch(f)
    \/ \E q \in Calls, f \in files : BeginCommit(q, f)
    \/ \E q \in Calls : commit_batch(q)

DecisionsOf(f) ==
    \/ \E q \in Calls : \/ BeginDecision(q, f, 1, "choose", p1)
                        \/ BeginDecision(q, f, 2, "choose", p2)
                        \/ BeginDecision(q, f, 1, "create", None)
                        \/ BeginDecision(q, f, 2, "ignore", None)
    \/ \E q \in Calls : decide(q)

ImportsWorld ==
    \/ world = "imports" /\ StageAndCommitOf({"f1", "f2", "f3"})
    \/ world = "edits" /\ (StageAndCommitOf({"f2"}) \/ HandEdits)
    \/ world = "decisions" /\ (StageAndCommitOf({"f4"}) \/ DecisionsOf("f4"))
    \/ world = "withdrawn" /\ (\/ StageAndCommitOf({"f2"})
                               \/ \E q \in Calls : \/ BeginDecision(q, "f2", 1, "choose", p2)
                                                   \/ BeginDecision(q, "f2", 1, "create", None)
                                                   \/ decide(q) \/ BeginDelete(q, p1) \/ delete_person(q)
                               \/ update_person(p2, "a")
                               \/ \E p \in {p1, p2}, bulk \in BOOLEAN : erase_person(p, bulk))

-----------------------------------------------------------------------------
(* Sheets whose codes name each other's sessions and presentations.        *)

SessionRow(code, presenter) ==
    [kind |-> "session", code |-> code, session |-> NoCode, titled |-> TRUE, presenter |-> presenter]
PresentationRow(code, in, titled, presenter) ==
    [kind |-> "presentation", code |-> code, session |-> in, titled |-> titled, presenter |-> presenter]

MCSheetRows ==
    "t1" :> <<SessionRow("X", "u"), PresentationRow("X", "Y", TRUE, "v")>>
    @@ "t2" :> <<PresentationRow("Y", "Z", TRUE, Nobody), PresentationRow("X", NoCode, FALSE, "u")>>
    @@ "t3" :> <<SessionRow("Z", "v"), SessionRow("X", "v"), PresentationRow("Z", "Y", FALSE, Nobody)>>

CatalogWorld ==
    \/ world = "schedule" /\ (MaterializeNext \/ EditSessions)
    \/ world = "links" /\ (MaterializeNext \/ EditLinks)

-----------------------------------------------------------------------------

ProgramInit == world \in Worlds /\ Init /\ UsersInit /\ ImportInit /\ CatalogInit

ProgramNext ==
    /\ UNCHANGED world
    /\ \/ world = "deployment" /\ Next /\ UNCHANGED <<userVars, importVars, catalogVars>>
       \/ world = "users" /\ UsersNext /\ UNCHANGED <<vars, importVars, catalogVars>>
       \/ ImportsWorld /\ UNCHANGED <<vars, userVars, catalogVars>>
       \/ CatalogWorld /\ UNCHANGED <<vars, userVars, importVars>>

\* The fairness of the two that deliver.
ProgramSpec ==
    /\ ProgramInit /\ [][ProgramNext]_allVars
    /\ WF_vars(world = "deployment" /\ SiteApply)
    /\ WF_vars(world = "deployment" /\ SessionStarts)
    /\ WF_vars(world = "deployment" /\ CentralApply)
    /\ WF_vars(world = "deployment" /\ retry_deployment)
    /\ WF_userVars(world = "users" /\ SiteProjects)
    /\ WF_userVars(world = "users" /\ retry_deployment_users)
================================================================================
