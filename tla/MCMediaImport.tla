---------------------------- MODULE MCMediaImport ----------------------------
(***************************************************************************)
(* Small worlds, each with the actors of one race.                         *)
(***************************************************************************)
EXTENDS MediaImport, TLC
CONSTANTS a, b, c, d, u1, u2, u3, u4, u5, w1, w2, p1, p2

Targets == u1 :> a @@ u2 :> a @@ u3 :> b @@ u4 :> d @@ u5 :> a

Nothing == [uploads |-> {}, sources |-> {}, workers |-> {w1}, presentations |-> {},
            faults |-> 1, ops |-> 0]

\* One file, promoted by two workers to one of two presentations.
TwoPromotions == [Nothing EXCEPT !.uploads = {u1}, !.workers = {w1, w2},
                                 !.presentations = {p1, p2}]

\* One file, analysed and promoted while the operator cancels or re-matches.
OneFile == [Nothing EXCEPT !.uploads = {u1}, !.workers = {w1, w2}, !.presentations = {p1},
                           !.faults = 2, !.ops = 1]

\* A file whose upload is repeated, before or after it has failed.
Repeated == [Nothing EXCEPT !.uploads = {u1, u2}, !.presentations = {p1}, !.faults = 2, !.ops = 1]

\* Two requests take over the record of a third.
TakenOver == [Nothing EXCEPT !.uploads = {u1, u2, u5}, !.presentations = {p1}]

\* Two files of a batch for one presentation.
TwoFiles == [Nothing EXCEPT !.uploads = {u1, u3}, !.workers = {w1, w2}, !.presentations = {p1},
                            !.faults = 0]

\* A file dropped into the share.
Dropped == [Nothing EXCEPT !.sources = {c}, !.workers = {w1, w2}, !.faults = 2]

\* A dropped file that is saved again.
Overwritten == [Nothing EXCEPT !.sources = {c}, !.ops = 1]

\* A file for a Site.
ForSite == [Nothing EXCEPT !.uploads = {u4}, !.presentations = {p1}]

AllWorlds == {TwoPromotions, OneFile, Repeated, TakenOver, TwoFiles, Dropped, Overwritten, ForSite}
OnlyDropped == {Dropped}
=============================================================================
