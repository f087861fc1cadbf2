---------------------------- MODULE MCCentralFeed ----------------------------
(* Instances of CentralFeed for TLC. *)
EXTENDS CentralFeed, TLC

CONSTANTS w1, w2

OneWorker == {w1}
TwoWorkers == {w1, w2}
NoneRefused == {}
LastRefused == {MaxEvents}

Symmetry == Permutations(Workers)
=============================================================================
