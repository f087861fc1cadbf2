---------------------------- MODULE MCSiteOutbox ----------------------------
(* Instances of SiteOutbox for TLC. *)
EXTENDS SiteOutbox, TLC

CONSTANTS w1, w2, s1, s2

OneWorker == {w1}
TwoWorkers == {w1, w2}
OneSlot == {s1}
TwoSlots == {s1, s2}
NoneRejected == {}
LastRejected == {MaxEvents}

Symmetry == Permutations(Workers) \cup Permutations(Slots)
=============================================================================
