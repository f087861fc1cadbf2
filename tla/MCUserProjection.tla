-------------------------- MODULE MCUserProjection --------------------------
(* Instances of UserProjection for TLC. *)
EXTENDS UserProjection

AllUsers == Users
NoUsers == {}
FirstUser == {1}
=============================================================================
