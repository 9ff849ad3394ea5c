-------------------------- MODULE MCPackAuthoring --------------------------
(***************************************************************************)
(* Instances of PackAuthoring for TLC.  Slots and users are interchangeable *)
(* in every definition and in every safety property.                       *)
(***************************************************************************)
EXTENDS PackAuthoring, TLC

Symmetry == Permutations(Slots) \cup Permutations(Users)
============================================================================
