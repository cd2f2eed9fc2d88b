------------------------------ MODULE MCPersona ------------------------------
(* The instance of module Persona that TLC checks. *)
EXTENDS Persona, TLC
PersonaSymmetry == Permutations(Requests)
=============================================================================
