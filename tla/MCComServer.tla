------------------------------ MODULE MCComServer ------------------------------
(* ComServer for TLC: the objects a script holds are interchangeable. *)
EXTENDS ComServer

WrapperSymmetry == Permutations(Wrapper)
=============================================================================
