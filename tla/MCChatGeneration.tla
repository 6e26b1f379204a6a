-------------------------- MODULE MCChatGeneration --------------------------
(* Small instances of ChatGeneration for TLC. *)
EXTENDS ChatGeneration, TLC

Symmetry == Permutations(Workers)
=============================================================================
