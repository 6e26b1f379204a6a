------------------------------ MODULE MCOutbox ------------------------------
(* Instances of Outbox for TLC *)
EXTENDS Outbox, TLC

\* every event is addressed to every user
ToAll == [e \in Events |-> Users]

Symmetry == Permutations(Workers)

=============================================================================
