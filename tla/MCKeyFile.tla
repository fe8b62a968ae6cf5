----------------------------- MODULE MCKeyFile -----------------------------
(* Instances of KeyFile for TLC. *)
EXTENDS KeyFile, TLC

CONSTANTS c1, c2, p1, p2, p3

\* Processes and passwords are interchangeable.
Symmetry == Permutations(Client) \cup Permutations(Password)

=============================================================================
