--------------------------- MODULE MCApplication ---------------------------
(* Small instances of Application for TLC. *)
EXTENDS Application, TLC

Symmetry == Permutations(Client) \cup Permutations(Worker)

=============================================================================
