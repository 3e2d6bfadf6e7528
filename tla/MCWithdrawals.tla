--------------------------- MODULE MCWithdrawals ----------------------------
(* Small instances of the withdrawal pipeline for TLC. *)
EXTENDS WithdrawalProperties, TLC

\* Nonces and processes are interchangeable; used by runs without liveness.
Symmetry == Permutations(Nonces) \union Permutations(Procs)
=============================================================================
