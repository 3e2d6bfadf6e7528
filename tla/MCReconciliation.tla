-------------------------- MODULE MCReconciliation --------------------------
(* Small instances of the reconciler for TLC. *)
EXTENDS ReconciliationProperties

\* Deposits, withdrawals and loops of a kind are interchangeable.
Symmetry == Permutations(Deposits) \union Permutations(Nonces)
              \union Permutations(Inboxes) \union Permutations(Reconcilers)
=============================================================================
