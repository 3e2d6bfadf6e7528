------------------------------ MODULE MCInbox -------------------------------
(* Small instances of the deposit inbox for TLC. *)
EXTENDS InboxProperties

\* Deposits are interchangeable, and so are loops of a kind; for runs without
\* liveness.
Symmetry == Permutations(Deposits) \union Permutations(Inboxes) \union Permutations(Reconcilers)
=============================================================================
