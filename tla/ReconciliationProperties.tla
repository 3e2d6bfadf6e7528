---------------------- MODULE ReconciliationProperties ----------------------
(***************************************************************************)
(* What the reconciler must guarantee.  Nothing in the model ever loses    *)
(* money, so every alarm is a false one.                                   *)
(***************************************************************************)
EXTENDS Reconciliation

WithdrawnNotRecognised == Cardinality({n \in InFlight : paid[n]})

\* Finalised deposits none of whose events is an applied, unreverted fact.
DepositsNotIngested ==
  Amount * Cardinality({s \in Seqs :
    Finalized(s) /\ \A t \in Unreverted : log[t].fact # log[s].fact})

\* The reconciliation identity, read off one consistent snapshot: whatever was
\* reorged, credited early, spent, taken back, healed, paid or refunded, ledger
\* and vault differ by exactly the three terms, unless a credit on an orphaned
\* block is still to be compensated.
SnapshotIsExplained ==
  (\A s \in Unreverted : log[s].live) =>
    InternalTotal - FinalizedBalance =
      WithdrawnNotRecognised - DepositsNotIngested + ProvisionalCredits(finalHeight)

\* The report is exact: after its own settleFacts a pass finds no unexplained
\* unit in either direction (verify.go I2), whatever was in flight and wherever
\* an earlier pass was killed.
AuditIsExact == \A p \in Reconcilers : audit[p].at = "report" => audit[p].residue = 0

\* All withdrawals are halted only for a shortfall that exists
\* (unsafe_shortfall: `the ledger believes in money the chain does not hold').
NoFalseHalt == ~halted
=============================================================================
