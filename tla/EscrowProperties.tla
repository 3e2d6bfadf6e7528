-------------------------- MODULE EscrowProperties --------------------------
(***************************************************************************)
(* What escrow synchronisation promises.                                   *)
(***************************************************************************)
EXTENDS Escrow

\* The vault's escrow comes to be what the ledger believes, whatever was refused
\* for want of free custody, lost, given up or executed late, once trading and
\* reorgs pause; a settled market ends with none (escrow.go: `the chain's view
\* of escrow converges behind it').  This takes a sync pass that is repeated, as
\* Quiesce and the chaos driver repeat it; serve starts no loop for EscrowTick.
EscrowConverges == <>[](final.escrow = collateral)

\* A market the ledger has settled holds no escrow, and no instruction that is
\* still on its way can bring it back (Confirm only acts on a final block).
SettledMarketHoldsNoEscrow ==
  \A m \in Markets : phase[m] = "settled" =>
    /\ m \in final.settled /\ final.escrow[m] = 0
    /\ Sim!HeadVault.escrow[m] = 0

\* In the end nothing that trades or settles is listed as out of sync, let alone
\* stuck (StuckEscrow: `the only escrow drifts worth alerting on'); the row of a
\* market the ledger has settled meanwhile stays, since no pass looks at the
\* market again.  The sync pass is repeated as for EscrowConverges.
AlertsEnd == <>[](\A m \in Markets : phase[m] # "settled" => drift[m] = NoRow)
=============================================================================
