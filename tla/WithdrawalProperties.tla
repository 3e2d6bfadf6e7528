------------------------ MODULE WithdrawalProperties ------------------------
(***************************************************************************)
(* What the withdrawal pipeline must guarantee.                            *)
(***************************************************************************)
EXTENDS Withdrawals

(***************************************************************************)
(* No block is ever replaced by one lower down: the assumption under which *)
(* a refusal seen at the head is as good as a final one.  It holds when    *)
(* the chain does not reorg, or finalises all but the newest block.        *)
(***************************************************************************)
HeadNeverDrops == Reorgs => Confirms = 1

\* The money is in one place: once the ledger has refunded a withdrawal, the
\* vault never irrevocably pays it (intent.go: `expired -- the chain provably
\* never processed it'; the resolver refunds only past the expiry and refused).
NeverRefundedAndPaid ==
  \A n \in Nonces : intent[n] = "expired" => paidAt[n] \notin 1..finalHeight

\* A payout is recognised only at finality and under the block that holds it,
\* however stale the resolver's view was when it confirmed.  This is also why
\* reorgCheck never has a confirmed intent to revert.
ConfirmedIsFinal ==
  \A n \in Nonces : intent[n] = "confirmed" =>
    paidAt[n] \in 1..finalHeight /\ block[n] = paidAt[n]

\* A withdrawal's reservation leaves pending_withdraw exactly once: the ledger
\* holds the settlement or the refund that its intent's state says, never both
\* and never neither (verify.go I6).
ReservationReleasedOnce ==
  \A n \in Nonces :
    posted[n] = CASE intent[n] = "none"      -> {}
                  [] intent[n] \in {"reserved", "submitted"} -> {"reserve"}
                  [] intent[n] = "confirmed" -> {"reserve", "final"}
                  [] intent[n] = "expired"   -> {"reserve", "refund"}

\* TxStatus is the truthful tier: through any reorg, a receipt says processed
\* exactly while a block at the head holds the payout and final exactly once
\* that block is.
ReceiptsTellTheTruth ==
  \A n \in Nonces :
    /\ Processed(n) <=> paidAt[n] # 0
    /\ Finalized(n) <=> paidAt[n] \in 1..finalHeight

\* A reservation is never stranded before its first submission: while the
\* intent is still `reserved', its outbox row can be leased again or is in some
\* worker's hands, whichever step a crash or an error fell between.
ReservedHasASubmitter ==
  \A n \in Nonces : intent[n] = "reserved" =>
    n \in Leasable \/ \E p \in Procs : n \in sender[p].jobs

\* Finalised history is permanent: no step moves, adds below or drops a payout
\* or a cancellation in it, and finality only advances.
FinalityIsPermanent ==
  [][/\ finalHeight' >= finalHeight
     /\ \A n \in Nonces :
          /\ (paidAt[n] \in 1..finalHeight \/ paidAt'[n] \in 1..finalHeight)
               => paidAt'[n] = paidAt[n]
          /\ (cancelAt[n] \in 1..finalHeight \/ cancelAt'[n] \in 1..finalHeight)
               => cancelAt'[n] = cancelAt[n]]_vars

\* A decided intent stays decided: no late confirmation of a refunded intent,
\* no late refund of a confirmed one, no submitted state after either.
DecisionsStand ==
  [][\A n \in Nonces : intent[n] \in {"confirmed", "expired"} =>
       intent'[n] = intent[n] /\ posted'[n] = posted[n]]_vars

\* Every reservation is resolved: whatever fails, the user's money does not
\* stay in pending_withdraw for ever.
EveryWithdrawalResolves ==
  \A n \in Nonces : intent[n] = "reserved" ~> intent[n] \in {"confirmed", "expired"}

(***************************************************************************)
(* The pipeline keeps the abstract promise: the ledger's view is the       *)
(* intent's state, and the vault has paid when the payout is final.        *)
(***************************************************************************)
book == [n \in Nonces |-> CASE intent[n] = "none"      -> "none"
                            [] intent[n] = "confirmed" -> "settled"
                            [] intent[n] = "expired"   -> "refunded"
                            [] OTHER                   -> "reserved"]
paid == [n \in Nonces |-> paidAt[n] \in 1..finalHeight]

Promise == INSTANCE WithdrawalPromise

\* Every step of the pipeline is one the promise allows, and every reservation
\* it allows to end does.
KeepsPromise == Promise!FairSpec
=============================================================================
