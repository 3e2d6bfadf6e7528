------------------------- MODULE ChainSimProperties -------------------------
(***************************************************************************)
(* What the simulated chain must guarantee of the vault's money, by the    *)
(* contract it stands in for.                                              *)
(***************************************************************************)
EXTENDS ChainSim

\* Every variable has its type; there are as many pending blocks as heights
\* between finality and the head, and never more than Confirms.
SimTypeOK ==
  /\ head \in 0..MaxHeight
  /\ finalHeight \in 0..head
  /\ final \in Contract!Vaults
  /\ Len(pending) = head - finalHeight /\ Len(pending) <= Confirms
  /\ \A i \in DOMAIN pending : ToSet(pending[i]) \subseteq Contract!Call
  /\ ToSet(mempool) \subseteq Contract!Call
  /\ receipts \in [Nonces ->
       [processed : BOOLEAN, finalized : BOOLEAN, height : 0..MaxHeight,
        rejected : {"none", "expired", "zero_amount", "market_settled", "not_yet_expired"}]]

\* Escrow never exceeds custody and a settled market holds none (lib.rs rule 3
\* and Vault::check), at finality and at every height above it, whatever calls
\* a reorg drops or reorders.
EscrowIsBacked ==
  \A i \in 0..Len(pending) : Contract!Check(HeadOver(SubSeq(pending, 1, i)))

\* The differential test: the contract accepts every call of the finalised
\* history and ends with the simulator's balance, escrow and nonces.
FinalHistoryReplays ==
  LET run == Contract!Replay(trace)
  IN run.refused = 0 /\ run.vault = final

\* A receipt says processed exactly while a surviving block has executed the
\* nonce, at the height it names, and finalized exactly when that block is.
ReceiptsMatchBlocks ==
  \A n \in Nonces :
    /\ receipts[n].finalized <=> n \in final.processed
    /\ receipts[n].processed <=> n \in HeadVault.processed
    /\ receipts[n].processed /\ ~receipts[n].finalized =>
         \E tx \in ToSet(pending[receipts[n].height - finalHeight]) :
           tx.nonce = n /\ tx.kind # "cancel"
=============================================================================
