------------------------------ MODULE ChainSim ------------------------------
(***************************************************************************)
(* The simulated chain with its money (internal/chain/sim.go): the vault's *)
(* custody, escrow and settlements at the head and at finality, the blocks *)
(* between them call by call, and the receipts.  VaultChain and            *)
(* DepositChain are this chain seen through one nonce at a time.           *)
(*                                                                         *)
(* The chain is driven by the calls in the constant Requests, each handed  *)
(* to it whenever its caller likes, again after a receipt was lost.        *)
(***************************************************************************)
EXTENDS Integers, SequencesExt

CONSTANTS
  Nonces,        \* fact ids and intent ids
  Markets,
  Requests,      \* the calls that will be made, one per nonce, no cancel
  Confirms,      \* blocks until finality (Faults.Confirms)
  MaxHeight,     \* bound: no block above this height
  MaxUnfinal     \* bound: no more calls than this are unfinalised at a time

Contract == INSTANCE VaultContract

ASSUME MarketsAssumption == IsFiniteSet(Markets)
ASSUME ConfirmsAssumption == Confirms \in Nat \ {0}
ASSUME HeightAssumption == MaxHeight \in Nat
ASSUME RequestsAssumption ==
  /\ Requests \subseteq Contract!Call
  /\ \A c \in Requests : c.kind # "cancel"
  /\ \A c, d \in Requests : c.nonce = d.nonce => c = d

VARIABLES
  head,          \* height of the newest block
  finalHeight,   \* height of the newest finalised block
  final,         \* the vault at finalHeight
  pending,       \* the blocks above finalHeight, oldest first, as call lists
  receipts,      \* TxStatus of each nonce
  mempool,       \* calls accepted and not yet mined, oldest first
  trace          \* every finalised call with its height, as TraceTo writes it

vars == <<head, finalHeight, final, pending, receipts, mempool, trace>>

NoReceipt == [processed |-> FALSE, finalized |-> FALSE, height |-> 0, rejected |-> "none"]

-----------------------------------------------------------------------------
(* The simulator's copy of the contract *)

\* fault: escrowed custody counts as free
WholeBalance(vault) == vault.balance

Free(vault) == vault.balance - SumFunction(vault.escrow)

\* applyTx's verdict: "ok", a permanent reason, or "transient".  Dedupe comes
\* before expiry.
Verdict(vault, tx, height) ==
  IF tx.nonce \in vault.processed THEN "already_processed"
  ELSE IF tx.nonce \in vault.cancelled THEN "expired"
  ELSE IF tx.kind # "cancel" /\ tx.expiry > 0 /\ height > tx.expiry THEN "expired"
  ELSE CASE tx.kind = "deposit" -> IF tx.amount = 0 THEN "zero_amount" ELSE "ok"
         [] tx.kind = "withdraw" ->
              IF tx.amount = 0 THEN "zero_amount"
              ELSE IF Free(vault) < tx.amount THEN "transient" ELSE "ok"
         [] tx.kind = "escrow_set" ->
              LET cur == vault.escrow[tx.market]
              IN IF tx.market \in vault.settled THEN "market_settled"
                 ELSE IF tx.amount > cur /\ Free(vault) < tx.amount - cur
                 THEN "transient" ELSE "ok"
         [] tx.kind = "settle_market" ->
              IF tx.market \in vault.settled THEN "market_settled" ELSE "ok"
         [] tx.kind = "cancel" ->
              IF tx.expiry = 0 \/ height <= tx.expiry THEN "not_yet_expired" ELSE "ok"

\* What an accepted call does to the vault.
Effect(vault, tx) ==
  LET delta == CASE tx.kind = "deposit" -> tx.amount
                 [] tx.kind = "withdraw" -> -tx.amount
                 [] OTHER -> 0
      isCancel == tx.kind = "cancel"
  IN [balance   |-> vault.balance + delta,
      escrow    |-> CASE tx.kind = "escrow_set" -> [vault.escrow EXCEPT ![tx.market] = tx.amount]
                      [] tx.kind = "settle_market" -> [vault.escrow EXCEPT ![tx.market] = 0]
                      [] OTHER -> vault.escrow,
      settled   |-> vault.settled \union IF tx.kind = "settle_market" THEN {tx.market} ELSE {},
      processed |-> vault.processed \union IF isCancel THEN {} ELSE {tx.nonce},
      cancelled |-> vault.cancelled \union IF isCancel THEN {tx.nonce} ELSE {}]

ApplyTx(vault, tx, height) ==
  IF Verdict(vault, tx, height) = "ok" THEN Effect(vault, tx) ELSE vault

ApplyBlock(vault, txs, height) ==
  FoldLeft(LAMBDA v, tx : ApplyTx(v, tx, height), vault, txs)

\* headLocked: finalised state plus the given pending blocks, replayed.
HeadOver(blocks) ==
  FoldLeftDomain(LAMBDA v, i : ApplyBlock(v, blocks[i], finalHeight + i), final, blocks)

HeadVault == HeadOver(pending)

-----------------------------------------------------------------------------
(* Calls *)

Queue(tx) == mempool' = Append(mempool, tx)

Unfinal == Len(mempool) + Len(FlattenSeq(pending))

\* Deposit: the user sends funds straight to the vault, once.
Deposit(tx) ==
  /\ tx.kind = "deposit"
  /\ ~receipts[tx.nonce].processed /\ tx \notin ToSet(mempool)
  /\ Unfinal < MaxUnfinal
  /\ Queue(tx)
  /\ UNCHANGED <<head, finalHeight, final, pending, receipts, trace>>

\* Submit of an intent's call: an executed nonce is a success, a cancelled or
\* overdue one an error, and neither changes the chain.  The outbox may submit
\* a call again while it is queued; that copy is left out, since a copy after
\* an executed one is refused as already processed, and one that is refused
\* before its twin changes nothing.
Submit(tx) ==
  /\ tx.kind # "deposit"
  /\ ~receipts[tx.nonce].processed
  /\ tx.nonce \notin HeadVault.cancelled
  /\ tx.expiry > 0 => head <= tx.expiry
  /\ tx \notin ToSet(mempool)
  /\ Unfinal < MaxUnfinal
  /\ Queue(tx)
  /\ UNCHANGED <<head, finalHeight, final, pending, receipts, trace>>

\* Cancel, for a withdrawal past its expiry that has neither executed nor been
\* refused, unless a cancellation is already queued.
Cancel(tx) ==
  LET call == [tx EXCEPT !.kind = "cancel"]
  IN /\ tx.kind = "withdraw"
     /\ ~receipts[tx.nonce].processed
     /\ tx.nonce \notin HeadVault.cancelled
     /\ tx.expiry > 0 /\ head > tx.expiry
     /\ Unfinal < MaxUnfinal
     /\ call \notin ToSet(mempool)
     /\ Queue(call)
     /\ UNCHANGED <<head, finalHeight, final, pending, receipts, trace>>

-----------------------------------------------------------------------------
(* Blocks *)

\* fault: a reorg leaves the receipts alone
KeptReceipts(orphaned) == receipts

\* reorgLocked deletes the receipts of the calls it takes out of the chain.
SurvivingReceipts(orphaned) ==
  [n \in Nonces |->
     IF \E tx \in ToSet(orphaned) : tx.nonce = n THEN NoReceipt ELSE receipts[n]]

\* A block takes the pool in order.  A call the contract refuses is dropped,
\* and leaves a receipt if it is refused for good.
Assemble(vault, recs, pool, height) ==
  FoldLeft(LAMBDA b, tx :
             LET verdict == Verdict(b.vault, tx, height)
             IN CASE verdict = "ok" ->
                       [b EXCEPT !.vault = ApplyTx(@, tx, height), !.txs = Append(@, tx)]
                  [] verdict \in {"transient", "already_processed"} -> b
                  [] OTHER ->
                       [b EXCEPT !.recs[tx.nonce] = [NoReceipt EXCEPT !.rejected = verdict]],
           [vault |-> vault, txs |-> <<>>, recs |-> recs],
           pool)

\* Every executed nonce gets a receipt that names the block.
Executed(recs, txs, height) ==
  [n \in Nonces |->
     IF \E tx \in ToSet(txs) : tx.nonce = n /\ tx.kind # "cancel"
     THEN [NoReceipt EXCEPT !.processed = TRUE, !.height = height] ELSE recs[n]]

\* The receipts of a block that turns final say so.
Settled(recs, txs) ==
  [n \in Nonces |->
     IF recs[n].processed /\ \E tx \in ToSet(txs) : tx.nonce = n
     THEN [recs[n] EXCEPT !.finalized = TRUE] ELSE recs[n]]

\* fault: a block turns final at the height of the newest one
FinaliseAtHead(blocks, recs, newest) ==
  /\ finalHeight' = finalHeight + 1
  /\ final' = ApplyBlock(final, blocks[1], finalHeight + 1)
  /\ trace' = trace \o [i \in 1..Len(blocks[1]) |->
                          [call |-> blocks[1][i], height |-> newest]]
  /\ pending' = Tail(blocks)
  /\ receipts' = Settled(recs, blocks[1])

\* The oldest pending block is applied to the final vault and traced, at its
\* own height.
Finalise(blocks, recs, newest) ==
  /\ finalHeight' = finalHeight + 1
  /\ final' = ApplyBlock(final, blocks[1], finalHeight + 1)
  /\ trace' = trace \o [i \in 1..Len(blocks[1]) |->
                          [call |-> blocks[1][i], height |-> finalHeight + 1]]
  /\ pending' = Tail(blocks)
  /\ receipts' = Settled(recs, blocks[1])

\* The calls of the blocks a reorg of this depth drops.
Orphaned(depth) == FlattenSeq(SubSeq(pending, Len(pending) - depth + 1, Len(pending)))

\* fault: one block more stays reversible
FinalityDueLate(blocks) == Len(blocks) > Confirms + 1

FinalityDue(blocks) == Len(blocks) > Confirms

\* Mine: a reorg drops depth pending blocks and puts their calls, shuffled,
\* before those that wait; one new block over all of them; then the block that
\* has Confirms blocks on top is final.
Mine(depth, shuffled) ==
  LET kept     == SubSeq(pending, 1, Len(pending) - depth)
      height   == head - depth + 1
      block    == Assemble(HeadOver(kept), SurvivingReceipts(Orphaned(depth)),
                           shuffled \o mempool, height)
      blocks   == Append(kept, block.txs)
      recs     == Executed(block.recs, block.txs, height)
  IN /\ height <= MaxHeight
     /\ head' = height
     /\ mempool' = <<>>
     /\ IF FinalityDue(blocks)
        THEN Finalise(blocks, recs, height)
        ELSE /\ pending' = blocks
             /\ receipts' = recs
             /\ UNCHANGED <<finalHeight, final, trace>>

Init ==
  /\ head = 0
  /\ finalHeight = 0
  /\ final = Contract!NewVault
  /\ pending = <<>>
  /\ receipts = [n \in Nonces |-> NoReceipt]
  /\ mempool = <<>>
  /\ trace = <<>>

Next ==
  \/ \E tx \in Requests : Deposit(tx)
  \/ \E tx \in Requests : Submit(tx)
  \/ \E tx \in Requests : Cancel(tx)
  \/ \E depth \in 0..Len(pending) :
       \E shuffled \in SetToSeqs(ToSet(Orphaned(depth))) : Mine(depth, shuffled)

Spec == Init /\ [][Next]_vars
=============================================================================
