----------------------------- MODULE VaultChain -----------------------------
(***************************************************************************)
(* The chain the engine talks to, seen one withdrawal nonce at a time      *)
(* (internal/chain/sim.go, type Sim).                                      *)
(*                                                                         *)
(* Every block drains the whole mempool and keeps only the calls the       *)
(* contract accepted, so the block list of the simulator is determined by  *)
(* the height at which each nonce was executed or cancelled.  Head state   *)
(* is `height above 0'; finalised state is `height at most finalHeight'.   *)
(* Custody is not counted: a withdrawal the vault cannot fund yet is in    *)
(* the set `short' chosen by Mine.                                         *)
(***************************************************************************)
EXTENDS Integers, FiniteSets

CONSTANTS
  Nonces,        \* intent ids; an intent's id is its nonce on chain
  Confirms,      \* blocks until finality (Faults.Confirms)
  ExpiryBlocks,  \* how long a nonce stays valid (WithdrawExpiryBlocks)
  Reorgs,        \* whether Mine may reorg first (Faults.Reorg > 0)
  MaxHeight,     \* bound: no block above this height
  QuietHeight    \* bound: from here on, no block that carries nothing

ASSUME ConfirmsAssumption == Confirms \in Nat \ {0}
ASSUME ExpiryAssumption == ExpiryBlocks \in Nat \ {0}
ASSUME ReorgsAssumption == Reorgs \in BOOLEAN
ASSUME BoundsAssumption == MaxHeight \in Nat /\ QuietHeight \in Nat

VARIABLES
  head,          \* height of the newest block
  finalHeight,   \* height of the newest finalised block
  paidAt,        \* block that executed the withdrawal, 0 if none
  cancelAt,      \* block that executed the cancellation, 0 if none
  receipt,       \* what the chain's receipt for the nonce says
  mempool,       \* calls accepted and not yet mined
  unsaved,       \* cancels queued since the chain file was last written
  expiry         \* ExpiryHeight stamped on the nonce's call, 0 before that

chainVars == <<head, finalHeight, paidAt, cancelAt, receipt, mempool, unsaved,
               expiry>>

Heights == 0..MaxHeight
Calls == Nonces \X {"withdraw", "cancel"}

\* TxStatus: none yet, Processed, Processed and Finalized, Rejected: "expired",
\* Rejected: "not_yet_expired".
Receipts == {"none", "processed", "final", "expired", "early"}

ChainTypeOK ==
  /\ head \in Heights
  /\ finalHeight \in Heights
  /\ paidAt \in [Nonces -> Heights]
  /\ cancelAt \in [Nonces -> Heights]
  /\ receipt \in [Nonces -> Receipts]
  /\ mempool \subseteq Calls
  /\ unsaved \subseteq Nonces
  /\ expiry \in [Nonces -> 0..(MaxHeight + ExpiryBlocks)]

ChainInit ==
  /\ head = 0
  /\ finalHeight = 0
  /\ paidAt = [n \in Nonces |-> 0]
  /\ cancelAt = [n \in Nonces |-> 0]
  /\ receipt = [n \in Nonces |-> "none"]
  /\ mempool = {}
  /\ unsaved = {}
  /\ expiry = [n \in Nonces |-> 0]

-----------------------------------------------------------------------------
(* What a caller can ask (TxStatus, Expired). *)

\* (Definitions commented `fault:' are broken variants used in mutation tests.)

\* fault: any included payout counts as final
FinalizedOnInclusion(n) == receipt[n] \in {"processed", "final"}

\* TxStatus.Processed and TxStatus.Finalized.
Processed(n) == receipt[n] \in {"processed", "final"}
Finalized(n) == receipt[n] = "final"

\* The contract's own record at the head, headLocked().Cancelled.
Cancelled(n) == cancelAt[n] # 0

\* Expired: a processed nonce never is; otherwise the contract has refused it,
\* in a receipt or by a cancellation in force at the head.
Expired(n) == ~Processed(n) /\ (receipt[n] = "expired" \/ Cancelled(n))

-----------------------------------------------------------------------------
(* Calls *)

\* A request reads the head and stamps the call it will make with the height
\* after which the contract is to refuse it.
Stamp(n) ==
  /\ expiry[n] = 0
  /\ expiry' = [expiry EXCEPT ![n] = head + ExpiryBlocks]
  /\ UNCHANGED <<head, finalHeight, paidAt, cancelAt, receipt, mempool, unsaved>>

\* Submit answers without looking at the mempool: an executed nonce is a
\* success, a cancelled or overdue one an error.
SubmitRefused(n) == ~Processed(n) /\ (Cancelled(n) \/ head > expiry[n])

\* Submit of a withdrawal; acked is whether the caller gets a nil error.
\* An open nonce may be dropped (SubmitError), or accepted with the receipt
\* delivered or lost (LostReceipt).  Acceptance writes the chain file.
Submit(n, acked) ==
  \/ /\ acked = Processed(n)
     /\ Processed(n) \/ SubmitRefused(n)
     /\ UNCHANGED chainVars
  \/ /\ ~Processed(n) /\ ~SubmitRefused(n)
     /\ ~acked
     /\ UNCHANGED chainVars
  \/ /\ ~Processed(n) /\ ~SubmitRefused(n)
     /\ mempool' = mempool \union {<<n, "withdraw">>}
     /\ unsaved' = {}
     /\ UNCHANGED <<head, finalHeight, paidAt, cancelAt, receipt, expiry>>

\* Cancel answers true only when the cancellation is in force at the head;
\* past the expiry it queues one.  Cancel does not write the chain file.
CancelQueued(n) ==
  /\ ~Processed(n) /\ ~Cancelled(n)
  /\ head > expiry[n]
  /\ <<n, "cancel">> \notin mempool

Cancel(n, inForce) ==
  /\ inForce = (~Processed(n) /\ Cancelled(n))
  /\ IF CancelQueued(n)
     THEN /\ mempool' = mempool \union {<<n, "cancel">>}
          /\ unsaved' = unsaved \union {n}
     ELSE UNCHANGED <<mempool, unsaved>>
  /\ UNCHANGED <<head, finalHeight, paidAt, cancelAt, receipt, expiry>>

-----------------------------------------------------------------------------
(* Blocks *)

\* headLocked: what the blocks up to base say of a nonce.
PaidUpTo(n, base) == IF paidAt[n] > base THEN 0 ELSE paidAt[n]
CancelledUpTo(n, base) == IF cancelAt[n] > base THEN 0 ELSE cancelAt[n]

\* fault: the lowest orphaned block is skipped
OrphanedAbove(base) ==
  {<<n, "withdraw">> : n \in {m \in Nonces : paidAt[m] > base + 1}}
    \union {<<n, "cancel">> : n \in {m \in Nonces : cancelAt[m] > base + 1}}

\* reorgLocked: the calls in the blocks above base return to the mempool, and
\* their receipts are deleted, a cancelled nonce's refusal included.
Orphaned(base) ==
  {<<n, "withdraw">> : n \in {m \in Nonces : paidAt[m] > base}}
    \union {<<n, "cancel">> : n \in {m \in Nonces : cancelAt[m] > base}}

LosesReceipt(n, base) == {<<n, "withdraw">>, <<n, "cancel">>} \intersect Orphaned(base) # {}

Pool(base) == mempool \union Orphaned(base)

\* applyTx, in a block at base + 1: dedupe, then cancellation, then expiry,
\* then funds.  The order of the pool does not matter to a single nonce: at
\* any height its withdrawal or its cancellation is refused.
Open(n, base) == PaidUpTo(n, base) = 0 /\ CancelledUpTo(n, base) = 0

Executes(n, base, short) ==
  /\ <<n, "withdraw">> \in Pool(base)
  /\ Open(n, base)
  /\ base + 1 <= expiry[n]
  /\ n \notin short

Cancels(n, base) ==
  /\ <<n, "cancel">> \in Pool(base)
  /\ Open(n, base)
  /\ base + 1 > expiry[n]

RefusedExpired(n, base) ==
  /\ PaidUpTo(n, base) = 0
  /\ \/ CancelledUpTo(n, base) # 0
        /\ {<<n, "withdraw">>, <<n, "cancel">>} \intersect Pool(base) # {}
     \/ base + 1 > expiry[n] /\ <<n, "withdraw">> \in Pool(base)

\* A cancel that comes too early leaves Rejected: "not_yet_expired", unless the
\* same block executes the withdrawal.
RefusedEarly(n, base, short) ==
  /\ <<n, "cancel">> \in Pool(base)
  /\ Open(n, base)
  /\ base + 1 <= expiry[n]
  /\ ~Executes(n, base, short)

\* fault: finality runs below genesis
FinalAfterUnguarded(h) == h - Confirms

\* fault: one block more than Confirms stays reversible
FinalAfterLate(h) == IF h - finalHeight > Confirms + 1 THEN h - Confirms - 1 ELSE finalHeight

\* Blocks that age past Confirms become final.
FinalAfter(h) == IF h - finalHeight > Confirms THEN h - Confirms ELSE finalHeight

Ages(n, base) ==
  receipt[n] = "processed" /\ PaidUpTo(n, base) \in 1..FinalAfter(base + 1)

\* A receipt goes with its orphaned block, is written by the executions and
\* refusals of the new one, and turns final with the block it names.
ReceiptAfter(n, base, short) ==
  CASE Executes(n, base, short)     -> "processed"
    [] RefusedExpired(n, base)      -> "expired"
    [] RefusedEarly(n, base, short) -> "early"
    [] Ages(n, base)                -> "final"
    [] OTHER -> IF LosesReceipt(n, base) THEN "none" ELSE receipt[n]

\* Near the height bound a block must carry a call or make a payout final.
WithinBounds(base) ==
  /\ base < MaxHeight
  /\ base >= QuietHeight =>
       Pool(base) # {} \/ \E n \in Nonces : PaidUpTo(n, base) > finalHeight

\* Mine: drop depth unfinalised blocks, then one block over everything queued.
Mine(depth, short) ==
  LET base == head - depth
  IN /\ depth > 0 => Reorgs
     /\ WithinBounds(base)
     /\ head' = base + 1
     /\ finalHeight' = FinalAfter(base + 1)
     /\ paidAt' = [n \in Nonces |->
                     IF Executes(n, base, short) THEN base + 1 ELSE PaidUpTo(n, base)]
     /\ cancelAt' = [n \in Nonces |->
                       IF Cancels(n, base) THEN base + 1 ELSE CancelledUpTo(n, base)]
     /\ receipt' = [n \in Nonces |-> ReceiptAfter(n, base, short)]
     /\ mempool' = {}
     /\ unsaved' = {}
     /\ UNCHANGED expiry

\* A process that dies takes the chain's unsaved calls with it when the chain
\* lives in the process (pmr serve), and none when it is restarted over a live
\* chain (the chaos harness).
LoseUnsaved ==
  /\ \/ mempool' = mempool \ {<<n, "cancel">> : n \in unsaved}
     \/ mempool' = mempool
  /\ unsaved' = {}
  /\ UNCHANGED <<head, finalHeight, paidAt, cancelAt, receipt, expiry>>

MineAny == \E depth \in 0..(head - finalHeight), short \in SUBSET Nonces : Mine(depth, short)

ChainNext ==
  \/ \E n \in Nonces : Stamp(n)
  \/ \E n \in Nonces, acked \in BOOLEAN : Submit(n, acked)
  \/ \E n \in Nonces, inForce \in BOOLEAN : Cancel(n, inForce)
  \/ MineAny
  \/ LoseUnsaved

=============================================================================
