-------------------------- MODULE WithdrawalProofs --------------------------
(***************************************************************************)
(* Proofs about the withdrawal pipeline, for any set of nonces and         *)
(* processes, any finality depth and any bounds.                           *)
(***************************************************************************)
EXTENDS WithdrawalProperties, TLAPS

USE ConfirmsAssumption, ExpiryAssumption, ReorgsAssumption, BoundsAssumption,
    NoneAssumption, WithdrawalBounds

-----------------------------------------------------------------------------
(* The chain on its own *)

\* What every call to the chain preserves, whatever the engine does.
ChainInv ==
  /\ ChainTypeOK
  /\ finalHeight <= head
  /\ head - finalHeight <= Confirms
  /\ \A n \in Nonces : /\ paidAt[n] <= head /\ cancelAt[n] <= head
                       /\ paidAt[n] = 0 \/ cancelAt[n] = 0
  /\ ReceiptsTellTheTruth

\* A chain that has not started satisfies the chain's invariant.
LEMMA ChainInitInv == ChainInit => ChainInv
  BY DEF ChainInit, ChainInv, ChainTypeOK, ReceiptsTellTheTruth, Heights, Calls,
         Receipts, Processed, Finalized

\* The heights around a block mined over the surviving blocks up to base.
LEMMA MineHeights ==
  ASSUME ChainInv, NEW depth \in 0..(head - finalHeight), NEW short \in SUBSET Nonces,
         Mine(depth, short)
  PROVE  /\ head \in Nat /\ finalHeight \in Nat /\ MaxHeight \in Nat
         /\ head - depth \in Nat /\ finalHeight <= head - depth /\ head - depth <= head
         /\ head' = head - depth + 1 /\ head' \in Heights
         /\ finalHeight' = FinalAfter(head - depth + 1)
         /\ finalHeight' \in Nat /\ finalHeight' \in Heights
         /\ finalHeight <= finalHeight' /\ finalHeight' <= head - depth
         /\ head' - finalHeight' <= Confirms
<1>1. /\ head \in Nat /\ finalHeight \in Nat
      /\ head - depth \in Nat /\ finalHeight <= head - depth /\ head - depth <= head
      /\ head' = head - depth + 1 /\ finalHeight' = FinalAfter(head - depth + 1)
      /\ head - depth < MaxHeight
  BY DEF ChainInv, ChainTypeOK, Heights, Mine, WithinBounds
<1> QED
  BY <1>1 DEF ChainInv, ChainTypeOK, Heights, FinalAfter

\* What a block does to one nonce: it is executed, cancelled or left as the
\* surviving blocks had it, and never both executed and cancelled.
LEMMA MineNonce ==
  ASSUME ChainInv, NEW depth \in 0..(head - finalHeight), NEW short \in SUBSET Nonces,
         Mine(depth, short), NEW n \in Nonces
  PROVE  LET base == head - depth
         IN /\ paidAt'[n] = IF Executes(n, base, short) THEN base + 1 ELSE PaidUpTo(n, base)
            /\ cancelAt'[n] = IF Cancels(n, base) THEN base + 1 ELSE CancelledUpTo(n, base)
            /\ receipt'[n] = ReceiptAfter(n, base, short)
            /\ PaidUpTo(n, base) \in Nat /\ PaidUpTo(n, base) <= base
            /\ CancelledUpTo(n, base) \in Nat /\ CancelledUpTo(n, base) <= base
            /\ paidAt'[n] \in Heights /\ paidAt'[n] <= head'
            /\ cancelAt'[n] \in Heights /\ cancelAt'[n] <= head'
            /\ paidAt'[n] = 0 \/ cancelAt'[n] = 0
<1> DEFINE base == head - depth
<1>1. paidAt[n] \in Heights /\ cancelAt[n] \in Heights /\ expiry[n] \in Nat
      /\ (paidAt[n] = 0 \/ cancelAt[n] = 0)
  BY DEF ChainInv, ChainTypeOK, Heights
<1>2. /\ paidAt'[n] = IF Executes(n, base, short) THEN base + 1 ELSE PaidUpTo(n, base)
      /\ cancelAt'[n] = IF Cancels(n, base) THEN base + 1 ELSE CancelledUpTo(n, base)
      /\ receipt'[n] = ReceiptAfter(n, base, short)
  BY DEF Mine
<1>3. /\ PaidUpTo(n, base) \in Nat /\ PaidUpTo(n, base) <= base
      /\ CancelledUpTo(n, base) \in Nat /\ CancelledUpTo(n, base) <= base
      /\ PaidUpTo(n, base) = 0 \/ CancelledUpTo(n, base) = 0
  BY <1>1, MineHeights DEF PaidUpTo, CancelledUpTo, Heights
<1>4. paidAt'[n] = 0 \/ cancelAt'[n] = 0
  BY <1>1, <1>2, <1>3, MineHeights DEF Executes, Cancels, Open, Heights
<1> QED
  BY <1>1, <1>2, <1>3, <1>4, MineHeights DEF Heights

\* The receipts a block leaves behind are truthful.
LEMMA MineReceipt ==
  ASSUME ChainInv, NEW depth \in 0..(head - finalHeight), NEW short \in SUBSET Nonces,
         Mine(depth, short), NEW n \in Nonces
  PROVE  /\ receipt'[n] \in Receipts
         /\ receipt'[n] \in {"processed", "final"} <=> paidAt'[n] # 0
         /\ receipt'[n] = "final" <=> paidAt'[n] \in 1..finalHeight'
<1> DEFINE base == head - depth
<1>1. receipt'[n] = ReceiptAfter(n, base, short)
  BY MineNonce
<1>2. /\ base \in Nat /\ finalHeight' = FinalAfter(base + 1) /\ finalHeight' \in Nat
      /\ finalHeight \in Nat /\ finalHeight <= finalHeight' /\ finalHeight' <= base
      /\ finalHeight <= base
  BY MineHeights
<1>3. /\ PaidUpTo(n, base) \in Nat /\ CancelledUpTo(n, base) \in Nat
      /\ paidAt[n] \in Nat /\ cancelAt[n] \in Nat /\ expiry[n] \in Nat
      /\ receipt[n] \in Receipts
      /\ (paidAt[n] = 0 \/ cancelAt[n] = 0)
  BY MineNonce DEF ChainInv, ChainTypeOK, Heights
<1>4. /\ receipt[n] \in {"processed", "final"} <=> paidAt[n] # 0
      /\ receipt[n] = "final" <=> paidAt[n] \in 1..finalHeight
  BY DEF ChainInv, ReceiptsTellTheTruth, Processed, Finalized
<1>5. CASE Executes(n, base, short)
  <2>1. ~RefusedExpired(n, base) /\ ~RefusedEarly(n, base, short) /\ ~Ages(n, base)
    BY <1>2, <1>3, <1>5 DEF Executes, RefusedExpired, RefusedEarly, Ages, Open
  <2>2. receipt'[n] = "processed"
    BY <1>1, <1>5, <2>1 DEF ReceiptAfter
  <2>3. paidAt'[n] = base + 1
    BY <1>5, MineNonce
  <2> QED
    BY <1>2, <2>2, <2>3 DEF Receipts
<1>6. CASE ~Executes(n, base, short) /\ (RefusedExpired(n, base) \/ RefusedEarly(n, base, short))
  <2>1. PaidUpTo(n, base) = 0 /\ paidAt'[n] = 0
    BY <1>6, MineNonce DEF RefusedExpired, RefusedEarly, Open
  <2>2. receipt'[n] \in {"expired", "early"}
    BY <1>1, <1>2, <1>6, <2>1 DEF ReceiptAfter, Ages
  <2> QED
    BY <1>2, <2>1, <2>2 DEF Receipts
<1>7. CASE /\ ~Executes(n, base, short)
           /\ ~RefusedExpired(n, base) /\ ~RefusedEarly(n, base, short)
  <2>1. paidAt'[n] = PaidUpTo(n, base)
    BY <1>7, MineNonce
  <2>2. CASE Ages(n, base)
    <3>1. receipt'[n] = "final"
      BY <1>1, <1>7, <2>2 DEF ReceiptAfter
    <3>2. paidAt'[n] \in 1..finalHeight'
      BY <1>2, <2>1, <2>2 DEF Ages
    <3> QED
      BY <1>2, <3>1, <3>2 DEF Receipts
  <2>3. CASE ~Ages(n, base)
    <3>1. receipt'[n] = IF LosesReceipt(n, base) THEN "none" ELSE receipt[n]
      BY <1>1, <1>7, <2>3 DEF ReceiptAfter
    <3>2. paidAt[n] > base => LosesReceipt(n, base)
      BY <1>2, <1>3 DEF LosesReceipt, Orphaned
    <3>3. paidAt[n] <= base /\ paidAt[n] # 0 => ~LosesReceipt(n, base)
      BY <1>2, <1>3 DEF LosesReceipt, Orphaned
    <3>4. PaidUpTo(n, base) = IF paidAt[n] > base THEN 0 ELSE paidAt[n]
      BY DEF PaidUpTo
    <3>5. ~(receipt[n] = "processed" /\ PaidUpTo(n, base) \in 1..finalHeight')
      BY <1>2, <2>3 DEF Ages
    <3> QED
      BY <1>2, <1>3, <1>4, <2>1, <3>1, <3>2, <3>3, <3>4, <3>5 DEF Receipts
  <2> QED
    BY <2>2, <2>3
<1> QED
  BY <1>5, <1>6, <1>7

\* A block preserves the chain's invariant.
LEMMA MineInv ==
  ASSUME ChainInv, NEW depth \in 0..(head - finalHeight), NEW short \in SUBSET Nonces,
         Mine(depth, short)
  PROVE  ChainInv'
<1>1. /\ paidAt' \in [Nonces -> Heights] /\ cancelAt' \in [Nonces -> Heights]
      /\ receipt' \in [Nonces -> Receipts]
  <2>1. \A n \in Nonces : /\ paidAt'[n] \in Heights /\ cancelAt'[n] \in Heights
                          /\ receipt'[n] \in Receipts
    BY MineNonce, MineReceipt
  <2> QED
    BY <2>1 DEF Mine
<1>2. /\ head' \in Heights /\ finalHeight' \in Heights
      /\ mempool' \subseteq Calls /\ unsaved' \subseteq Nonces
      /\ expiry' \in [Nonces -> 0..(MaxHeight + ExpiryBlocks)]
  BY MineHeights DEF Mine, ChainInv, ChainTypeOK
<1>3. ChainTypeOK'
  BY <1>1, <1>2 DEF ChainTypeOK
<1>4. finalHeight' <= head' /\ head' - finalHeight' <= Confirms
  BY MineHeights
<1>5. \A n \in Nonces : /\ paidAt'[n] <= head' /\ cancelAt'[n] <= head'
                        /\ paidAt'[n] = 0 \/ cancelAt'[n] = 0
  BY MineNonce
<1>6. ReceiptsTellTheTruth'
  BY MineReceipt DEF ReceiptsTellTheTruth, Processed, Finalized
<1> QED
  BY <1>3, <1>4, <1>5, <1>6 DEF ChainInv

\* Every call to the chain preserves its invariant.
LEMMA ChainNextInv ==
  ASSUME ChainInv, ChainNext \/ UNCHANGED chainVars
  PROVE  ChainInv'
<1> USE DEF ChainInv, ChainTypeOK, ReceiptsTellTheTruth, Processed, Finalized
<1>1. ASSUME NEW n \in Nonces, Stamp(n)
      PROVE  ChainInv'
  BY <1>1 DEF Stamp, Heights
<1>2. ASSUME NEW n \in Nonces, NEW acked \in BOOLEAN, Submit(n, acked)
      PROVE  ChainInv'
  BY <1>2 DEF Submit, chainVars, Calls
<1>3. ASSUME NEW n \in Nonces, NEW inForce \in BOOLEAN, Cancel(n, inForce)
      PROVE  ChainInv'
  BY <1>3 DEF Cancel, Calls
<1>4. ASSUME MineAny
      PROVE  ChainInv'
  <2>1. PICK depth \in 0..(head - finalHeight), short \in SUBSET Nonces : Mine(depth, short)
    BY <1>4 DEF MineAny
  <2> QED
    BY <2>1, MineInv
<1>5. ASSUME LoseUnsaved
      PROVE  ChainInv'
  BY <1>5 DEF LoseUnsaved
<1>6. ASSUME UNCHANGED chainVars
      PROVE  ChainInv'
  BY <1>6 DEF chainVars
<1> QED
  BY <1>1, <1>2, <1>3, <1>4, <1>5, <1>6 DEF ChainNext

\* What is final stays where it is, and nothing is added below it.
LEMMA FinalStays ==
  ASSUME ChainInv, ChainNext \/ UNCHANGED chainVars, NEW n \in Nonces
  PROVE  /\ finalHeight <= finalHeight'
         /\ (paidAt[n] \in 1..finalHeight \/ paidAt'[n] \in 1..finalHeight)
               => paidAt'[n] = paidAt[n]
         /\ (cancelAt[n] \in 1..finalHeight \/ cancelAt'[n] \in 1..finalHeight)
               => cancelAt'[n] = cancelAt[n]
<1>1. ASSUME MineAny
      PROVE  /\ finalHeight <= finalHeight'
             /\ (paidAt[n] \in 1..finalHeight \/ paidAt'[n] \in 1..finalHeight)
                   => paidAt'[n] = paidAt[n]
             /\ (cancelAt[n] \in 1..finalHeight \/ cancelAt'[n] \in 1..finalHeight)
                   => cancelAt'[n] = cancelAt[n]
  <2>1. PICK depth \in 0..(head - finalHeight), short \in SUBSET Nonces : Mine(depth, short)
    BY <1>1 DEF MineAny
  <2> DEFINE base == head - depth
  <2>2. /\ finalHeight \in Nat /\ base \in Nat /\ finalHeight <= base
        /\ finalHeight <= finalHeight'
    BY <2>1, MineHeights
  <2>3. /\ paidAt'[n] = IF Executes(n, base, short) THEN base + 1 ELSE PaidUpTo(n, base)
        /\ cancelAt'[n] = IF Cancels(n, base) THEN base + 1 ELSE CancelledUpTo(n, base)
    BY <2>1, MineNonce
  <2>4. paidAt[n] \in Nat /\ cancelAt[n] \in Nat
    BY DEF ChainInv, ChainTypeOK, Heights
  <2> QED
    BY <2>2, <2>3, <2>4 DEF Executes, Cancels, Open, PaidUpTo, CancelledUpTo
<1>2. ASSUME ~MineAny
      PROVE  UNCHANGED <<finalHeight, paidAt, cancelAt>>
  BY <1>2 DEF ChainNext, chainVars, Stamp, Submit, Cancel, LoseUnsaved
<1>3. finalHeight \in Nat
  BY DEF ChainInv, ChainTypeOK, Heights
<1> QED
  BY <1>1, <1>2, <1>3

\* When the head never drops, a nonce that is overdue and unpaid stays both.
LEMMA OverdueStaysUnpaid ==
  ASSUME HeadNeverDrops, ChainInv, ChainNext \/ UNCHANGED chainVars
  PROVE  /\ head <= head'
         /\ \A n \in Nonces : expiry[n] # 0 /\ head > expiry[n] /\ paidAt[n] = 0
              => expiry'[n] = expiry[n] /\ paidAt'[n] = 0
<1>0. /\ head \in Nat /\ finalHeight \in Nat
      /\ \A n \in Nonces : expiry[n] \in Nat /\ paidAt[n] \in Nat
  BY DEF ChainInv, ChainTypeOK, Heights
<1>1. ASSUME MineAny
      PROVE  /\ head <= head'
             /\ \A n \in Nonces : head > expiry[n] /\ paidAt[n] = 0
                  => expiry'[n] = expiry[n] /\ paidAt'[n] = 0
  <2>1. PICK depth \in 0..(head - finalHeight), short \in SUBSET Nonces : Mine(depth, short)
    BY <1>1 DEF MineAny
  <2>2. depth \in Nat /\ head' = head - depth + 1 /\ head - depth \in Nat
    BY <2>1, MineHeights, <1>0
  <2>3. depth = 0 \/ depth = 1
    BY <2>1, <1>0 DEF Mine, HeadNeverDrops, ChainInv
  <2>4. ASSUME NEW n \in Nonces, head > expiry[n], paidAt[n] = 0
        PROVE  expiry'[n] = expiry[n] /\ paidAt'[n] = 0
    <3>1. ~Executes(n, head - depth, short)
      BY <2>2, <2>3, <2>4, <1>0 DEF Executes
    <3>2. PaidUpTo(n, head - depth) = 0
      BY <2>4 DEF PaidUpTo
    <3> QED
      BY <2>1, <3>1, <3>2, MineNonce DEF Mine
  <2> QED
    BY <2>2, <2>3, <2>4, <1>0
<1>2. ASSUME ~MineAny
      PROVE  /\ head' = head /\ paidAt' = paidAt
             /\ \A n \in Nonces : expiry[n] # 0 => expiry'[n] = expiry[n]
  BY <1>2 DEF ChainNext, chainVars, Stamp, Submit, Cancel, LoseUnsaved, ChainInv, ChainTypeOK
<1> QED
  BY <1>0, <1>1, <1>2

-----------------------------------------------------------------------------
(* The workers *)

\* A worker between two steps is handling one of the intents it took.
WorkerInv ==
  \A p \in Procs :
    /\ sender[p].at \in {"mark", "row"} => sender[p].nonce \in sender[p].jobs
    /\ resolver[p].at \in {"ask", "cancel", "recheck", "expire", "confirm"}
         => resolver[p].nonce \in resolver[p].todo

EngineTypeOK ==
  /\ intent \in [Nonces -> IntentStates]
  /\ block \in [Nonces -> Heights]
  /\ posted \in [Nonces -> SUBSET Transfers]
  /\ outbox \in [Nonces -> OutboxStates]
  /\ sender \in [Procs -> Senders]
  /\ resolver \in [Procs -> Resolvers]
  /\ crashes \in 0..MaxCrashes

\* The engine touches the chain only through its calls.
LEMMA NextIsChainStep ==
  ASSUME EngineTypeOK, WorkerInv, Next
  PROVE  ChainNext \/ UNCHANGED chainVars
<1>1. ASSUME NEW p \in Procs, NEW inForce \in BOOLEAN, CancelNonce(p, inForce)
      PROVE  ChainNext
  <2>1. resolver[p].nonce \in Nonces
    BY <1>1 DEF EngineTypeOK, WorkerInv, CancelNonce, Resolvers
  <2> QED
    BY <1>1, <2>1 DEF CancelNonce, ChainNext
<1>2. ASSUME NEW p \in Procs, NEW n \in Nonces, NEW acked \in BOOLEAN, SubmitJob(p, n, acked)
      PROVE  ChainNext
  BY <1>2 DEF SubmitJob, ChainNext
<1>3. ASSUME MineStep
      PROVE  ChainNext
  BY <1>3 DEF MineStep, MineBlock, MineAny, ChainNext
<1>4. ASSUME NEW n \in Nonces, ReadHeadForRequest(n)
      PROVE  ChainNext
  BY <1>4 DEF ReadHeadForRequest, ChainNext
<1>5. ASSUME NEW p \in Procs, Crash(p)
      PROVE  ChainNext
  BY <1>5 DEF Crash, ChainNext
<1>6. ASSUME NEW p \in Procs, OutboxStep(p)
      PROVE  ChainNext \/ UNCHANGED chainVars
  BY <1>2, <1>6 DEF OutboxStep, LeaseOutbox, MarkSubmitted, SettleRow
<1>7. ASSUME NEW p \in Procs, ResolverStep(p)
      PROVE  ChainNext \/ UNCHANGED chainVars
  BY <1>1, <1>7 DEF ResolverStep, ListInFlight, ReadHead, CheckStatus, AskExpired,
                    RecheckExpired, Expire, Confirm
<1>8. ASSUME NEW n \in Nonces, RequestWithdraw(n)
      PROVE  UNCHANGED chainVars
  BY <1>8 DEF RequestWithdraw
<1>9. ASSUME NEW p \in Procs, AbortOutboxTick(p) \/ AbortResolverTick(p)
      PROVE  UNCHANGED chainVars
  BY <1>9 DEF AbortOutboxTick, AbortResolverTick
<1> QED
  BY <1>3, <1>4, <1>5, <1>6, <1>7, <1>8, <1>9 DEF Next

\* Ending one intent of a pass leaves a well-formed resolver.
LEMMA NextIntentType ==
  ASSUME NEW r \in Resolvers
  PROVE  /\ NextIntent(r) \in Resolvers
         /\ NextIntent(r).at \in {"idle", "scan"}
         /\ NextIntent(r).at = "scan" => NextIntent(r).head = r.head
         /\ NextIntent(r).todo \subseteq r.todo
<1> DEFINE rest == r.todo \ {r.nonce}
<1>1. rest \in SUBSET Nonces /\ r.head \in Heights /\ 0 \in Heights
  BY DEF Resolvers, Heights
<1>2. IdleResolver = [at |-> "idle", todo |-> {}, nonce |-> None, head |-> 0, height |-> 0]
  BY DEF IdleResolver, Between
<1>3. CASE rest = {}
  <2>1. NextIntent(r) = IdleResolver
    BY <1>3 DEF NextIntent
  <2> QED
    BY <1>1, <1>2, <2>1 DEF Resolvers
<1>4. CASE rest # {}
  <2>1. NextIntent(r) = [at |-> "scan", todo |-> rest, nonce |-> None,
                         head |-> r.head, height |-> 0]
    BY <1>4 DEF NextIntent, Between
  <2> QED
    BY <1>1, <2>1 DEF Resolvers
<1> QED
  BY <1>3, <1>4

\* Every step of the engine keeps its tables and its workers well formed.
LEMMA EngineTypeStep ==
  ASSUME ChainInv, EngineTypeOK, WorkerInv, Next
  PROVE  EngineTypeOK' /\ WorkerInv'
<1> USE DEF EngineTypeOK, WorkerInv
<1>0. head \in Heights /\ \A n \in Nonces : paidAt[n] \in Heights
  BY DEF ChainInv, ChainTypeOK
<1>1. ASSUME NEW n \in Nonces, ReadHeadForRequest(n) \/ RequestWithdraw(n)
      PROVE  EngineTypeOK' /\ WorkerInv'
  BY <1>1 DEF ReadHeadForRequest, RequestWithdraw, dbVars, IntentStates, Transfers, OutboxStates
<1>2. ASSUME NEW p \in Procs, OutboxStep(p)
      PROVE  EngineTypeOK' /\ WorkerInv'
  <2>1. ASSUME NEW due \in SUBSET Leasable, LeaseOutbox(p, due)
        PROVE  EngineTypeOK' /\ WorkerInv'
    BY <2>1 DEF LeaseOutbox, Senders, OutboxStates, Leasable
  <2>2. ASSUME NEW n \in Nonces, NEW acked \in BOOLEAN, SubmitJob(p, n, acked)
        PROVE  EngineTypeOK' /\ WorkerInv'
    BY <2>2 DEF SubmitJob, Senders, dbVars
  <2>3. ASSUME MarkSubmitted(p)
        PROVE  EngineTypeOK' /\ WorkerInv'
    BY <2>3 DEF MarkSubmitted, Senders, IntentStates
  <2>4. ASSUME SettleRow(p)
        PROVE  EngineTypeOK' /\ WorkerInv'
    BY <2>4 DEF SettleRow, Senders, IdleSender, OutboxStates
  <2> QED
    BY <1>2, <2>1, <2>2, <2>3, <2>4 DEF OutboxStep
<1>3. ASSUME NEW p \in Procs, ResolverStep(p)
      PROVE  EngineTypeOK' /\ WorkerInv'
  <2> USE DEF Resolve, dbVars
  <2>0. resolver[p] \in Resolvers /\ NextIntent(resolver[p]) \in Resolvers
        /\ NextIntent(resolver[p]).at \in {"idle", "scan"}
    BY <1>3, NextIntentType
  <2>1. ASSUME ListInFlight(p)
        PROVE  EngineTypeOK' /\ WorkerInv'
    <3> DEFINE r == Between("head", InFlight, 0)
    <3>1. r \in Resolvers /\ r.at = "head"
      BY DEF Between, Resolvers, InFlight, Heights
    <3>2. UNCHANGED <<intent, block, posted, outbox, sender, crashes>>
      BY <2>1 DEF ListInFlight
    <3>3. resolver' = [resolver EXCEPT ![p] = r]
      BY <2>1 DEF ListInFlight
    <3> HIDE DEF r
    <3> QED
      BY <3>1, <3>2, <3>3
  <2>2. ASSUME ReadHead(p)
        PROVE  EngineTypeOK' /\ WorkerInv'
    BY <2>2, <1>0 DEF ReadHead, Resolvers
  <2>3. ASSUME NEW n \in Nonces, CheckStatus(p, n)
        PROVE  EngineTypeOK' /\ WorkerInv'
    <3> DEFINE r == [resolver[p] EXCEPT !.nonce = n]
    <3>1. r \in Resolvers /\ r.todo = resolver[p].todo /\ r.nonce = n
      BY <2>0 DEF Resolvers
    <3>2. NextIntent(r) \in Resolvers /\ NextIntent(r).at \in {"idle", "scan"}
      BY <3>1, NextIntentType
    <3>3. n \in resolver[p].todo
      BY <2>3 DEF CheckStatus
    <3>4. \/ resolver' = [resolver EXCEPT ![p] = [r EXCEPT !.at = "confirm", !.height = paidAt[n]]]
          \/ resolver' = [resolver EXCEPT ![p] = NextIntent(r)]
          \/ resolver' = [resolver EXCEPT ![p] = [r EXCEPT !.at = "ask"]]
      BY <2>3 DEF CheckStatus
    <3>5. UNCHANGED <<intent, block, posted, outbox, sender, crashes>>
      BY <2>3 DEF CheckStatus
    <3>6. CASE resolver' = [resolver EXCEPT ![p] = [r EXCEPT !.at = "confirm", !.height = paidAt[n]]]
      BY <1>0, <3>1, <3>3, <3>5, <3>6 DEF Resolvers
    <3>7. CASE resolver' = [resolver EXCEPT ![p] = NextIntent(r)]
      BY <3>2, <3>5, <3>7
    <3>8. CASE resolver' = [resolver EXCEPT ![p] = [r EXCEPT !.at = "ask"]]
      BY <3>1, <3>3, <3>5, <3>8 DEF Resolvers
    <3> QED
      BY <3>4, <3>6, <3>7, <3>8
  <2>4. ASSUME AskExpired(p)
        PROVE  EngineTypeOK' /\ WorkerInv'
    BY <2>4 DEF AskExpired, Resolvers
  <2>5. ASSUME NEW inForce \in BOOLEAN, CancelNonce(p, inForce)
        PROVE  EngineTypeOK' /\ WorkerInv'
    BY <2>0, <2>5 DEF CancelNonce, Resolvers
  <2>6. ASSUME RecheckExpired(p)
        PROVE  EngineTypeOK' /\ WorkerInv'
    BY <2>0, <2>6 DEF RecheckExpired, Resolvers
  <2>7. ASSUME Expire(p)
        PROVE  EngineTypeOK' /\ WorkerInv'
    BY <2>0, <2>7 DEF Expire, IntentStates, Transfers
  <2>8. ASSUME Confirm(p)
        PROVE  EngineTypeOK' /\ WorkerInv'
    <3>1. resolver[p].height \in Heights
      BY <2>0 DEF Resolvers
    <3> QED
      BY <2>0, <2>8, <3>1 DEF Confirm, IntentStates, Transfers
  <2> QED
    BY <1>3, <2>1, <2>2, <2>3, <2>4, <2>5, <2>6, <2>7, <2>8 DEF ResolverStep
<1>4. ASSUME MineStep
      PROVE  EngineTypeOK' /\ WorkerInv'
  BY <1>4 DEF MineStep, MineBlock, dbVars
<1>5. ASSUME NEW p \in Procs, Crash(p) \/ AbortOutboxTick(p) \/ AbortResolverTick(p)
      PROVE  EngineTypeOK' /\ WorkerInv'
  <2>0. /\ IdleSender \in Senders /\ IdleSender.at = "idle"
        /\ IdleResolver \in Resolvers /\ IdleResolver.at = "idle"
    BY DEF IdleSender, IdleResolver, Between, Senders, Resolvers, Heights
  <2>1. CASE Crash(p)
    BY <2>0, <2>1 DEF Crash, dbVars
  <2>2. CASE AbortOutboxTick(p)
    BY <2>0, <2>2 DEF AbortOutboxTick, dbVars
  <2>3. CASE AbortResolverTick(p)
    BY <2>0, <2>3 DEF AbortResolverTick, dbVars, Resolve
  <2> QED
    BY <1>5, <2>1, <2>2, <2>3
<1> QED
  BY <1>1, <1>2, <1>3, <1>4, <1>5 DEF Next

\* How a resolver's view of its pass can change in one step.
LEMMA ResolverMoves ==
  ASSUME ChainInv, EngineTypeOK, WorkerInv, Next, NEW q \in Procs
  PROVE  \/ resolver'[q] = resolver[q]
         \/ resolver'[q].at \in {"idle", "head"}
         \/ /\ resolver'[q].at = "scan"
            /\ \/ resolver'[q].head = head /\ head' = head
               \/ /\ resolver'[q].head = resolver[q].head
                  /\ resolver[q].at \notin {"idle", "head"}
         \/ /\ resolver'[q].at = "confirm"
            /\ Finalized(resolver'[q].nonce)
            /\ resolver'[q].height = paidAt[resolver'[q].nonce]
            /\ resolver'[q].nonce \in Nonces
            /\ resolver'[q].head = resolver[q].head /\ resolver[q].at = "scan"
            /\ UNCHANGED chainVars
         \/ /\ resolver'[q].at = "ask"
            /\ ~Processed(resolver'[q].nonce)
            /\ resolver[q].head > expiry[resolver'[q].nonce]
            /\ resolver'[q].nonce \in resolver[q].todo
            /\ resolver'[q].head = resolver[q].head /\ resolver[q].at = "scan"
            /\ UNCHANGED chainVars
         \/ /\ resolver'[q].at \in {"cancel", "recheck", "expire"}
            /\ resolver[q].at \in {"ask", "cancel", "recheck"}
            /\ resolver'[q].nonce = resolver[q].nonce
            /\ resolver'[q].head = resolver[q].head
<1> DEFINE Goal ==
      \/ resolver'[q] = resolver[q]
      \/ resolver'[q].at \in {"idle", "head"}
      \/ /\ resolver'[q].at = "scan"
         /\ \/ resolver'[q].head = head /\ head' = head
            \/ /\ resolver'[q].head = resolver[q].head
               /\ resolver[q].at \notin {"idle", "head"}
      \/ /\ resolver'[q].at = "confirm"
         /\ Finalized(resolver'[q].nonce)
         /\ resolver'[q].height = paidAt[resolver'[q].nonce]
         /\ resolver'[q].nonce \in Nonces
         /\ resolver'[q].head = resolver[q].head /\ resolver[q].at = "scan"
         /\ UNCHANGED chainVars
      \/ /\ resolver'[q].at = "ask"
         /\ ~Processed(resolver'[q].nonce)
         /\ resolver[q].head > expiry[resolver'[q].nonce]
         /\ resolver'[q].nonce \in resolver[q].todo
         /\ resolver'[q].head = resolver[q].head /\ resolver[q].at = "scan"
         /\ UNCHANGED chainVars
      \/ /\ resolver'[q].at \in {"cancel", "recheck", "expire"}
         /\ resolver[q].at \in {"ask", "cancel", "recheck"}
         /\ resolver'[q].nonce = resolver[q].nonce
         /\ resolver'[q].head = resolver[q].head
<1> USE DEF Resolve
<1>0. /\ resolver \in [Procs -> Resolvers]
      /\ IdleResolver.at = "idle"
      /\ \A r \in Resolvers : /\ NextIntent(r).at \in {"idle", "scan"}
                              /\ NextIntent(r).at = "scan" => NextIntent(r).head = r.head
  BY NextIntentType DEF EngineTypeOK, IdleResolver, Between
<1>1. ASSUME NEW n \in Nonces, ReadHeadForRequest(n) \/ RequestWithdraw(n)
      PROVE  Goal
  BY <1>1 DEF ReadHeadForRequest, RequestWithdraw
<1>2. ASSUME NEW p \in Procs, OutboxStep(p)
      PROVE  Goal
  BY <1>2 DEF OutboxStep, LeaseOutbox, SubmitJob, MarkSubmitted, SettleRow
<1>3. ASSUME MineStep
      PROVE  Goal
  BY <1>3 DEF MineStep, MineBlock
<1>4. ASSUME NEW p \in Procs, Crash(p) \/ AbortOutboxTick(p) \/ AbortResolverTick(p)
      PROVE  Goal
  BY <1>0, <1>4 DEF Crash, AbortOutboxTick, AbortResolverTick
<1>5. ASSUME NEW p \in Procs, ResolverStep(p)
      PROVE  Goal
  <2>1. resolver[p] \in Resolvers
    BY <1>0
  <2>2. CASE p # q
    <3>1. \E r : resolver' = [resolver EXCEPT ![p] = r]
      BY <1>5 DEF ResolverStep, ListInFlight, ReadHead, CheckStatus, AskExpired, CancelNonce,
                  RecheckExpired, Expire, Confirm
    <3> QED
      BY <2>2, <3>1, <1>0
  <2>3. CASE p = q
    <3>1. ASSUME ListInFlight(p)
          PROVE  Goal
      <4>1. resolver'[q] = Between("head", InFlight, 0)
        BY <1>0, <2>3, <3>1 DEF ListInFlight
      <4> QED
        BY <4>1 DEF Between
    <3>2. ASSUME ReadHead(p)
          PROVE  Goal
      BY <1>0, <2>1, <2>3, <3>2 DEF ReadHead, chainVars, Resolvers
    <3>3. ASSUME NEW n \in Nonces, CheckStatus(p, n)
          PROVE  Goal
      <4> DEFINE r == [resolver[p] EXCEPT !.nonce = n]
      <4>1. /\ r \in Resolvers /\ r.nonce = n /\ r.head = resolver[p].head
            /\ NextIntent(r).at \in {"idle", "scan"}
            /\ NextIntent(r).at = "scan" => NextIntent(r).head = resolver[p].head
        BY <1>0, <2>1 DEF Resolvers
      <4>2. /\ resolver[p].at = "scan" /\ n \in resolver[p].todo
            /\ UNCHANGED chainVars
        BY <3>3 DEF CheckStatus
      <4>3. CASE /\ Finalized(n)
                 /\ resolver' = [resolver EXCEPT ![p] =
                                   [r EXCEPT !.at = "confirm", !.height = paidAt[n]]]
        BY <1>0, <2>1, <2>3, <4>1, <4>2, <4>3 DEF Resolvers
      <4>4. CASE resolver' = [resolver EXCEPT ![p] = NextIntent(r)]
        BY <1>0, <2>3, <4>1, <4>2, <4>4
      <4>5. CASE /\ ~Processed(n) /\ PastExpiry(p, n)
                 /\ resolver' = [resolver EXCEPT ![p] = [r EXCEPT !.at = "ask"]]
        BY <1>0, <2>1, <2>3, <4>1, <4>2, <4>5 DEF Resolvers, PastExpiry
      <4> QED
        BY <3>3, <4>3, <4>4, <4>5 DEF CheckStatus
    <3>4. ASSUME AskExpired(p)
          PROVE  Goal
      BY <1>0, <2>1, <2>3, <3>4 DEF AskExpired, Resolvers
    <3>5. ASSUME NEW inForce \in BOOLEAN, CancelNonce(p, inForce)
          PROVE  Goal
      BY <1>0, <2>1, <2>3, <3>5 DEF CancelNonce, Resolvers
    <3>6. ASSUME RecheckExpired(p)
          PROVE  Goal
      BY <1>0, <2>1, <2>3, <3>6 DEF RecheckExpired, Resolvers
    <3>7. ASSUME Expire(p) \/ Confirm(p)
          PROVE  Goal
      BY <1>0, <2>1, <2>3, <3>7 DEF Expire, Confirm
    <3> QED
      BY <1>5, <3>1, <3>2, <3>3, <3>4, <3>5, <3>6, <3>7 DEF ResolverStep
  <2> QED
    BY <2>2, <2>3
<1> QED
  BY <1>1, <1>2, <1>3, <1>4, <1>5 DEF Next

\* How an intent's row and its transfers can change in one step.
LEMMA IntentMoves ==
  ASSUME EngineTypeOK, WorkerInv, Next, NEW n \in Nonces
  PROVE  \/ UNCHANGED <<intent[n], posted[n], block[n]>>
         \/ /\ intent[n] = "none" /\ intent'[n] = "reserved"
            /\ posted'[n] = {"reserve"} /\ expiry[n] # 0
            /\ UNCHANGED chainVars
         \/ /\ intent[n] = "reserved" /\ intent'[n] = "submitted"
            /\ posted'[n] = posted[n]
         \/ /\ n \in InFlight /\ intent'[n] = "expired"
            /\ posted'[n] = posted[n] \union {"refund"}
            /\ UNCHANGED chainVars
            /\ \E p \in Procs : /\ resolver[p].at = "expire" /\ resolver[p].nonce = n
                                /\ resolver[p].head > expiry[n]
         \/ /\ n \in InFlight /\ intent'[n] = "confirmed"
            /\ posted'[n] = posted[n] \union {"final"}
            /\ UNCHANGED chainVars
            /\ \E p \in Procs : /\ resolver[p].at = "confirm" /\ resolver[p].nonce = n
                                /\ block'[n] = resolver[p].height
<1> USE DEF EngineTypeOK, dbVars
<1>1. ASSUME NEW m \in Nonces, RequestWithdraw(m)
      PROVE  \/ UNCHANGED <<intent[n], posted[n], block[n]>>
             \/ /\ intent[n] = "none" /\ intent'[n] = "reserved"
                /\ posted'[n] = {"reserve"} /\ expiry[n] # 0
                /\ UNCHANGED chainVars
  BY <1>1 DEF RequestWithdraw
<1>2. ASSUME NEW p \in Procs, MarkSubmitted(p)
      PROVE  \/ UNCHANGED <<intent[n], posted[n], block[n]>>
             \/ /\ intent[n] = "reserved" /\ intent'[n] = "submitted"
                /\ posted'[n] = posted[n]
  BY <1>2 DEF MarkSubmitted
<1>3. ASSUME NEW p \in Procs, Expire(p)
      PROVE  \/ UNCHANGED <<intent[n], posted[n], block[n]>>
             \/ /\ n \in InFlight /\ intent'[n] = "expired"
                /\ posted'[n] = posted[n] \union {"refund"}
                /\ UNCHANGED chainVars
                /\ resolver[p].at = "expire" /\ resolver[p].nonce = n
                /\ resolver[p].head > expiry[n]
  BY <1>3 DEF Expire, PastExpiry
<1>4. ASSUME NEW p \in Procs, Confirm(p)
      PROVE  \/ UNCHANGED <<intent[n], posted[n], block[n]>>
             \/ /\ n \in InFlight /\ intent'[n] = "confirmed"
                /\ posted'[n] = posted[n] \union {"final"}
                /\ UNCHANGED chainVars
                /\ resolver[p].at = "confirm" /\ resolver[p].nonce = n
                /\ block'[n] = resolver[p].height
  BY <1>4 DEF Confirm
<1>5. ASSUME NEW p \in Procs, OutboxStep(p), ~MarkSubmitted(p)
      PROVE  UNCHANGED <<intent, posted, block>>
  BY <1>5 DEF OutboxStep, LeaseOutbox, SubmitJob, SettleRow
<1>6. ASSUME NEW p \in Procs, ResolverStep(p), ~Expire(p), ~Confirm(p)
      PROVE  UNCHANGED <<intent, posted, block>>
  BY <1>6 DEF ResolverStep, ListInFlight, ReadHead, CheckStatus, AskExpired, CancelNonce,
              RecheckExpired
<1>7. ASSUME NEW m \in Nonces, ReadHeadForRequest(m)
      PROVE  UNCHANGED <<intent, posted, block>>
  BY <1>7 DEF ReadHeadForRequest
<1>8. ASSUME MineStep
      PROVE  UNCHANGED <<intent, posted, block>>
  BY <1>8 DEF MineStep, MineBlock
<1>9. ASSUME NEW p \in Procs, Crash(p) \/ AbortOutboxTick(p) \/ AbortResolverTick(p)
      PROVE  UNCHANGED <<intent, posted, block>>
  BY <1>9 DEF Crash, AbortOutboxTick, AbortResolverTick
<1> QED
  BY <1>1, <1>2, <1>3, <1>4, <1>5, <1>6, <1>7, <1>8, <1>9 DEF Next

\* Which intents the workers, the outbox and the chain can know of after a step.
LEMMA KnowledgeMoves ==
  ASSUME ChainInv, EngineTypeOK, WorkerInv, Next, NEW q \in Procs, NEW n \in Nonces
  PROVE  /\ n \in resolver'[q].todo => n \in resolver[q].todo \/ n \in InFlight
         /\ n \in sender'[q].jobs => n \in sender[q].jobs \/ outbox[n] # "none"
         /\ outbox'[n] # "none" => outbox[n] # "none" \/ intent'[n] # "none"
         /\ <<n, "withdraw">> \in mempool' =>
              <<n, "withdraw">> \in mempool \/ \E p \in Procs : n \in sender[p].jobs
         /\ paidAt'[n] # 0 => paidAt[n] # 0 \/ <<n, "withdraw">> \in mempool
<1> USE DEF Resolve, dbVars, chainVars
<1>0. /\ resolver \in [Procs -> Resolvers] /\ sender \in [Procs -> Senders]
      /\ intent \in [Nonces -> IntentStates] /\ outbox \in [Nonces -> OutboxStates]
      /\ \A r \in Resolvers : NextIntent(r).todo \subseteq r.todo
      /\ IdleResolver.todo = {} /\ IdleSender.jobs = {}
  BY NextIntentType DEF EngineTypeOK, IdleResolver, Between, IdleSender
<1>1. ASSUME NEW m \in Nonces, ReadHeadForRequest(m) \/ RequestWithdraw(m)
      PROVE  /\ UNCHANGED <<resolver, sender, mempool, paidAt>>
             /\ outbox'[n] # "none" => outbox[n] # "none" \/ intent'[n] # "none"
  BY <1>0, <1>1 DEF ReadHeadForRequest, RequestWithdraw, Stamp
<1>2. ASSUME NEW p \in Procs, OutboxStep(p)
      PROVE  /\ UNCHANGED <<resolver, paidAt>>
             /\ n \in sender'[q].jobs => n \in sender[q].jobs \/ outbox[n] # "none"
             /\ outbox'[n] # "none" => outbox[n] # "none"
             /\ <<n, "withdraw">> \in mempool' =>
                  <<n, "withdraw">> \in mempool \/ n \in sender[p].jobs
  <2>1. ASSUME NEW due \in SUBSET Leasable, LeaseOutbox(p, due)
        PROVE  /\ UNCHANGED <<resolver, paidAt, mempool>>
               /\ n \in sender'[q].jobs => n \in sender[q].jobs \/ outbox[n] # "none"
               /\ outbox'[n] # "none" => outbox[n] # "none"
    <3>1. due \subseteq Leasable /\ UNCHANGED <<resolver, paidAt, mempool>>
          /\ outbox' = [m \in Nonces |-> IF m \in due THEN "sending" ELSE outbox[m]]
          /\ sender' = [sender EXCEPT ![p] = [@ EXCEPT !.at = "submit", !.jobs = due]]
      BY <2>1 DEF LeaseOutbox
    <3>2. \A m \in due : outbox[m] # "none"
      BY <3>1 DEF Leasable
    <3>3. sender'[q].jobs = due \/ sender'[q].jobs = sender[q].jobs
      BY <1>0, <3>1 DEF Senders
    <3> QED
      BY <3>1, <3>2, <3>3
  <2>2. ASSUME NEW m \in Nonces, NEW acked \in BOOLEAN, SubmitJob(p, m, acked)
        PROVE  /\ UNCHANGED <<resolver, paidAt, outbox>>
               /\ n \in sender'[q].jobs => n \in sender[q].jobs
               /\ <<n, "withdraw">> \in mempool' =>
                    <<n, "withdraw">> \in mempool \/ n \in sender[p].jobs
    <3>1. sender'[q].jobs = sender[q].jobs
      BY <1>0, <2>2 DEF SubmitJob, Senders
    <3> QED
      BY <2>2, <3>1 DEF SubmitJob, Submit
  <2>3. ASSUME MarkSubmitted(p)
        PROVE  /\ UNCHANGED <<resolver, paidAt, outbox, mempool>>
               /\ n \in sender'[q].jobs => n \in sender[q].jobs
    BY <1>0, <2>3 DEF MarkSubmitted, Senders
  <2>4. ASSUME SettleRow(p)
        PROVE  /\ UNCHANGED <<resolver, paidAt, mempool>>
               /\ n \in sender'[q].jobs => n \in sender[q].jobs
               /\ outbox'[n] # "none" => outbox[n] # "none"
    BY <1>0, <2>4 DEF SettleRow, Senders, IdleSender
  <2> QED
    BY <1>2, <2>1, <2>2, <2>3, <2>4 DEF OutboxStep
<1>3. ASSUME NEW p \in Procs, ResolverStep(p)
      PROVE  /\ n \in resolver'[q].todo => n \in resolver[q].todo \/ n \in InFlight
             /\ UNCHANGED <<sender, outbox, paidAt>>
             /\ <<n, "withdraw">> \in mempool' => <<n, "withdraw">> \in mempool
  <2>1. UNCHANGED <<sender, outbox>>
    BY <1>3 DEF ResolverStep, ListInFlight, ReadHead, CheckStatus, AskExpired, CancelNonce,
                RecheckExpired, Expire, Confirm
  <2>2. UNCHANGED paidAt /\ (<<n, "withdraw">> \in mempool' => <<n, "withdraw">> \in mempool)
    <3>1. ASSUME NEW m \in Nonces, NEW inForce \in BOOLEAN, Cancel(m, inForce)
          PROVE  UNCHANGED paidAt /\ (<<n, "withdraw">> \in mempool' => <<n, "withdraw">> \in mempool)
      BY <3>1 DEF Cancel
    <3>2. ASSUME NEW inForce \in BOOLEAN, CancelNonce(p, inForce)
          PROVE  UNCHANGED paidAt /\ (<<n, "withdraw">> \in mempool' => <<n, "withdraw">> \in mempool)
      <4>1. resolver[p].nonce \in Nonces
        BY <3>2 DEF CancelNonce, EngineTypeOK, WorkerInv, Resolvers
      <4> QED
        BY <3>1, <3>2, <4>1 DEF CancelNonce
    <3> QED
      BY <1>3, <3>2 DEF ResolverStep, ListInFlight, ReadHead, CheckStatus, AskExpired,
                        RecheckExpired, Expire, Confirm
  <2>3. resolver[p] \in Resolvers /\ NextIntent(resolver[p]).todo \subseteq resolver[p].todo
    BY <1>0
  <2>4. CASE ListInFlight(p)
    <3>1. resolver' = [resolver EXCEPT ![p] = Between("head", InFlight, 0)]
      BY <2>4 DEF ListInFlight
    <3>2. Between("head", InFlight, 0).todo = InFlight
      BY DEF Between
    <3> QED
      BY <1>0, <2>1, <2>2, <3>1, <3>2
  <2>5. CASE \E m \in Nonces : CheckStatus(p, m)
    <3>1. PICK m \in Nonces : CheckStatus(p, m)
      BY <2>5
    <3> DEFINE r == [resolver[p] EXCEPT !.nonce = m]
    <3>2. r \in Resolvers /\ r.todo = resolver[p].todo /\ NextIntent(r).todo \subseteq resolver[p].todo
      BY <1>0, <2>3 DEF Resolvers
    <3>3. \/ resolver' = [resolver EXCEPT ![p] = [r EXCEPT !.at = "confirm", !.height = paidAt[m]]]
          \/ resolver' = [resolver EXCEPT ![p] = NextIntent(r)]
          \/ resolver' = [resolver EXCEPT ![p] = [r EXCEPT !.at = "ask"]]
      BY <3>1 DEF CheckStatus
    <3>4. /\ [r EXCEPT !.at = "confirm", !.height = paidAt[m]].todo = resolver[p].todo
          /\ [r EXCEPT !.at = "ask"].todo = resolver[p].todo
      BY <2>3, <3>2 DEF Resolvers
    <3>5. ASSUME NEW s, s.todo \subseteq resolver[p].todo, resolver' = [resolver EXCEPT ![p] = s]
          PROVE  n \in resolver'[q].todo => n \in resolver[q].todo
      BY <1>0, <3>5
    <3> HIDE DEF r
    <3> QED
      BY <2>1, <2>2, <3>2, <3>3, <3>4, <3>5
  <2>6. CASE ReadHead(p)
    BY <1>0, <2>1, <2>2, <2>3, <2>6 DEF ReadHead, Resolvers
  <2>7. CASE AskExpired(p)
    BY <1>0, <2>1, <2>2, <2>3, <2>7 DEF AskExpired, Resolvers
  <2>8. CASE \E inForce \in BOOLEAN : CancelNonce(p, inForce)
    BY <1>0, <2>1, <2>2, <2>3, <2>8 DEF CancelNonce, Resolvers
  <2>9. CASE RecheckExpired(p)
    BY <1>0, <2>1, <2>2, <2>3, <2>9 DEF RecheckExpired, Resolvers
  <2>10. CASE Expire(p) \/ Confirm(p)
    BY <1>0, <2>1, <2>2, <2>3, <2>10 DEF Expire, Confirm
  <2> QED
    BY <1>3, <2>4, <2>5, <2>6, <2>7, <2>8, <2>9, <2>10 DEF ResolverStep
<1>4. ASSUME MineStep
      PROVE  /\ UNCHANGED <<resolver, sender, outbox>>
             /\ <<n, "withdraw">> \notin mempool'
             /\ paidAt'[n] # 0 => paidAt[n] # 0 \/ <<n, "withdraw">> \in mempool
  <2>1. PICK depth \in 0..(head - finalHeight), short \in SUBSET Nonces : MineBlock(depth, short)
    BY <1>4 DEF MineStep
  <2>2. Mine(depth, short) /\ UNCHANGED <<resolver, sender, outbox>>
    BY <2>1 DEF MineBlock
  <2>3. paidAt'[n] = IF Executes(n, head - depth, short) THEN head - depth + 1
                     ELSE PaidUpTo(n, head - depth)
    BY <2>2, MineNonce
  <2>4. paidAt[n] \in Nat /\ head - depth \in Nat
    BY <2>2, MineHeights DEF ChainInv, ChainTypeOK, Heights
  <2>5. Executes(n, head - depth, short) => <<n, "withdraw">> \in mempool \/ paidAt[n] > head - depth
    BY DEF Executes, Pool, Orphaned
  <2> QED
    BY <2>2, <2>3, <2>4, <2>5 DEF Mine, PaidUpTo
<1>5. ASSUME NEW p \in Procs, Crash(p) \/ AbortOutboxTick(p) \/ AbortResolverTick(p)
      PROVE  /\ UNCHANGED <<paidAt, outbox>> /\ mempool' \subseteq mempool
             /\ resolver'[q].todo \subseteq resolver[q].todo
             /\ sender'[q].jobs \subseteq sender[q].jobs
  BY <1>0, <1>5 DEF Crash, AbortOutboxTick, AbortResolverTick, LoseUnsaved
<1> QED
  BY <1>1, <1>2, <1>3, <1>4, <1>5 DEF Next

-----------------------------------------------------------------------------
(* The invariants *)

BaseInv == ChainInv /\ EngineTypeOK /\ WorkerInv

\* Types, the chain's invariant and well-formed workers, together inductive.
LEMMA BaseInvariant == Spec => []BaseInv
<1>1. Init => BaseInv
  <2>1. ASSUME Init
        PROVE  ChainInv
    BY <2>1, ChainInitInv DEF Init
  <2>2. ASSUME Init
        PROVE  EngineTypeOK /\ WorkerInv
    <3>1. IdleSender \in Senders /\ IdleSender.at = "idle"
      BY DEF IdleSender, Senders
    <3>2. IdleResolver \in Resolvers /\ IdleResolver.at = "idle"
      BY DEF IdleResolver, Between, Resolvers, Heights
    <3> QED
      BY <2>2, <3>1, <3>2 DEF Init, EngineTypeOK, WorkerInv, IntentStates, OutboxStates, Heights
  <2> QED
    BY <2>1, <2>2 DEF BaseInv
<1>2. BaseInv /\ [Next]_vars => BaseInv'
  <2>1. ASSUME BaseInv, Next
        PROVE  BaseInv'
    BY <2>1, NextIsChainStep, ChainNextInv, EngineTypeStep DEF BaseInv
  <2>2. ASSUME BaseInv, UNCHANGED vars
        PROVE  BaseInv'
    <3>1. ChainInv'
      BY <2>2, ChainNextInv DEF BaseInv, vars
    <3>2. EngineTypeOK' /\ WorkerInv'
      BY <2>2 DEF BaseInv, vars, dbVars, EngineTypeOK, WorkerInv
    <3> QED
      BY <3>1, <3>2 DEF BaseInv
  <2> QED
    BY <2>1, <2>2
<1> QED
  BY <1>1, <1>2, PTL DEF Spec

\* Every variable keeps its type, for any number of withdrawals and processes.
THEOREM TypeCorrect == Spec => []TypeOK
<1>1. BaseInv => TypeOK
  BY DEF BaseInv, ChainInv, EngineTypeOK, TypeOK
<1> QED
  BY <1>1, BaseInvariant, PTL

\* TxStatus answers truthfully in every reachable state, through reorgs of any
\* unfinalised depth: it is the evidence the resolver acts on.
THEOREM ReceiptsAreTrue == Spec => []ReceiptsTellTheTruth
<1>1. BaseInv => ReceiptsTellTheTruth
  BY DEF BaseInv, ChainInv
<1> QED
  BY <1>1, BaseInvariant, PTL

\* No step of the engine or the chain rewrites finalised history.
THEOREM FinalityHolds == Spec => FinalityIsPermanent
<1>1. BaseInv /\ [Next]_vars
        => [/\ finalHeight' >= finalHeight
            /\ \A n \in Nonces :
                 /\ (paidAt[n] \in 1..finalHeight \/ paidAt'[n] \in 1..finalHeight)
                      => paidAt'[n] = paidAt[n]
                 /\ (cancelAt[n] \in 1..finalHeight \/ cancelAt'[n] \in 1..finalHeight)
                      => cancelAt'[n] = cancelAt[n]]_vars
  <2> SUFFICES ASSUME BaseInv, Next
               PROVE  /\ finalHeight' >= finalHeight
                      /\ \A n \in Nonces :
                           /\ (paidAt[n] \in 1..finalHeight \/ paidAt'[n] \in 1..finalHeight)
                                => paidAt'[n] = paidAt[n]
                           /\ (cancelAt[n] \in 1..finalHeight \/ cancelAt'[n] \in 1..finalHeight)
                                => cancelAt'[n] = cancelAt[n]
    OBVIOUS
  <2>1. ChainInv /\ (ChainNext \/ UNCHANGED chainVars)
    BY NextIsChainStep DEF BaseInv
  <2>2. ASSUME MineAny
        PROVE  finalHeight' >= finalHeight
    <3>1. PICK depth \in 0..(head - finalHeight), short \in SUBSET Nonces : Mine(depth, short)
      BY <2>2 DEF MineAny
    <3> QED
      BY <2>1, <3>1, MineHeights
  <2>3. ASSUME ~MineAny
        PROVE  finalHeight' >= finalHeight
    BY <2>1, <2>3 DEF ChainNext, chainVars, Stamp, Submit, Cancel, LoseUnsaved, ChainInv,
                      ChainTypeOK, Heights
  <2> QED
    BY <2>1, <2>2, <2>3, FinalStays
<1> QED
  BY <1>1, BaseInvariant, PTL DEF Spec, FinalityIsPermanent

\* A reservation is released exactly once, by the transfer its state names,
\* although resolvers of several processes may decide it at the same time.
THEOREM ReleasedOnce == Spec => []ReservationReleasedOnce
<1>1. Init => ReservationReleasedOnce
  BY DEF Init, ReservationReleasedOnce
<1>2. BaseInv /\ ReservationReleasedOnce /\ [Next]_vars => ReservationReleasedOnce'
  <2>1. ASSUME BaseInv, ReservationReleasedOnce, Next
        PROVE  ReservationReleasedOnce'
    <3> SUFFICES ASSUME NEW n \in Nonces
                 PROVE  posted'[n] =
                          CASE intent'[n] = "none"      -> {}
                            [] intent'[n] \in {"reserved", "submitted"} -> {"reserve"}
                            [] intent'[n] = "confirmed" -> {"reserve", "final"}
                            [] intent'[n] = "expired"   -> {"reserve", "refund"}
      BY DEF ReservationReleasedOnce
    <3>1. /\ intent[n] \in IntentStates
          /\ posted[n] =
               CASE intent[n] = "none"      -> {}
                 [] intent[n] \in {"reserved", "submitted"} -> {"reserve"}
                 [] intent[n] = "confirmed" -> {"reserve", "final"}
                 [] intent[n] = "expired"   -> {"reserve", "refund"}
      BY <2>1 DEF ReservationReleasedOnce, BaseInv, EngineTypeOK
    <3>2. \/ intent'[n] = intent[n] /\ posted'[n] = posted[n]
          \/ intent'[n] = "reserved" /\ posted'[n] = {"reserve"}
          \/ intent[n] = "reserved" /\ intent'[n] = "submitted" /\ posted'[n] = posted[n]
          \/ /\ intent[n] \in {"reserved", "submitted"} /\ intent'[n] = "expired"
             /\ posted'[n] = posted[n] \union {"refund"}
          \/ /\ intent[n] \in {"reserved", "submitted"} /\ intent'[n] = "confirmed"
             /\ posted'[n] = posted[n] \union {"final"}
      BY <2>1, IntentMoves DEF BaseInv, InFlight
    <3>3. CASE intent'[n] = intent[n] /\ posted'[n] = posted[n]
      BY <3>1, <3>3
    <3>4. CASE intent'[n] = "reserved" /\ posted'[n] = {"reserve"}
      BY <3>4
    <3>5. CASE intent[n] = "reserved" /\ intent'[n] = "submitted" /\ posted'[n] = posted[n]
      BY <3>1, <3>5
    <3>6. CASE /\ intent[n] \in {"reserved", "submitted"} /\ intent'[n] = "expired"
               /\ posted'[n] = posted[n] \union {"refund"}
      BY <3>1, <3>6
    <3>7. CASE /\ intent[n] \in {"reserved", "submitted"} /\ intent'[n] = "confirmed"
               /\ posted'[n] = posted[n] \union {"final"}
      BY <3>1, <3>7
    <3> QED
      BY <3>2, <3>3, <3>4, <3>5, <3>6, <3>7
  <2>2. ASSUME ReservationReleasedOnce, UNCHANGED vars
        PROVE  ReservationReleasedOnce'
    BY <2>2 DEF ReservationReleasedOnce, vars, dbVars
  <2> QED
    BY <2>1, <2>2
<1> QED
  BY <1>1, <1>2, BaseInvariant, PTL DEF Spec

\* Once confirmed or expired, an intent and its transfers never change again.
THEOREM DecisionsAreFinal == Spec => DecisionsStand
<1>1. BaseInv /\ [Next]_vars
        => [\A n \in Nonces : intent[n] \in {"confirmed", "expired"} =>
              intent'[n] = intent[n] /\ posted'[n] = posted[n]]_vars
  <2> SUFFICES ASSUME BaseInv, Next, NEW n \in Nonces, intent[n] \in {"confirmed", "expired"}
               PROVE  intent'[n] = intent[n] /\ posted'[n] = posted[n]
    OBVIOUS
  <2> QED
    BY IntentMoves DEF BaseInv, InFlight
<1> QED
  BY <1>1, BaseInvariant, PTL DEF Spec, DecisionsStand

\* A resolver about to confirm, and every confirmed intent, point at a payout
\* that is final: the strengthening that makes ConfirmedIsFinal inductive.
ConfirmInv ==
  /\ ConfirmedIsFinal
  /\ \A p \in Procs : resolver[p].at = "confirm" =>
       /\ paidAt[resolver[p].nonce] \in 1..finalHeight
       /\ resolver[p].height = paidAt[resolver[p].nonce]

\* A payout that is final stays final and where it is.
LEMMA FinalPayoutStays ==
  ASSUME ChainInv, ChainNext \/ UNCHANGED chainVars, NEW n \in Nonces,
         paidAt[n] \in 1..finalHeight
  PROVE  paidAt'[n] = paidAt[n] /\ paidAt'[n] \in 1..finalHeight'
<1>1. finalHeight \in Nat /\ finalHeight' \in Nat
  BY ChainNextInv DEF ChainInv, ChainTypeOK, Heights
<1> QED
  BY <1>1, FinalStays

\* What a resolver is about to confirm is already final, so what it has
\* confirmed is.
LEMMA ConfirmInvariant == Spec => []ConfirmInv
<1>1. Init => ConfirmInv
  BY DEF Init, ConfirmInv, ConfirmedIsFinal, IdleResolver, Between
<1>2. BaseInv /\ ConfirmInv /\ [Next]_vars => ConfirmInv'
  <2>1. ASSUME BaseInv, ConfirmInv, Next
        PROVE  ConfirmInv'
    <3>1. ChainInv /\ EngineTypeOK /\ WorkerInv /\ (ChainNext \/ UNCHANGED chainVars)
      BY <2>1, NextIsChainStep DEF BaseInv
    <3>2. ASSUME NEW n \in Nonces, intent'[n] = "confirmed"
          PROVE  paidAt'[n] \in 1..finalHeight' /\ block'[n] = paidAt'[n]
      <4>1. CASE UNCHANGED <<intent[n], posted[n], block[n]>>
        <5>1. paidAt[n] \in 1..finalHeight /\ block[n] = paidAt[n]
          BY <2>1, <3>2, <4>1 DEF ConfirmInv, ConfirmedIsFinal
        <5> QED
          BY <3>1, <4>1, <5>1, FinalPayoutStays
      <4>2. CASE /\ UNCHANGED chainVars
                 /\ \E p \in Procs : /\ resolver[p].at = "confirm" /\ resolver[p].nonce = n
                                     /\ block'[n] = resolver[p].height
        BY <2>1, <4>2 DEF ConfirmInv, chainVars
      <4> QED
        BY <2>1, <3>1, <3>2, <4>1, <4>2, IntentMoves
    <3>3. ASSUME NEW p \in Procs, resolver'[p].at = "confirm"
          PROVE  /\ paidAt'[resolver'[p].nonce] \in 1..finalHeight'
                 /\ resolver'[p].height = paidAt'[resolver'[p].nonce]
      <4>1. CASE resolver'[p] = resolver[p]
        <5>1. /\ resolver[p].nonce \in Nonces
              /\ paidAt[resolver[p].nonce] \in 1..finalHeight
              /\ resolver[p].height = paidAt[resolver[p].nonce]
          BY <2>1, <3>1, <3>3, <4>1 DEF ConfirmInv, EngineTypeOK, WorkerInv, Resolvers
        <5> QED
          BY <3>1, <4>1, <5>1, FinalPayoutStays
      <4>2. CASE /\ Finalized(resolver'[p].nonce)
                 /\ resolver'[p].height = paidAt[resolver'[p].nonce]
                 /\ resolver'[p].nonce \in Nonces
                 /\ UNCHANGED chainVars
        BY <3>1, <4>2 DEF ChainInv, ReceiptsTellTheTruth, chainVars
      <4> QED
        BY <2>1, <3>1, <3>3, <4>1, <4>2, ResolverMoves
    <3> QED
      BY <3>2, <3>3 DEF ConfirmInv, ConfirmedIsFinal
  <2>2. ASSUME ConfirmInv, UNCHANGED vars
        PROVE  ConfirmInv'
    BY <2>2 DEF ConfirmInv, ConfirmedIsFinal, vars, dbVars, chainVars
  <2> QED
    BY <2>1, <2>2
<1> QED
  BY <1>1, <1>2, BaseInvariant, PTL DEF Spec

\* Whatever the reorgs and however stale the resolver, the ledger recognises a
\* payout only when it is final, under the block that holds it.
THEOREM ConfirmedPayoutsAreFinal == Spec => []ConfirmedIsFinal
<1>1. ConfirmInv => ConfirmedIsFinal
  BY DEF ConfirmInv
<1> QED
  BY <1>1, ConfirmInvariant, PTL

-----------------------------------------------------------------------------
(* The promise, when the head never drops *)

\* Whoever knows of an intent, it has been reserved and its expiry is stamped.
KnownInv ==
  /\ \A n \in Nonces : intent[n] # "none" => expiry[n] # 0
  /\ \A n \in Nonces :
       \/ outbox[n] # "none"
       \/ <<n, "withdraw">> \in mempool
       \/ paidAt[n] # 0
       \/ \E p \in Procs : n \in sender[p].jobs \/ n \in resolver[p].todo
     => intent[n] # "none"

\* Workers and chain know only of withdrawals that were requested.
LEMMA KnownInvariant == Spec => []KnownInv
<1>1. Init => KnownInv
  BY DEF Init, ChainInit, KnownInv, IdleSender, IdleResolver, Between
<1>2. BaseInv /\ KnownInv /\ [Next]_vars => KnownInv'
  <2>1. ASSUME BaseInv, KnownInv, Next
        PROVE  KnownInv'
    <3>1. ChainInv /\ EngineTypeOK /\ WorkerInv /\ (ChainNext \/ UNCHANGED chainVars)
      BY <2>1, NextIsChainStep DEF BaseInv
    <3>2. ASSUME NEW n \in Nonces
          PROVE  /\ intent[n] # "none" => intent'[n] # "none"
                 /\ intent'[n] # "none" => expiry[n] # 0
      BY <2>1, <3>1, IntentMoves DEF KnownInv, InFlight
    <3>3. ASSUME NEW n \in Nonces, expiry[n] # 0
          PROVE  expiry'[n] # 0
      <4>1. CASE \E m \in Nonces : Stamp(m)
        BY <3>1, <3>3, <4>1 DEF Stamp, ChainInv, ChainTypeOK
      <4>2. CASE \A m \in Nonces : ~Stamp(m)
        BY <3>1, <3>3, <4>2 DEF ChainNext, chainVars, Submit, Cancel, LoseUnsaved, MineAny, Mine
      <4> QED
        BY <4>1, <4>2
    <3>4. ASSUME NEW n \in Nonces,
                 \/ outbox'[n] # "none"
                 \/ <<n, "withdraw">> \in mempool'
                 \/ paidAt'[n] # 0
                 \/ \E p \in Procs : n \in sender'[p].jobs \/ n \in resolver'[p].todo
          PROVE  intent'[n] # "none"
      <4>1. CASE \E p \in Procs : n \in sender'[p].jobs \/ n \in resolver'[p].todo
        BY <2>1, <3>1, <3>2, <4>1, KnowledgeMoves DEF KnownInv, InFlight
      <4>2. CASE outbox'[n] # "none" \/ <<n, "withdraw">> \in mempool' \/ paidAt'[n] # 0
        <5>1. PICK q \in Procs : TRUE
          BY ProcsAssumption
        <5> QED
          BY <2>1, <3>1, <3>2, <4>2, <5>1, KnowledgeMoves DEF KnownInv
      <4> QED
        BY <3>4, <4>1, <4>2
    <3> QED
      BY <3>2, <3>3, <3>4 DEF KnownInv
  <2>2. ASSUME KnownInv, UNCHANGED vars
        PROVE  KnownInv'
    BY <2>2 DEF KnownInv, vars, dbVars, chainVars
  <2> QED
    BY <2>1, <2>2
<1> QED
  BY <1>1, <1>2, BaseInvariant, PTL DEF Spec

\* The strengthening behind ReservedHasASubmitter: the row of a reservation is
\* not settled, and a worker about to settle a row has marked its intent.
SubmitterInv ==
  /\ \A n \in Nonces : intent[n] = "reserved" => outbox[n] \in {"pending", "sending"}
  /\ \A p \in Procs : sender[p].at = "row" => intent[sender[p].nonce] # "reserved"

\* The step from leased job to settled row passes through MarkSubmitted.
LEMMA SubmitterInvariant == Spec => []SubmitterInv
<1>1. Init => SubmitterInv
  BY DEF Init, SubmitterInv, IdleSender
<1>2. BaseInv /\ KnownInv /\ SubmitterInv /\ [Next]_vars => SubmitterInv'
  <2>1. ASSUME BaseInv, KnownInv, SubmitterInv, Next
        PROVE  SubmitterInv'
    <3>1. EngineTypeOK /\ WorkerInv
      BY <2>1 DEF BaseInv
    <3>2. /\ intent \in [Nonces -> IntentStates] /\ outbox \in [Nonces -> OutboxStates]
          /\ sender \in [Procs -> Senders] /\ IdleSender.at = "idle"
      BY <3>1 DEF EngineTypeOK, IdleSender
    <3>3. ASSUME NEW p \in Procs, sender[p].at \in {"mark", "row"}
          PROVE  sender[p].nonce \in Nonces /\ intent[sender[p].nonce] # "none"
      <4>1. sender[p].nonce \in sender[p].jobs /\ sender[p].jobs \subseteq Nonces
        BY <3>1, <3>2, <3>3 DEF WorkerInv, Senders
      <4> QED
        BY <2>1, <4>1 DEF KnownInv
    <3>4. ASSUME NEW n \in Nonces, intent'[n] = "reserved"
          PROVE  \/ intent[n] = "reserved"
                 \/ intent[n] = "none" /\ RequestWithdraw(n)
      <4>1. CASE \E m \in Nonces : RequestWithdraw(m)
        BY <3>2, <3>4, <4>1 DEF RequestWithdraw
      <4>2. CASE \A m \in Nonces : ~RequestWithdraw(m)
        <5>1. CASE \E p \in Procs : MarkSubmitted(p)
          BY <3>2, <3>4, <5>1 DEF MarkSubmitted
        <5>2. CASE \E p \in Procs : Expire(p) \/ Confirm(p)
          BY <3>2, <3>4, <5>2 DEF Expire, Confirm
        <5>3. CASE \A p \in Procs : ~MarkSubmitted(p) /\ ~Expire(p) /\ ~Confirm(p)
          <6>1. UNCHANGED intent
            BY <2>1, <4>2, <5>3 DEF Next, OutboxStep, ResolverStep, MineStep, MineBlock,
               ReadHeadForRequest, LeaseOutbox, SubmitJob, SettleRow, ListInFlight, ReadHead,
               CheckStatus, AskExpired, CancelNonce, RecheckExpired, Crash, AbortOutboxTick,
               AbortResolverTick, dbVars
          <6> QED
            BY <3>4, <6>1
        <5> QED
          BY <5>1, <5>2, <5>3
      <4> QED
        BY <4>1, <4>2
    <3>5. ASSUME NEW n \in Nonces, intent'[n] = "reserved"
          PROVE  outbox'[n] \in {"pending", "sending"}
      <4>1. CASE RequestWithdraw(n)
        BY <3>2, <4>1 DEF RequestWithdraw
      <4>2. CASE intent[n] = "reserved"
        <5>0. outbox[n] \in {"pending", "sending"}
          BY <2>1, <4>2 DEF SubmitterInv
        <5>1. ASSUME NEW p \in Procs, SettleRow(p)
              PROVE  outbox'[n] = outbox[n]
          <6>1. sender[p].nonce # n
            BY <2>1, <4>2, <5>1 DEF SubmitterInv, SettleRow
          <6> QED
            BY <3>2, <5>1, <6>1 DEF SettleRow
        <5>2. ASSUME NEW m \in Nonces, RequestWithdraw(m)
              PROVE  outbox'[n] = outbox[n]
          BY <3>2, <4>2, <5>2 DEF RequestWithdraw
        <5>3. ASSUME NEW p \in Procs, NEW due \in SUBSET Leasable, LeaseOutbox(p, due)
              PROVE  outbox'[n] \in {outbox[n], "sending"}
          BY <5>3 DEF LeaseOutbox
        <5>4. ASSUME NEW p \in Procs, OutboxStep(p)
              PROVE  outbox'[n] \in {outbox[n], "sending"}
          BY <5>1, <5>3, <5>4 DEF OutboxStep, SubmitJob, MarkSubmitted, dbVars
        <5>5. ASSUME NEW p \in Procs, ResolverStep(p)
              PROVE  outbox' = outbox
          BY <5>5 DEF ResolverStep, ListInFlight, ReadHead, CheckStatus, AskExpired,
             CancelNonce, RecheckExpired, Expire, Confirm, dbVars
        <5>6. CASE \E m \in Nonces : ReadHeadForRequest(m)
          BY <5>0, <5>6 DEF ReadHeadForRequest, dbVars
        <5>7. CASE MineStep
          BY <5>0, <5>7 DEF MineStep, MineBlock, dbVars
        <5>8. CASE \E p \in Procs : Crash(p) \/ AbortOutboxTick(p) \/ AbortResolverTick(p)
          BY <5>0, <5>8 DEF Crash, AbortOutboxTick, AbortResolverTick, dbVars
        <5> QED
          BY <2>1, <5>0, <5>2, <5>4, <5>5, <5>6, <5>7, <5>8 DEF Next
      <4> QED
        BY <3>4, <3>5, <4>1, <4>2
    <3>6. ASSUME NEW p \in Procs, sender'[p].at = "row"
          PROVE  intent'[sender'[p].nonce] # "reserved"
      <4>1. \/ MarkSubmitted(p)
            \/ sender'[p] = sender[p]
        <5>1. ASSUME NEW q \in Procs,
                     \/ \E due \in SUBSET Leasable : LeaseOutbox(q, due)
                     \/ \E n \in Nonces, acked \in BOOLEAN : SubmitJob(q, n, acked)
                     \/ SettleRow(q)
              PROVE  sender'[p] = sender[p]
          <6>1. CASE q # p
            BY <3>2, <5>1, <6>1 DEF LeaseOutbox, SubmitJob, SettleRow
          <6>2. ASSUME q = p, NEW due \in SUBSET Leasable, LeaseOutbox(p, due)
                PROVE  FALSE
            BY <3>2, <3>6, <6>2 DEF LeaseOutbox, Senders
          <6>3. ASSUME q = p, NEW n \in Nonces, NEW acked \in BOOLEAN, SubmitJob(p, n, acked)
                PROVE  FALSE
            BY <3>2, <3>6, <6>3 DEF SubmitJob, Senders
          <6>4. ASSUME q = p, SettleRow(p)
                PROVE  FALSE
            BY <3>2, <3>6, <6>4 DEF SettleRow, IdleSender
          <6> QED
            BY <5>1, <6>1, <6>2, <6>3, <6>4
        <5>2. ASSUME NEW q \in Procs, MarkSubmitted(q)
              PROVE  MarkSubmitted(p) \/ sender'[p] = sender[p]
          BY <3>2, <5>2 DEF MarkSubmitted
        <5>3. ASSUME NEW q \in Procs, Crash(q) \/ AbortOutboxTick(q)
              PROVE  sender'[p] = sender[p]
          BY <3>2, <3>6, <5>3 DEF Crash, AbortOutboxTick
        <5>4. CASE \A q \in Procs : ~OutboxStep(q) /\ ~Crash(q) /\ ~AbortOutboxTick(q)
          BY <2>1, <5>4 DEF Next, ResolverStep, MineStep, MineBlock, ReadHeadForRequest,
             RequestWithdraw, ListInFlight, ReadHead, CheckStatus, AskExpired, CancelNonce,
             RecheckExpired, Expire, Confirm, AbortResolverTick
        <5> QED
          BY <5>1, <5>2, <5>3, <5>4 DEF OutboxStep
      <4>2. CASE MarkSubmitted(p)
        <5>1. sender[p].at = "mark" /\ sender'[p].nonce = sender[p].nonce
          BY <3>2, <4>2 DEF MarkSubmitted, Senders
        <5> QED
          BY <3>2, <3>3, <4>2, <5>1 DEF MarkSubmitted
      <4>3. CASE sender'[p] = sender[p]
        <5>1. sender[p].nonce \in Nonces /\ intent[sender[p].nonce] \notin {"none", "reserved"}
          BY <2>1, <3>3, <3>6, <4>3 DEF SubmitterInv
        <5> QED
          BY <3>4, <4>3, <5>1
      <4> QED
        BY <4>1, <4>2, <4>3
    <3> QED
      BY <3>5, <3>6 DEF SubmitterInv
  <2>2. ASSUME SubmitterInv, UNCHANGED vars
        PROVE  SubmitterInv'
    BY <2>2 DEF SubmitterInv, vars, dbVars
  <2> QED
    BY <2>1, <2>2
<1> QED
  BY <1>1, <1>2, BaseInvariant, KnownInvariant, PTL DEF Spec

\* Whatever step a crash, an error or a concurrent worker falls between, the row
\* of an intent that was never submitted can be leased again: OutboxTick strands
\* no reservation, for any number of withdrawals and replicas.
THEOREM NoneIsStranded == Spec => []ReservedHasASubmitter
<1>1. SubmitterInv => ReservedHasASubmitter
  BY DEF SubmitterInv, ReservedHasASubmitter, Leasable
<1> QED
  BY <1>1, SubmitterInvariant, PTL

\* The strengthening behind NeverRefundedAndPaid: a refunded nonce, and one a
\* resolver has found unpaid with the head it read past the expiry, is overdue
\* and unpaid, and stays so.
OverdueInv ==
  /\ \A n \in Nonces : intent[n] = "expired" =>
       head > expiry[n] /\ paidAt[n] = 0
  /\ \A p \in Procs :
       /\ resolver[p].at \notin {"idle", "head"} => resolver[p].head <= head
       /\ resolver[p].at \in {"ask", "cancel", "recheck", "expire"} =>
            /\ resolver[p].head > expiry[resolver[p].nonce]
            /\ paidAt[resolver[p].nonce] = 0

\* A withdrawal refunded, or about to be, is overdue and unpaid at the head.
LEMMA OverdueInvariant ==
  ASSUME HeadNeverDrops
  PROVE  Spec => []OverdueInv
<1>1. Init => OverdueInv
  BY DEF Init, OverdueInv, IdleResolver, Between
<1>2. BaseInv /\ KnownInv /\ OverdueInv /\ [Next]_vars => OverdueInv'
  <2>1. ASSUME BaseInv, KnownInv, OverdueInv, Next
        PROVE  OverdueInv'
    <3>1. ChainInv /\ EngineTypeOK /\ WorkerInv /\ (ChainNext \/ UNCHANGED chainVars)
      BY <2>1, NextIsChainStep DEF BaseInv
    <3>2. /\ head \in Nat /\ head' \in Nat /\ head <= head'
          /\ \A n \in Nonces : expiry[n] \in Nat
      BY <3>1, ChainNextInv, OverdueStaysUnpaid DEF ChainInv, ChainTypeOK, Heights
    <3>3. ASSUME NEW n \in Nonces, expiry[n] # 0, head > expiry[n], paidAt[n] = 0
          PROVE  head' > expiry'[n] /\ expiry'[n] = expiry[n] /\ paidAt'[n] = 0
      BY <3>1, <3>2, <3>3, OverdueStaysUnpaid
    <3>4. ASSUME NEW p \in Procs, resolver[p].at \in {"ask", "cancel", "recheck", "expire"}
          PROVE  LET n == resolver[p].nonce
                 IN /\ n \in Nonces /\ expiry[n] # 0
                    /\ resolver[p].head \in Nat /\ resolver[p].head <= head
                    /\ resolver[p].head > expiry[n]
                    /\ head > expiry[n] /\ paidAt[n] = 0
      <4>1. /\ resolver[p].nonce \in resolver[p].todo /\ resolver[p].nonce \in Nonces
            /\ resolver[p].head \in Nat
        BY <3>1, <3>4 DEF WorkerInv, EngineTypeOK, Resolvers, Heights
      <4>2. expiry[resolver[p].nonce] # 0
        BY <2>1, <4>1 DEF KnownInv
      <4> QED
        BY <2>1, <3>2, <3>4, <4>1, <4>2 DEF OverdueInv
    <3>5. ASSUME NEW n \in Nonces, intent'[n] = "expired"
          PROVE  head' > expiry'[n] /\ paidAt'[n] = 0
      <4>1. CASE intent[n] = "expired"
        BY <2>1, <3>3, <4>1 DEF OverdueInv, KnownInv
      <4>2. CASE \E p \in Procs : resolver[p].at = "expire" /\ resolver[p].nonce = n
        BY <3>3, <3>4, <4>2
      <4> QED
        BY <3>1, <3>5, <4>1, <4>2, <2>1, IntentMoves
    <3>6. ASSUME NEW p \in Procs, resolver'[p].at \notin {"idle", "head"}
          PROVE  resolver'[p].head <= head'
      <4>1. resolver'[p].head \in Nat /\ resolver[p].head \in Nat
        BY <2>1, <3>1, EngineTypeStep DEF EngineTypeOK, Resolvers, Heights
      <4>2. \/ resolver'[p].head = head /\ head' = head
            \/ resolver'[p].head = resolver[p].head /\ resolver[p].at \notin {"idle", "head"}
        BY <2>1, <3>1, <3>6, ResolverMoves
      <4>3. resolver[p].at \notin {"idle", "head"} => resolver[p].head <= head
        BY <2>1 DEF OverdueInv
      <4> QED
        BY <3>2, <4>1, <4>2, <4>3
    <3>7. ASSUME NEW p \in Procs, resolver'[p].at \in {"ask", "cancel", "recheck", "expire"}
          PROVE  /\ resolver'[p].head > expiry'[resolver'[p].nonce]
                 /\ paidAt'[resolver'[p].nonce] = 0
      <4>1. CASE /\ resolver[p].at \in {"ask", "cancel", "recheck", "expire"}
                 /\ resolver'[p].nonce = resolver[p].nonce
                 /\ resolver'[p].head = resolver[p].head
        BY <3>3, <3>4, <4>1
      <4>2. CASE /\ resolver'[p].at = "ask"
                 /\ ~Processed(resolver'[p].nonce)
                 /\ resolver[p].head > expiry[resolver'[p].nonce]
                 /\ resolver'[p].nonce \in resolver[p].todo
                 /\ resolver'[p].head = resolver[p].head
                 /\ UNCHANGED chainVars
        <5>1. resolver'[p].nonce \in Nonces
          BY <3>1, <4>2 DEF EngineTypeOK, Resolvers
        <5> QED
          BY <3>1, <4>2, <5>1 DEF ChainInv, ReceiptsTellTheTruth, chainVars
      <4> QED
        BY <2>1, <3>1, <3>7, <4>1, <4>2, ResolverMoves
    <3> QED
      BY <3>5, <3>6, <3>7 DEF OverdueInv
  <2>2. ASSUME OverdueInv, UNCHANGED vars
        PROVE  OverdueInv'
    BY <2>2 DEF OverdueInv, vars, dbVars, chainVars
  <2> QED
    BY <2>1, <2>2
<1> QED
  BY <1>1, <1>2, BaseInvariant, KnownInvariant, PTL DEF Spec

\* No withdrawal is both refunded and paid, for any number of withdrawals and
\* processes, any submit faults and crashes, while the head never drops.
THEOREM NoDoublePay ==
  ASSUME HeadNeverDrops
  PROVE  Spec => []NeverRefundedAndPaid
<1>1. BaseInv /\ OverdueInv => NeverRefundedAndPaid
  BY DEF BaseInv, ChainInv, ChainTypeOK, OverdueInv, NeverRefundedAndPaid, Heights
<1> QED
  BY <1>1, BaseInvariant, OverdueInvariant, PTL

-----------------------------------------------------------------------------
(* The pipeline implements the promise *)

PromiseInv == BaseInv /\ KnownInv /\ ConfirmInv /\ OverdueInv

\* The invariants the refinement rests on, together.
LEMMA PromiseInvariant ==
  ASSUME HeadNeverDrops
  PROVE  Spec => []PromiseInv
  BY BaseInvariant, KnownInvariant, ConfirmInvariant, OverdueInvariant, PTL DEF PromiseInv

\* A block only pays out reservations that are still open.
LEMMA MinePaysOut ==
  ASSUME PromiseInv, PromiseInv', MineStep
  PROVE  Promise!PayOut({n \in Nonces : ~paid[n] /\ paid'[n]}) \/ UNCHANGED <<book, paid>>
<1> DEFINE S == {n \in Nonces : ~paid[n] /\ paid'[n]}
<1>1. PICK depth \in 0..(head - finalHeight), short \in SUBSET Nonces : MineBlock(depth, short)
  BY DEF MineStep
<1>2. book' = book /\ intent' = intent
  BY <1>1 DEF MineBlock, dbVars, book
<1>3. ASSUME NEW n \in S
      PROVE  book[n] = "reserved"
  <2>1. n \in Nonces /\ paidAt'[n] \in 1..finalHeight' /\ ~(paidAt[n] \in 1..finalHeight)
    BY DEF paid
  <2>2. paidAt'[n] # 0
    BY <2>1 DEF PromiseInv, BaseInv, ChainInv, ChainTypeOK, Heights
  <2>3. intent[n] # "none"
    BY <1>2, <2>1, <2>2 DEF PromiseInv, KnownInv
  <2>4. intent[n] # "confirmed"
    BY <2>1 DEF PromiseInv, ConfirmInv, ConfirmedIsFinal
  <2>5. intent[n] # "expired"
    BY <1>2, <2>1, <2>2 DEF PromiseInv, OverdueInv
  <2> QED
    BY <2>1, <2>3, <2>4, <2>5 DEF book
<1>4. paid' = [n \in Nonces |-> paid[n] \/ n \in S]
  <2>1. ASSUME NEW n \in Nonces, paid[n]
        PROVE  paid'[n]
    <3>1. ChainNext \/ UNCHANGED chainVars
      BY DEF MineStep, MineBlock, MineAny, ChainNext
    <3> QED
      BY <2>1, <3>1, FinalPayoutStays DEF PromiseInv, BaseInv, paid
  <2>2. paid' = [n \in Nonces |-> paid'[n]] /\ \A n \in Nonces : paid[n] \in BOOLEAN /\ paid'[n] \in BOOLEAN
    BY DEF paid
  <2>3. \A n \in Nonces : paid'[n] = (paid[n] \/ n \in S)
    BY <2>1, <2>2
  <2> QED
    BY <2>2, <2>3
<1> QED
  BY <1>2, <1>3, <1>4 DEF Promise!PayOut

\* Every other step moves the ledger as the promise allows, or not at all.
LEMMA EngineKeepsPromise ==
  ASSUME PromiseInv, Next, ~MineStep
  PROVE  Promise!Next \/ UNCHANGED <<book, paid>>
<1>0. EngineTypeOK /\ WorkerInv /\ intent \in [Nonces -> IntentStates]
  BY DEF PromiseInv, BaseInv, EngineTypeOK
<1>1. ASSUME NEW n \in Nonces, RequestWithdraw(n)
      PROVE  Promise!Reserve(n)
  BY <1>0, <1>1 DEF RequestWithdraw, chainVars, book, paid, Promise!Reserve
<1>2. ASSUME NEW n \in Nonces, ReadHeadForRequest(n)
      PROVE  UNCHANGED <<book, paid>>
  BY <1>2 DEF ReadHeadForRequest, Stamp, dbVars, book, paid
<1>3. ASSUME NEW p \in Procs, Expire(p)
      PROVE  (\E n \in Nonces : Promise!Refund(n)) \/ UNCHANGED <<book, paid>>
  <2> DEFINE n == resolver[p].nonce
  <2>1. n \in Nonces /\ paidAt[n] = 0
    BY <1>0, <1>3 DEF Expire, WorkerInv, EngineTypeOK, Resolvers, PromiseInv, OverdueInv
  <2>2. UNCHANGED paid
    BY <1>3 DEF Expire, chainVars, paid
  <2>3. CASE n \in InFlight /\ PastExpiry(p, n)
    <3>1. intent' = [intent EXCEPT ![n] = "expired"]
      BY <1>3, <2>3 DEF Expire
    <3>2. book[n] = "reserved" /\ ~paid[n]
      <4>1. intent[n] \in {"reserved", "submitted"}
        BY <2>3 DEF InFlight
      <4>2. paidAt[n] \notin 1..finalHeight
        BY <2>1
      <4> HIDE DEF n
      <4>3. book[n] = "reserved"
        BY <2>1, <4>1 DEF book
      <4>4. ~paid[n]
        BY <2>1, <4>2 DEF paid
      <4> QED
        BY <4>3, <4>4
    <3>3. book' = [book EXCEPT ![n] = "refunded"]
      BY <1>0, <2>1, <3>1 DEF book
    <3> QED
      BY <2>1, <2>2, <3>2, <3>3 DEF Promise!Refund
  <2>4. CASE ~(n \in InFlight /\ PastExpiry(p, n))
    BY <1>3, <2>2, <2>4 DEF Expire, book
  <2> QED
    BY <2>3, <2>4
<1>4. ASSUME NEW p \in Procs, Confirm(p)
      PROVE  (\E n \in Nonces : Promise!Recognise(n)) \/ UNCHANGED <<book, paid>>
  <2> DEFINE n == resolver[p].nonce
  <2>1. n \in Nonces /\ paidAt[n] \in 1..finalHeight
    BY <1>0, <1>4 DEF Confirm, WorkerInv, EngineTypeOK, Resolvers, PromiseInv, ConfirmInv
  <2>2. UNCHANGED paid
    BY <1>4 DEF Confirm, chainVars, paid
  <2>3. CASE n \in InFlight
    <3>1. intent' = [intent EXCEPT ![n] = "confirmed"]
      BY <1>4, <2>3 DEF Confirm
    <3>2. book[n] = "reserved" /\ paid[n]
      BY <2>1, <2>3 DEF book, paid, InFlight
    <3>3. book' = [book EXCEPT ![n] = "settled"]
      BY <1>0, <2>1, <3>1 DEF book
    <3> QED
      BY <2>1, <2>2, <3>2, <3>3 DEF Promise!Recognise
  <2>4. CASE n \notin InFlight
    BY <1>4, <2>2, <2>4 DEF Confirm, book
  <2> QED
    BY <2>3, <2>4
<1>5. ASSUME NEW p \in Procs, MarkSubmitted(p)
      PROVE  UNCHANGED <<book, paid>>
  <2>1. UNCHANGED paid
    BY <1>5 DEF MarkSubmitted, chainVars, paid
  <2>2. \A n \in Nonces : \/ intent'[n] = intent[n]
                          \/ intent[n] = "reserved" /\ intent'[n] = "submitted"
    BY <1>0, <1>5 DEF MarkSubmitted
  <2>3. UNCHANGED book
    BY <2>2 DEF book
  <2> QED
    BY <2>1, <2>3
<1>6. ASSUME NEW p \in Procs, OutboxStep(p), ~MarkSubmitted(p)
      PROVE  UNCHANGED <<book, paid>>
  <2>1. UNCHANGED <<intent, paidAt, finalHeight>>
    BY <1>6 DEF OutboxStep, LeaseOutbox, SubmitJob, SettleRow, Submit, chainVars, dbVars
  <2> QED
    BY <2>1 DEF book, paid
<1>7. ASSUME NEW p \in Procs, ResolverStep(p), ~Expire(p), ~Confirm(p)
      PROVE  UNCHANGED <<book, paid>>
  <2>1. UNCHANGED <<intent, paidAt, finalHeight>>
    BY <1>7 DEF ResolverStep, ListInFlight, ReadHead, CheckStatus, AskExpired, CancelNonce,
                RecheckExpired, Cancel, chainVars, dbVars
  <2> QED
    BY <2>1 DEF book, paid
<1>8. ASSUME NEW p \in Procs, Crash(p) \/ AbortOutboxTick(p) \/ AbortResolverTick(p)
      PROVE  UNCHANGED <<book, paid>>
  <2>1. UNCHANGED <<intent, paidAt, finalHeight>>
    BY <1>8 DEF Crash, AbortOutboxTick, AbortResolverTick, LoseUnsaved, chainVars, dbVars
  <2> QED
    BY <2>1 DEF book, paid
<1> QED
  BY <1>1, <1>2, <1>3, <1>4, <1>5, <1>6, <1>7, <1>8 DEF Next, Promise!Next

\* The safety half of KeepsPromise for every instance: while the head never
\* drops, the pipeline only ever does what the abstract promise allows.
THEOREM ImplementsPromise ==
  ASSUME HeadNeverDrops
  PROVE  Spec => Promise!Spec
<1>1. Init => Promise!Init
  <2> SUFFICES ASSUME Init
               PROVE  Promise!Init
    OBVIOUS
  <2>1. book = [n \in Nonces |-> "none"]
    BY DEF Init, book
  <2>2. \A n \in Nonces : (paidAt[n] \in 1..finalHeight) = FALSE
    BY DEF Init, ChainInit
  <2>3. paid = [n \in Nonces |-> FALSE]
    BY <2>2 DEF paid
  <2> QED
    BY <2>1, <2>3 DEF Promise!Init
<1>2. PromiseInv /\ PromiseInv' /\ [Next]_vars => [Promise!Next]_<<book, paid>>
  <2>1. ASSUME PromiseInv, PromiseInv', MineStep
        PROVE  Promise!Next \/ UNCHANGED <<book, paid>>
    BY <2>1, MinePaysOut DEF Promise!Next
  <2>2. ASSUME PromiseInv, Next, ~MineStep
        PROVE  Promise!Next \/ UNCHANGED <<book, paid>>
    BY <2>2, EngineKeepsPromise
  <2>3. ASSUME UNCHANGED vars
        PROVE  UNCHANGED <<book, paid>>
    BY <2>3 DEF vars, chainVars, dbVars, book, paid
  <2> QED
    BY <2>1, <2>2, <2>3
<1> QED
  BY <1>1, <1>2, PromiseInvariant, PTL DEF Spec, Promise!Spec, Promise!promiseVars
=============================================================================
