--------------------------- MODULE ChainSimProofs ---------------------------
(***************************************************************************)
(* Proofs about the simulated chain, for any finite set of markets, any    *)
(* confirmation depth, reorganisation depth and block size, and any pool   *)
(* of requests: the vault stays sound at every height that can still be    *)
(* reorganised, the receipts say what the blocks say, and the finalised    *)
(* history replays on the contract's own code.                             *)
(***************************************************************************)
EXTENDS ChainSimProperties, FoldLemmas

-----------------------------------------------------------------------------
(* The vault *)

\* What holds of the vault after every accepted call.
Sound(vault) ==
  /\ Contract!Check(vault)
  /\ vault.processed \intersect vault.cancelled = {}

\* The contract's sum of the escrows is the simulator's.
LEMMA EscrowSum ==
  ASSUME NEW vault \in Contract!Vaults
  PROVE  /\ SumFunction(vault.escrow) \in Nat
         /\ Contract!EscrowTotal(vault) = SumFunction(vault.escrow)
<1>1. vault.escrow \in [Markets -> Nat]
  BY DEF Contract!Vaults
<1>2. Contract!SumFunction(vault.escrow) = SumFunction(vault.escrow)
  BY Zenon DEF SumFunction, SumFunctionOnSet, FoldFunctionOnSet, MapThenFoldSet,
     Contract!SumFunction, Contract!SumFunctionOnSet, Contract!FoldFunctionOnSet,
     Contract!MapThenFoldSet
<1>3. SumFunction(vault.escrow) \in Nat
  BY <1>1, SumNat, MarketsAssumption
<1> QED
  BY <1>2, <1>3 DEF Contract!EscrowTotal

\* Another target for one market's escrow.
LEMMA EscrowSumExcept ==
  ASSUME NEW vault \in Contract!Vaults, NEW m \in Markets, NEW a \in Nat
  PROVE  /\ SumFunction([vault.escrow EXCEPT ![m] = a]) =
              SumFunction(vault.escrow) - vault.escrow[m] + a
         /\ vault.escrow[m] \in Nat
         /\ [vault.escrow EXCEPT ![m] = a] \in [Markets -> Nat]
<1>1. vault.escrow \in [Markets -> Nat]
  BY DEF Contract!Vaults
<1>2. vault.escrow \in [Markets -> Int] /\ a \in Int
  BY <1>1
<1>3. SumFunction([vault.escrow EXCEPT ![m] = a]) =
        SumFunction(vault.escrow) - vault.escrow[m] + a
  BY <1>2, MarketsAssumption, SumExcept
<1> QED
  BY <1>1, <1>3

\* What an accepted call does, kind by kind.
LEMMA Accepted ==
  ASSUME NEW vault \in Contract!Vaults, NEW tx \in Contract!Call, NEW height \in Nat,
         Verdict(vault, tx, height) = "ok"
  PROVE  /\ tx.nonce \notin vault.processed \union vault.cancelled
         /\ tx.kind # "cancel" => tx.expiry = 0 \/ height <= tx.expiry
         /\ tx.kind = "deposit" => tx.amount > 0
         /\ tx.kind = "withdraw" => tx.amount > 0 /\ tx.amount <= Free(vault)
         /\ tx.kind = "escrow_set" =>
              /\ tx.market \notin vault.settled
              /\ tx.amount <= vault.escrow[tx.market] \/ tx.amount - vault.escrow[tx.market] <= Free(vault)
         /\ tx.kind = "settle_market" => tx.market \notin vault.settled
         /\ tx.kind = "cancel" => tx.expiry > 0 /\ height > tx.expiry
<1>1. /\ tx.kind \in {"deposit", "withdraw", "escrow_set", "settle_market", "cancel"}
      /\ tx.amount \in Nat /\ tx.expiry \in Nat /\ tx.market \in Markets
  BY DEF Contract!Call, Contract!Kinds
<1>2. vault.balance \in Nat /\ vault.escrow[tx.market] \in Nat
  BY <1>1 DEF Contract!Vaults
<1>3. Free(vault) \in Int
  BY <1>2, EscrowSum DEF Free
<1>4. /\ tx.nonce \notin vault.processed \union vault.cancelled
      /\ ~(tx.kind # "cancel" /\ tx.expiry > 0 /\ height > tx.expiry)
  BY DEF Verdict
<1>5. CASE tx.kind = "deposit"
  BY <1>1, <1>4, <1>5 DEF Verdict
<1>6. CASE tx.kind = "withdraw"
  BY <1>1, <1>3, <1>4, <1>6 DEF Verdict
<1>7. CASE tx.kind = "escrow_set"
  BY <1>1, <1>2, <1>3, <1>4, <1>7 DEF Verdict
<1>8. CASE tx.kind = "settle_market"
  BY <1>1, <1>4, <1>8 DEF Verdict
<1>9. CASE tx.kind = "cancel"
  BY <1>1, <1>4, <1>9 DEF Verdict
<1> QED
  BY <1>1, <1>5, <1>6, <1>7, <1>8, <1>9

LEMMA EffectType ==
  ASSUME NEW vault \in Contract!Vaults, NEW tx \in Contract!Call, NEW height \in Nat,
         Verdict(vault, tx, height) = "ok"
  PROVE  Effect(vault, tx) \in Contract!Vaults
<1>1. /\ tx.kind \in {"deposit", "withdraw", "escrow_set", "settle_market", "cancel"}
      /\ tx.amount \in Nat /\ tx.nonce \in Nonces /\ tx.market \in Markets
  BY DEF Contract!Call, Contract!Kinds
<1>2. /\ vault.balance \in Nat /\ vault.escrow \in [Markets -> Nat]
      /\ vault.settled \in SUBSET Markets
      /\ vault.processed \in SUBSET Nonces /\ vault.cancelled \in SUBSET Nonces
  BY DEF Contract!Vaults
<1>3. tx.kind = "withdraw" => vault.balance - tx.amount \in Nat
  BY <1>1, <1>2, Accepted, EscrowSum DEF Free
<1>4. Effect(vault, tx).balance \in Nat
  BY <1>1, <1>2, <1>3 DEF Effect
<1>5. Effect(vault, tx).escrow \in [Markets -> Nat]
  BY <1>1, <1>2 DEF Effect
<1>6. Effect(vault, tx).settled \in SUBSET Markets
  BY <1>1, <1>2 DEF Effect
<1>7. Effect(vault, tx).processed \in SUBSET Nonces /\ Effect(vault, tx).cancelled \in SUBSET Nonces
  BY <1>1, <1>2 DEF Effect
<1>8. Effect(vault, tx) = [balance |-> Effect(vault, tx).balance,
        escrow |-> Effect(vault, tx).escrow, settled |-> Effect(vault, tx).settled,
        processed |-> Effect(vault, tx).processed, cancelled |-> Effect(vault, tx).cancelled]
  BY DEF Effect
<1> HIDE DEF Effect
<1> QED
  BY <1>4, <1>5, <1>6, <1>7, <1>8 DEF Contract!Vaults

\* An accepted call leaves escrow backed, settled markets without escrow, and
\* no nonce both executed and cancelled.
LEMMA EffectSound ==
  ASSUME NEW vault \in Contract!Vaults, NEW tx \in Contract!Call, NEW height \in Nat,
         Verdict(vault, tx, height) = "ok", Sound(vault)
  PROVE  Sound(Effect(vault, tx))
<1> DEFINE after == Effect(vault, tx)
<1>1. /\ tx.kind \in {"deposit", "withdraw", "escrow_set", "settle_market", "cancel"}
      /\ tx.amount \in Nat /\ tx.nonce \in Nonces /\ tx.market \in Markets
  BY DEF Contract!Call, Contract!Kinds
<1>2. vault.balance \in Nat /\ vault.escrow \in [Markets -> Nat]
  BY DEF Contract!Vaults
<1>3. after \in Contract!Vaults
  BY EffectType
<1>4. /\ SumFunction(vault.escrow) \in Nat /\ SumFunction(vault.escrow) <= vault.balance
      /\ Contract!EscrowTotal(after) = SumFunction(after.escrow)
  BY <1>3, EscrowSum DEF Sound, Contract!Check
<1>5. \A m \in vault.settled : vault.escrow[m] = 0
  BY DEF Sound, Contract!Check
<1>6. SumFunction(after.escrow) <= after.balance
  <2>1. CASE tx.kind = "deposit"
    <3>1. after.escrow = vault.escrow /\ after.balance = vault.balance + tx.amount
      BY <2>1 DEF Effect
    <3> QED
      BY <1>1, <1>2, <1>4, <3>1
  <2>2. CASE tx.kind = "withdraw"
    <3>1. after.escrow = vault.escrow /\ after.balance = vault.balance - tx.amount
      BY <1>1, <1>2, <2>2 DEF Effect
    <3>2. tx.amount <= vault.balance - SumFunction(vault.escrow)
      BY <2>2, Accepted DEF Free
    <3> QED
      BY <1>1, <1>2, <1>4, <3>1, <3>2
  <2>3. CASE tx.kind = "escrow_set"
    <3>1. /\ after.escrow = [vault.escrow EXCEPT ![tx.market] = tx.amount]
          /\ after.balance = vault.balance
      BY <1>1, <1>2, <2>3 DEF Effect
    <3>2. \/ tx.amount <= vault.escrow[tx.market]
          \/ tx.amount - vault.escrow[tx.market] <= vault.balance - SumFunction(vault.escrow)
      BY <2>3, Accepted DEF Free
    <3>3. SumFunction(after.escrow) = SumFunction(vault.escrow) - vault.escrow[tx.market] + tx.amount
      BY <1>1, <3>1, EscrowSumExcept
    <3> QED
      BY <1>1, <1>2, <1>4, <3>1, <3>2, <3>3
  <2>4. CASE tx.kind = "settle_market"
    <3>1. /\ after.escrow = [vault.escrow EXCEPT ![tx.market] = 0]
          /\ after.balance = vault.balance
      BY <1>1, <1>2, <2>4 DEF Effect
    <3>2. SumFunction(after.escrow) = SumFunction(vault.escrow) - vault.escrow[tx.market] + 0
      BY <1>1, <3>1, EscrowSumExcept
    <3> QED
      BY <1>1, <1>2, <1>4, <3>1, <3>2
  <2>5. CASE tx.kind = "cancel"
    <3>1. after.escrow = vault.escrow /\ after.balance = vault.balance
      BY <1>2, <2>5 DEF Effect
    <3> QED
      BY <1>4, <3>1
  <2> QED
    BY <1>1, <2>1, <2>2, <2>3, <2>4, <2>5
<1>7. ASSUME NEW m \in after.settled
      PROVE  after.escrow[m] = 0
  <2>1. m \in Markets
    BY <1>3, <1>7 DEF Contract!Vaults
  <2>2. CASE tx.kind = "settle_market"
    BY <1>1, <1>2, <1>5, <2>1, <2>2 DEF Effect
  <2>3. CASE tx.kind = "escrow_set"
    <3>1. tx.market \notin vault.settled
      BY <2>3, Accepted
    <3> QED
      BY <1>1, <1>2, <1>5, <2>1, <2>3, <3>1 DEF Effect
  <2>4. CASE tx.kind \notin {"settle_market", "escrow_set"}
    BY <1>5, <2>4 DEF Effect
  <2> QED
    BY <2>2, <2>3, <2>4
<1>8. after.processed \intersect after.cancelled = {}
  <2>1. tx.nonce \notin vault.processed \union vault.cancelled
    BY Accepted
  <2> QED
    BY <2>1 DEF Effect, Sound
<1>9. Sound(after)
  <2> HIDE DEF after
  <2> QED
    BY <1>4, <1>6, <1>7, <1>8 DEF Sound, Contract!Check
<1> QED
  BY <1>9

LEMMA ApplyType ==
  ASSUME NEW vault \in Contract!Vaults, NEW tx \in Contract!Call, NEW height \in Nat
  PROVE  /\ ApplyTx(vault, tx, height) \in Contract!Vaults
         /\ Sound(vault) => Sound(ApplyTx(vault, tx, height))
BY EffectType, EffectSound DEF ApplyTx

\* The contract and the simulator, written apart, decide every call alike, as
\* long as escrow is backed.
LEMMA SameDecision ==
  ASSUME NEW vault \in Contract!Vaults, NEW tx \in Contract!Call, NEW height \in Nat,
         Sound(vault)
  PROVE  Verdict(vault, tx, height) = "ok" <=> Contract!Admits(vault, tx, height)
<1>1. /\ tx.kind \in {"deposit", "withdraw", "escrow_set", "settle_market", "cancel"}
      /\ tx.amount \in Nat /\ tx.expiry \in Nat /\ tx.market \in Markets
      /\ Contract!Expiry(tx) = tx.expiry
  BY DEF Contract!Call, Contract!Kinds, Contract!Expiry
<1>2. vault.balance \in Nat /\ vault.escrow[tx.market] \in Nat
  BY <1>1 DEF Contract!Vaults
<1>3. Free(vault) \in Nat /\ Contract!Free(vault) = Free(vault)
  BY <1>2, EscrowSum DEF Free, Contract!Free, Sound, Contract!Check
<1>4. ASSUME Verdict(vault, tx, height) = "ok"
      PROVE  Contract!Admits(vault, tx, height)
  <2>1. Contract!InTime(tx, height)
    BY <1>1, <1>4, Accepted DEF Contract!InTime
  <2>2. Contract!Funded(vault, tx)
    <3>1. tx.kind = "escrow_set" => tx.amount - vault.escrow[tx.market] <= Free(vault)
      BY <1>1, <1>2, <1>3, <1>4, Accepted
    <3> QED
      BY <1>1, <1>3, <1>4, <3>1, Accepted DEF Contract!Funded
  <2> QED
    BY <1>4, <2>1, <2>2, Accepted DEF Contract!Admits
<1>5. ASSUME Contract!Admits(vault, tx, height)
      PROVE  Verdict(vault, tx, height) = "ok"
  <2>1. /\ tx.nonce \notin vault.processed /\ tx.nonce \notin vault.cancelled
        /\ Contract!InTime(tx, height) /\ Contract!Funded(vault, tx)
    BY <1>5 DEF Contract!Admits
  <2>2. ~(tx.kind # "cancel" /\ tx.expiry > 0 /\ height > tx.expiry)
    BY <1>1, <2>1 DEF Contract!InTime
  <2>3. CASE tx.kind = "deposit"
    BY <1>1, <2>1, <2>2, <2>3 DEF Verdict, Contract!Funded
  <2>4. CASE tx.kind = "withdraw"
    <3>1. tx.amount # 0 /\ ~(Free(vault) < tx.amount)
      BY <1>1, <1>3, <2>1, <2>4 DEF Contract!Funded
    <3> QED
      BY <2>1, <2>2, <2>4, <3>1 DEF Verdict
  <2>5. CASE tx.kind = "escrow_set"
    <3>1. tx.market \notin vault.settled /\ ~(Free(vault) < tx.amount - vault.escrow[tx.market])
      BY <1>1, <1>2, <1>3, <2>1, <2>5 DEF Contract!Funded
    <3> QED
      BY <2>1, <2>2, <2>5, <3>1 DEF Verdict
  <2>6. CASE tx.kind = "settle_market"
    BY <2>1, <2>2, <2>6 DEF Verdict, Contract!Funded
  <2>7. CASE tx.kind = "cancel"
    <3>1. ~(tx.expiry = 0 \/ height <= tx.expiry)
      BY <1>1, <2>1, <2>7 DEF Contract!InTime
    <3> QED
      BY <2>1, <2>7, <3>1 DEF Verdict
  <2> QED
    BY <1>1, <2>3, <2>4, <2>5, <2>6, <2>7
<1> QED
  BY <1>4, <1>5

\* And they do the same with it.
LEMMA SameEffect ==
  ASSUME NEW vault \in Contract!Vaults, NEW tx \in Contract!Call, NEW height \in Nat,
         Sound(vault)
  PROVE  Contract!Execute(vault, tx, height) = ApplyTx(vault, tx, height)
<1>1. tx.kind \in {"deposit", "withdraw", "escrow_set", "settle_market", "cancel"}
  BY DEF Contract!Call, Contract!Kinds
<1>2. Verdict(vault, tx, height) = "ok" <=> Contract!Admits(vault, tx, height)
  BY SameDecision
<1>3. vault = [balance |-> vault.balance, escrow |-> vault.escrow, settled |-> vault.settled,
               processed |-> vault.processed, cancelled |-> vault.cancelled]
      /\ vault.balance \in Nat /\ tx.amount \in Nat
  BY DEF Contract!Vaults, Contract!Call
<1>4. CASE ~Contract!Admits(vault, tx, height)
  BY <1>2, <1>4 DEF Contract!Execute, ApplyTx
<1>5. CASE Contract!Admits(vault, tx, height)
  <2>1. ApplyTx(vault, tx, height) = Effect(vault, tx)
    BY <1>2, <1>5 DEF ApplyTx
  <2>2. CASE tx.kind = "deposit"
    BY <1>3, <1>5, <2>1, <2>2 DEF Contract!Execute, Effect
  <2>3. CASE tx.kind = "withdraw"
    BY <1>3, <1>5, <2>1, <2>3 DEF Contract!Execute, Effect
  <2>4. CASE tx.kind = "escrow_set"
    <3>1. Contract!Execute(vault, tx, height) =
            [vault EXCEPT !.escrow[tx.market] = tx.amount,
                          !.processed = @ \union {tx.nonce}]
      BY <1>5, <2>4, Zenon DEF Contract!Execute
    <3>2. Effect(vault, tx) =
            [balance |-> vault.balance, escrow |-> [vault.escrow EXCEPT ![tx.market] = tx.amount],
             settled |-> vault.settled, processed |-> vault.processed \union {tx.nonce},
             cancelled |-> vault.cancelled]
      BY <1>3, <2>4 DEF Effect
    <3> QED
      BY <1>3, <2>1, <3>1, <3>2
  <2>5. CASE tx.kind = "settle_market"
    <3>1. Contract!Execute(vault, tx, height) =
            [vault EXCEPT !.escrow[tx.market] = 0,
                          !.settled = @ \union {tx.market},
                          !.processed = @ \union {tx.nonce}]
      BY <1>5, <2>5, Zenon DEF Contract!Execute
    <3>2. Effect(vault, tx) =
            [balance |-> vault.balance, escrow |-> [vault.escrow EXCEPT ![tx.market] = 0],
             settled |-> vault.settled \union {tx.market},
             processed |-> vault.processed \union {tx.nonce},
             cancelled |-> vault.cancelled]
      BY <1>3, <2>5 DEF Effect
    <3> QED
      BY <1>3, <2>1, <3>1, <3>2
  <2>6. CASE tx.kind = "cancel"
    BY <1>3, <1>5, <2>1, <2>6 DEF Contract!Execute, Effect
  <2> QED
    BY <1>1, <2>2, <2>3, <2>4, <2>5, <2>6
<1> QED
  BY <1>4, <1>5

\* On any sound vault the simulator and the contract, two programs in two
\* languages, accept the same calls and do the same with them (sim.go:
\* `applyTx is the contract. Mirror of Vault::execute').
THEOREM CopiesAgree ==
  ASSUME NEW vault \in Contract!Vaults, NEW tx \in Contract!Call, NEW height \in Nat,
         Sound(vault)
  PROVE  /\ Verdict(vault, tx, height) = "ok" <=> Contract!Admits(vault, tx, height)
         /\ ApplyTx(vault, tx, height) = Contract!Execute(vault, tx, height)
  BY SameDecision, SameEffect

-----------------------------------------------------------------------------
(* A block, call by call *)

\* r is the vault after each call of a block.
BlockRun(r, vault, txs, height) ==
  /\ r \in [0..Len(txs) -> Contract!Vaults]
  /\ r[0] = vault
  /\ \A i \in 1..Len(txs) : r[i] = ApplyTx(r[i - 1], txs[i], height)

LEMMA BlockFold ==
  ASSUME NEW vault \in Contract!Vaults, NEW txs \in Seq(Contract!Call), NEW height \in Nat
  PROVE  \E r : BlockRun(r, vault, txs, height) /\ ApplyBlock(vault, txs, height) = r[Len(txs)]
<1> DEFINE n == Len(txs)
           Folds(h) == h = [T \in SUBSET (1..n) |->
             IF T = {} THEN vault ELSE ApplyTx(h[T \ {Max(T)}], txs[Max(T)], height)]
           iter == CHOOSE h : Folds(h)
<1>1. n \in Nat /\ DOMAIN txs = 1..n /\ \A i \in 1..n : txs[i] \in Contract!Call
  OBVIOUS
<1>2. PICK step : step = [i \in 1..n |-> [v \in Contract!Vaults |-> ApplyTx(v, txs[i], height)]]
  OBVIOUS
<1>3. step \in Steps(1..n, Contract!Vaults)
  BY <1>1, <1>2, ApplyType DEF Steps
<1>4. PICK g : IsFold(g, n, Contract!Vaults, vault, step)
  <2> HIDE DEF n
  <2> QED
    BY <1>1, <1>3, FoldExists
<1>5. Folds(g)
  BY <1>2, <1>4 DEF IsFold
<1>6. Folds(iter)
  <2> HIDE DEF Folds
  <2> QED
    BY <1>5
<1>7. \E r : IsRun(r, n, Contract!Vaults, vault, step) /\ iter[1..n] = r[n]
  <2> HIDE DEF iter
  <2>1. iter[{}] = g[{}] /\ \A T \in SUBSET (1..n) :
          T # {} /\ iter[T \ {Max(T)}] = g[T \ {Max(T)}] => iter[T] = g[T]
    BY <1>5, <1>6
  <2> QED
    BY <1>4, <2>1, Zenon DEF IsFold
<1>8. ApplyBlock(vault, txs, height) = iter[1..n]
  BY <1>1, Zenon DEF ApplyBlock, FoldLeft, MapThenFoldSet
<1>9. PICK r : IsRun(r, n, Contract!Vaults, vault, step) /\ iter[1..n] = r[n]
  BY <1>7
<1>10. BlockRun(r, vault, txs, height)
  <2>1. ASSUME NEW i \in 1..n
        PROVE  r[i] = ApplyTx(r[i - 1], txs[i], height)
    <3>1. r[i] = step[i][r[i - 1]] /\ r[i - 1] \in Contract!Vaults
      BY <1>9 DEF IsRun
    <3> QED
      BY <1>2, <3>1
  <2> QED
    BY <1>9, <2>1 DEF IsRun, BlockRun
<1> QED
  BY <1>8, <1>9, <1>10

\* The run of a block runs through each of its beginnings.
LEMMA BlockRuns ==
  ASSUME NEW vault \in Contract!Vaults, NEW txs \in Seq(Contract!Call), NEW height \in Nat
  PROVE  \E r : /\ BlockRun(r, vault, txs, height)
                /\ \A i \in 0..Len(txs) : ApplyBlock(vault, SubSeq(txs, 1, i), height) = r[i]
<1>1. PICK r : BlockRun(r, vault, txs, height)
  BY BlockFold
<1>2. ASSUME NEW i \in 0..Len(txs)
      PROVE  ApplyBlock(vault, SubSeq(txs, 1, i), height) = r[i]
  <2>1. /\ SubSeq(txs, 1, i) \in Seq(Contract!Call) /\ Len(SubSeq(txs, 1, i)) = i
        /\ \A j \in 1..i : SubSeq(txs, 1, i)[j] = txs[j]
    BY <1>2
  <2>2. PICK q : /\ BlockRun(q, vault, SubSeq(txs, 1, i), height)
                 /\ ApplyBlock(vault, SubSeq(txs, 1, i), height) = q[i]
    BY <2>1, BlockFold
  <2>3. q[0] = r[0]
    BY <1>1, <2>2 DEF BlockRun
  <2>4. ASSUME NEW j \in 1..i, q[j - 1] = r[j - 1]
        PROVE  q[j] = r[j]
    <3>1. q[j] = ApplyTx(q[j - 1], SubSeq(txs, 1, i)[j], height)
      BY <2>1, <2>2 DEF BlockRun
    <3>2. r[j] = ApplyTx(r[j - 1], txs[j], height)
      BY <1>1 DEF BlockRun
    <3> QED
      BY <2>1, <2>4, <3>1, <3>2
  <2>5. \A j \in 0..i : q[j] = r[j]
    <3>1. InStep(q, r, i) /\ i \in Nat
      BY <1>2, <2>3, <2>4 DEF InStep
    <3> QED
      BY <3>1, SameRun
  <2> QED
    BY <2>2, <2>5
<1> QED
  BY <1>1, <1>2

\* Every call of the block is accepted in its turn.
Accepts(vault, txs, height) ==
  \A i \in 1..Len(txs) :
    Verdict(ApplyBlock(vault, SubSeq(txs, 1, i - 1), height), txs[i], height) = "ok"

LEMMA EmptyBlock ==
  ASSUME NEW vault \in Contract!Vaults, NEW height \in Nat
  PROVE  ApplyBlock(vault, <<>>, height) = vault /\ Accepts(vault, <<>>, height)
<1>1. <<>> \in Seq(Contract!Call) /\ Len(<<>>) = 0
  OBVIOUS
<1>2. PICK r : /\ BlockRun(r, vault, <<>>, height)
               /\ ApplyBlock(vault, <<>>, height) = r[Len(<<>>)]
  BY <1>1, BlockFold
<1>3. ApplyBlock(vault, <<>>, height) = vault
  BY <1>1, <1>2 DEF BlockRun
<1> QED
  BY <1>1, <1>3 DEF Accepts

\* One more call.
LEMMA AppendCall ==
  ASSUME NEW vault \in Contract!Vaults, NEW txs \in Seq(Contract!Call),
         NEW tx \in Contract!Call, NEW height \in Nat
  PROVE  /\ ApplyBlock(vault, Append(txs, tx), height) =
              ApplyTx(ApplyBlock(vault, txs, height), tx, height)
         /\ Accepts(vault, txs, height)
              /\ Verdict(ApplyBlock(vault, txs, height), tx, height) = "ok"
              => Accepts(vault, Append(txs, tx), height)
<1> DEFINE longer == Append(txs, tx)
           n == Len(txs)
<1>1. /\ longer \in Seq(Contract!Call) /\ Len(longer) = n + 1 /\ n \in Nat
      /\ longer[n + 1] = tx
      /\ \A i \in 1..n : longer[i] = txs[i]
  OBVIOUS
<1>2. \A i \in 0..n : SubSeq(longer, 1, i) = SubSeq(txs, 1, i)
  OBVIOUS
<1>3. SubSeq(txs, 1, n) = txs
  OBVIOUS
<1>4. SubSeq(longer, 1, n + 1) = longer
  OBVIOUS
<1> HIDE DEF longer, n
<1>5. PICK r : /\ BlockRun(r, vault, longer, height)
               /\ \A i \in 0..Len(longer) : ApplyBlock(vault, SubSeq(longer, 1, i), height) = r[i]
  BY <1>1, BlockRuns
<1>6. ApplyBlock(vault, txs, height) = r[n]
  <2>1. ApplyBlock(vault, SubSeq(longer, 1, n), height) = r[n]
    BY <1>1, <1>5
  <2>2. SubSeq(longer, 1, n) = txs
    BY <1>1, <1>2, <1>3
  <2> QED
    BY <2>1, <2>2
<1>7. ApplyBlock(vault, longer, height) = r[n + 1]
  <2>1. ApplyBlock(vault, SubSeq(longer, 1, n + 1), height) = r[n + 1]
    BY <1>1, <1>5
  <2> QED
    BY <1>4, <2>1
<1>8. r[n + 1] = ApplyTx(r[n], tx, height)
  <2>1. n + 1 \in 1..Len(longer) /\ (n + 1) - 1 = n
    BY <1>1
  <2>2. r[n + 1] = ApplyTx(r[(n + 1) - 1], longer[n + 1], height)
    BY <1>5, <2>1 DEF BlockRun
  <2> QED
    BY <1>1, <2>1, <2>2
<1>9. ASSUME Accepts(vault, txs, height), NEW i \in 1..n + 1,
             Verdict(ApplyBlock(vault, txs, height), tx, height) = "ok"
      PROVE  Verdict(ApplyBlock(vault, SubSeq(longer, 1, i - 1), height), longer[i], height) = "ok"
  <2>1. CASE i = n + 1
    <3>1. SubSeq(longer, 1, i - 1) = txs
      BY <1>1, <1>2, <1>3, <2>1
    <3> QED
      BY <1>1, <1>9, <2>1, <3>1
  <2>2. CASE i # n + 1
    <3>1. i \in 1..n /\ i - 1 \in 0..n
      BY <1>1, <2>2
    <3>2. SubSeq(longer, 1, i - 1) = SubSeq(txs, 1, i - 1) /\ longer[i] = txs[i]
      BY <1>1, <1>2, <3>1
    <3> QED
      BY <1>9, <3>1, <3>2 DEF Accepts, n
  <2> QED
    BY <2>1, <2>2
<1>10. Accepts(vault, txs, height) /\ Verdict(ApplyBlock(vault, txs, height), tx, height) = "ok"
      => Accepts(vault, longer, height)
  BY <1>1, <1>9 DEF Accepts
<1> QED
  BY <1>6, <1>7, <1>8, <1>10 DEF longer

\* The nonces that a list of calls executes and the ones it cancels.
Executes(txs) == {n \in Nonces : \E tx \in ToSet(txs) : tx.nonce = n /\ tx.kind # "cancel"}
Cancels(txs) == {n \in Nonces : \E tx \in ToSet(txs) : tx.nonce = n /\ tx.kind = "cancel"}

LEMMA EffectNonces ==
  ASSUME NEW vault, NEW tx
  PROVE  /\ Effect(vault, tx).processed =
              vault.processed \union IF tx.kind = "cancel" THEN {} ELSE {tx.nonce}
         /\ Effect(vault, tx).cancelled =
              vault.cancelled \union IF tx.kind = "cancel" THEN {tx.nonce} ELSE {}
BY DEF Effect

\* What a block of accepted calls does to the nonces and to the vault's
\* soundness.  None of its calls has a nonce that was used before it.
LEMMA BlockNonces ==
  ASSUME NEW vault \in Contract!Vaults, NEW txs \in Seq(Contract!Call), NEW height \in Nat,
         Accepts(vault, txs, height)
  PROVE  /\ ApplyBlock(vault, txs, height) \in Contract!Vaults
         /\ ApplyBlock(vault, txs, height).processed = vault.processed \union Executes(txs)
         /\ ApplyBlock(vault, txs, height).cancelled = vault.cancelled \union Cancels(txs)
         /\ \A tx \in ToSet(txs) : tx.nonce \notin vault.processed \union vault.cancelled
<1>1. PICK r : /\ BlockRun(r, vault, txs, height)
               /\ \A i \in 0..Len(txs) : ApplyBlock(vault, SubSeq(txs, 1, i), height) = r[i]
  BY BlockRuns
<1> DEFINE n == Len(txs)
           S == {i \in 0..n :
             /\ r[i].processed =
                  vault.processed \union {txs[j].nonce : j \in {k \in 1..i : txs[k].kind # "cancel"}}
             /\ r[i].cancelled =
                  vault.cancelled \union {txs[j].nonce : j \in {k \in 1..i : txs[k].kind = "cancel"}}}
<1>2. n \in Nat /\ \A i \in 1..n : txs[i] \in Contract!Call /\ i - 1 \in 0..n
  OBVIOUS
<1>3. 0 \in S
  <2>1. r[0] = vault /\ 1..0 = {} /\ 0 \in 0..n
    BY <1>1, <1>2 DEF BlockRun
  <2> QED
    BY <2>1
<1>4. ASSUME NEW i \in 1..n
      PROVE  /\ Verdict(r[i - 1], txs[i], height) = "ok"
             /\ r[i - 1] \in Contract!Vaults
             /\ r[i] = Effect(r[i - 1], txs[i])
  <2>1. Verdict(r[i - 1], txs[i], height) = "ok"
    BY <1>1, <1>2 DEF Accepts
  <2>2. r[i] = ApplyTx(r[i - 1], txs[i], height) /\ r[i - 1] \in Contract!Vaults
    BY <1>1, <1>2 DEF BlockRun
  <2> QED
    BY <2>1, <2>2 DEF ApplyTx
<1>5. ASSUME NEW i \in 1..n, i - 1 \in S
      PROVE  i \in S
  <2>1. 1..i = (1..i - 1) \union {i} /\ i \in 0..n
    BY <1>2
  <2>2. /\ r[i].processed = r[i - 1].processed \union
             IF txs[i].kind = "cancel" THEN {} ELSE {txs[i].nonce}
        /\ r[i].cancelled = r[i - 1].cancelled \union
             IF txs[i].kind = "cancel" THEN {txs[i].nonce} ELSE {}
    BY <1>4, EffectNonces
  <2>3. /\ r[i - 1].processed = vault.processed \union
             {txs[j].nonce : j \in {k \in 1..i - 1 : txs[k].kind # "cancel"}}
        /\ r[i - 1].cancelled = vault.cancelled \union
             {txs[j].nonce : j \in {k \in 1..i - 1 : txs[k].kind = "cancel"}}
    BY <1>5
  <2>4. CASE txs[i].kind = "cancel"
    <3>1. r[i].processed = vault.processed \union
            {txs[j].nonce : j \in {k \in 1..i : txs[k].kind # "cancel"}}
      BY <2>1, <2>2, <2>3, <2>4
    <3>2. r[i].cancelled = vault.cancelled \union
            {txs[j].nonce : j \in {k \in 1..i : txs[k].kind = "cancel"}}
      BY <2>1, <2>2, <2>3, <2>4
    <3> QED
      BY <2>1, <3>1, <3>2
  <2>5. CASE txs[i].kind # "cancel"
    <3>1. r[i].processed = vault.processed \union
            {txs[j].nonce : j \in {k \in 1..i : txs[k].kind # "cancel"}}
      BY <2>1, <2>2, <2>3, <2>5
    <3>2. r[i].cancelled = vault.cancelled \union
            {txs[j].nonce : j \in {k \in 1..i : txs[k].kind = "cancel"}}
      BY <2>1, <2>2, <2>3, <2>5
    <3> QED
      BY <2>1, <3>1, <3>2
  <2> QED
    BY <2>4, <2>5
<1>6. 0..n \subseteq S
  <2> HIDE DEF S
  <2> QED
    BY <1>2, <1>3, <1>5, IntervalInduction
<1>7. ToSet(txs) = {txs[i] : i \in 1..n} /\ \A i \in 1..n : txs[i].nonce \in Nonces
  BY <1>2 DEF ToSet, Contract!Call
<1>8. ApplyBlock(vault, txs, height) = r[n] /\ r[n] \in Contract!Vaults
  <2>1. SubSeq(txs, 1, n) = txs /\ n \in 0..n
    BY <1>2
  <2> QED
    BY <1>1, <2>1 DEF BlockRun
<1>9. /\ Executes(txs) = {txs[j].nonce : j \in {k \in 1..n : txs[k].kind # "cancel"}}
      /\ Cancels(txs) = {txs[j].nonce : j \in {k \in 1..n : txs[k].kind = "cancel"}}
  BY <1>7 DEF Executes, Cancels
<1>10. n \in S
  <2>1. n \in 0..n
    BY <1>2
  <2> HIDE DEF S
  <2> QED
    BY <1>6, <2>1
<1>11. ASSUME NEW i \in 1..n
       PROVE  txs[i].nonce \notin vault.processed \union vault.cancelled
  <2>1. txs[i].nonce \notin r[i - 1].processed \union r[i - 1].cancelled
    BY <1>2, <1>4, Accepted
  <2>2. i - 1 \in S
    <3> HIDE DEF S
    <3> QED
      BY <1>2, <1>6
  <2> QED
    BY <2>1, <2>2
<1> QED
  BY <1>7, <1>8, <1>9, <1>10, <1>11

LEMMA BlockSound ==
  ASSUME NEW vault \in Contract!Vaults, NEW txs \in Seq(Contract!Call), NEW height \in Nat
  PROVE  /\ ApplyBlock(vault, txs, height) \in Contract!Vaults
         /\ Sound(vault) => Sound(ApplyBlock(vault, txs, height))
<1>1. PICK r : BlockRun(r, vault, txs, height) /\ ApplyBlock(vault, txs, height) = r[Len(txs)]
  BY BlockFold
<1>2. Len(txs) \in Nat /\ Len(txs) \in 0..Len(txs) /\ \A i \in 1..Len(txs) : txs[i] \in Contract!Call
  OBVIOUS
<1> DEFINE S == {i \in 0..Len(txs) : Sound(r[i])}
<1>3. ASSUME Sound(vault)
      PROVE  Len(txs) \in S
  <2>1. 0 \in S
    BY <1>1, <1>2, <1>3 DEF BlockRun
  <2>2. ASSUME NEW i \in 1..Len(txs), i - 1 \in S
        PROVE  i \in S
    <3>1. /\ r[i] = ApplyTx(r[i - 1], txs[i], height) /\ r[i - 1] \in Contract!Vaults
          /\ txs[i] \in Contract!Call /\ i \in 0..Len(txs)
      BY <1>1, <1>2 DEF BlockRun
    <3> QED
      BY <2>2, <3>1, ApplyType
  <2>3. 0..Len(txs) \subseteq S
    <3> HIDE DEF S
    <3> QED
      BY <1>2, <2>1, <2>2, IntervalInduction
  <2> HIDE DEF S
  <2> QED
    BY <1>2, <2>3
<1> QED
  BY <1>1, <1>2, <1>3 DEF BlockRun

-----------------------------------------------------------------------------
(* A chain of blocks *)

\* HeadOver, from any vault at any height.
Over(vault, base, blocks) ==
  FoldLeftDomain(LAMBDA v, i : ApplyBlock(v, blocks[i], base + i), vault, blocks)

\* r is the vault at each height from base on.
ChainRun(r, vault, base, blocks) ==
  /\ r \in [0..Len(blocks) -> Contract!Vaults]
  /\ r[0] = vault
  /\ \A i \in 1..Len(blocks) : r[i] = ApplyBlock(r[i - 1], blocks[i], base + i)

LEMMA ChainFold ==
  ASSUME NEW vault \in Contract!Vaults, NEW base \in Nat, NEW blocks \in Seq(Seq(Contract!Call))
  PROVE  \E r : ChainRun(r, vault, base, blocks) /\ Over(vault, base, blocks) = r[Len(blocks)]
<1> DEFINE n == Len(blocks)
           index == [i \in DOMAIN blocks |-> i]
           Folds(h) == h = [T \in SUBSET (DOMAIN index) |->
             IF T = {} THEN vault
             ELSE ApplyBlock(h[T \ {Max(T)}], blocks[index[Max(T)]], base + index[Max(T)])]
           iter == CHOOSE h : Folds(h)
<1>1. /\ n \in Nat /\ DOMAIN blocks = 1..n
      /\ \A i \in 1..n : blocks[i] \in Seq(Contract!Call) /\ base + i \in Nat
  OBVIOUS
<1>2. PICK step : step = [i \in 1..n |-> [v \in Contract!Vaults |->
                            ApplyBlock(v, blocks[i], base + i)]]
  OBVIOUS
<1>3. step \in Steps(1..n, Contract!Vaults)
  BY <1>1, <1>2, BlockSound DEF Steps
<1>4. PICK g : IsFold(g, n, Contract!Vaults, vault, step)
  <2> HIDE DEF n
  <2> QED
    BY <1>1, <1>3, FoldExists
<1>5. DOMAIN index = 1..n /\ \A i \in 1..n : index[i] = i
  BY <1>1
<1>6. Folds(g)
  <2>1. g = [T \in SUBSET (1..n) |->
             IF T = {} THEN vault ELSE ApplyBlock(g[T \ {Max(T)}], blocks[Max(T)], base + Max(T))]
    BY <1>2, <1>4 DEF IsFold
  <2>2. \A T \in SUBSET (1..n) : T # {} => Max(T) \in 1..n
    BY <1>4 DEF IsFold
  <2> HIDE DEF index, n
  <2> QED
    BY <1>5, <2>1, <2>2
<1>7. Folds(iter)
  <2> HIDE DEF Folds
  <2> QED
    BY <1>6
<1>8. \E r : IsRun(r, n, Contract!Vaults, vault, step) /\ iter[1..n] = r[n]
  <2> HIDE DEF iter
  <2>1. iter[{}] = g[{}] /\ \A T \in SUBSET (1..n) :
          T # {} /\ iter[T \ {Max(T)}] = g[T \ {Max(T)}] => iter[T] = g[T]
    <3> HIDE DEF index, n
    <3>1. {} \in SUBSET (1..n)
      OBVIOUS
    <3>2. iter[{}] = g[{}]
      BY <1>5, <1>6, <1>7, <3>1
    <3>3. ASSUME NEW T \in SUBSET (1..n), T # {}, iter[T \ {Max(T)}] = g[T \ {Max(T)}]
          PROVE  iter[T] = g[T]
      <4>1. g[T] = ApplyBlock(g[T \ {Max(T)}], blocks[index[Max(T)]], base + index[Max(T)])
        BY <1>5, <1>6, <3>3
      <4>2. iter[T] = ApplyBlock(iter[T \ {Max(T)}], blocks[index[Max(T)]], base + index[Max(T)])
        BY <1>5, <1>7, <3>3
      <4> QED
        BY <3>3, <4>1, <4>2
    <3> QED
      BY <3>2, <3>3
  <2> QED
    BY <1>4, <2>1, Zenon DEF IsFold
<1>9. Over(vault, base, blocks) = iter[1..n]
  <2>1. Over(vault, base, blocks) = iter[DOMAIN index]
    BY Zenon DEF Over, FoldLeftDomain, FoldLeft, MapThenFoldSet
  <2>2. DOMAIN index = 1..n
    BY <1>1
  <2> HIDE DEF iter, index
  <2> QED
    BY <2>1, <2>2
<1>10. PICK r : IsRun(r, n, Contract!Vaults, vault, step) /\ iter[1..n] = r[n]
  BY <1>8
<1>11. ChainRun(r, vault, base, blocks)
  <2>1. ASSUME NEW i \in 1..n
        PROVE  r[i] = ApplyBlock(r[i - 1], blocks[i], base + i)
    <3>1. r[i] = step[i][r[i - 1]] /\ r[i - 1] \in Contract!Vaults
      BY <1>10 DEF IsRun
    <3> QED
      BY <1>2, <3>1
  <2> QED
    BY <1>10, <2>1 DEF IsRun, ChainRun
<1> QED
  BY <1>9, <1>10, <1>11

LEMMA ChainRuns ==
  ASSUME NEW vault \in Contract!Vaults, NEW base \in Nat, NEW blocks \in Seq(Seq(Contract!Call))
  PROVE  \E r : /\ ChainRun(r, vault, base, blocks)
                /\ \A i \in 0..Len(blocks) : Over(vault, base, SubSeq(blocks, 1, i)) = r[i]
<1>1. PICK r : ChainRun(r, vault, base, blocks)
  BY ChainFold
<1>2. ASSUME NEW i \in 0..Len(blocks)
      PROVE  Over(vault, base, SubSeq(blocks, 1, i)) = r[i]
  <2> DEFINE first == SubSeq(blocks, 1, i)
  <2>1. /\ first \in Seq(Seq(Contract!Call)) /\ Len(first) = i
        /\ \A j \in 1..i : first[j] = blocks[j]
    BY <1>2
  <2> HIDE DEF first
  <2>2. PICK q : ChainRun(q, vault, base, first) /\ Over(vault, base, first) = q[i]
    BY <2>1, ChainFold
  <2>3. q[0] = r[0]
    BY <1>1, <2>2 DEF ChainRun
  <2>4. ASSUME NEW j \in 1..i, q[j - 1] = r[j - 1]
        PROVE  q[j] = r[j]
    <3>1. q[j] = ApplyBlock(q[j - 1], first[j], base + j)
      BY <2>1, <2>2 DEF ChainRun
    <3>2. r[j] = ApplyBlock(r[j - 1], blocks[j], base + j)
      BY <1>1 DEF ChainRun
    <3> QED
      BY <2>1, <2>4, <3>1, <3>2
  <2>5. \A j \in 0..i : q[j] = r[j]
    <3>1. InStep(q, r, i) /\ i \in Nat
      BY <1>2, <2>3, <2>4 DEF InStep
    <3> QED
      BY <3>1, SameRun
  <2> QED
    BY <2>2, <2>5 DEF first
<1> QED
  BY <1>1, <1>2

\* A block on top.
LEMMA OverAppend ==
  ASSUME NEW vault \in Contract!Vaults, NEW base \in Nat,
         NEW blocks \in Seq(Seq(Contract!Call)), NEW txs \in Seq(Contract!Call)
  PROVE  Over(vault, base, Append(blocks, txs)) =
           ApplyBlock(Over(vault, base, blocks), txs, base + Len(blocks) + 1)
<1> DEFINE longer == Append(blocks, txs)
           n == Len(blocks)
<1>1. /\ longer \in Seq(Seq(Contract!Call)) /\ Len(longer) = n + 1 /\ n \in Nat
      /\ longer[n + 1] = txs
      /\ SubSeq(longer, 1, n) = blocks /\ SubSeq(longer, 1, n + 1) = longer
  OBVIOUS
<1> HIDE DEF longer, n
<1>2. PICK r : /\ ChainRun(r, vault, base, longer)
               /\ \A i \in 0..Len(longer) : Over(vault, base, SubSeq(longer, 1, i)) = r[i]
  BY <1>1, ChainRuns
<1>3. Over(vault, base, SubSeq(longer, 1, n)) = r[n]
      /\ Over(vault, base, SubSeq(longer, 1, n + 1)) = r[n + 1]
  BY <1>1, <1>2
<1>4. n + 1 \in 1..Len(longer) /\ (n + 1) - 1 = n /\ base + (n + 1) = base + n + 1
  BY <1>1
<1>5. r[n + 1] = ApplyBlock(r[(n + 1) - 1], longer[n + 1], base + (n + 1))
  BY <1>2, <1>4 DEF ChainRun
<1>6. Over(vault, base, longer) = ApplyBlock(Over(vault, base, blocks), txs, base + n + 1)
  BY <1>1, <1>3, <1>4, <1>5
<1> QED
  BY <1>6 DEF longer, n

\* The oldest block taken into the vault below.
LEMMA OverTail ==
  ASSUME NEW vault \in Contract!Vaults, NEW base \in Nat,
         NEW blocks \in Seq(Seq(Contract!Call)), Len(blocks) > 0
  PROVE  \A i \in 0..Len(blocks) - 1 :
           Over(ApplyBlock(vault, blocks[1], base + 1), base + 1, SubSeq(Tail(blocks), 1, i)) =
             Over(vault, base, SubSeq(blocks, 1, i + 1))
<1> DEFINE n == Len(blocks)
           rest == Tail(blocks)
           first == ApplyBlock(vault, blocks[1], base + 1)
<1>1. /\ n \in Nat /\ n > 0 /\ blocks[1] \in Seq(Contract!Call)
      /\ rest \in Seq(Seq(Contract!Call)) /\ Len(rest) = n - 1
      /\ \A i \in 1..n - 1 : rest[i] = blocks[i + 1]
  OBVIOUS
<1>2. first \in Contract!Vaults /\ base + 1 \in Nat
  BY <1>1, BlockSound
<1> HIDE DEF n, rest, first
<1>3. PICK r : /\ ChainRun(r, vault, base, blocks)
               /\ \A i \in 0..Len(blocks) : Over(vault, base, SubSeq(blocks, 1, i)) = r[i]
  BY ChainRuns
<1>4. PICK q : /\ ChainRun(q, first, base + 1, rest)
               /\ \A i \in 0..Len(rest) : Over(first, base + 1, SubSeq(rest, 1, i)) = q[i]
  BY <1>1, <1>2, ChainRuns
<1>5. PICK s : s = [i \in 0..n - 1 |-> r[i + 1]]
  OBVIOUS
<1>6. q[0] = s[0]
  <2>1. r[1] = ApplyBlock(r[0], blocks[1], base + 1) /\ r[0] = vault
    BY <1>1, <1>3 DEF ChainRun, n
  <2>2. s[0] = r[1]
    BY <1>1, <1>5
  <2>3. q[0] = first
    BY <1>4 DEF ChainRun
  <2> QED
    BY <2>1, <2>2, <2>3 DEF first
<1>7. ASSUME NEW i \in 1..n - 1, q[i - 1] = s[i - 1]
      PROVE  q[i] = s[i]
  <2>1. i \in 1..Len(rest) /\ i + 1 \in 1..n /\ (i + 1) - 1 = i /\ (i - 1) + 1 = i
        /\ i - 1 \in 0..n - 1 /\ i \in 0..n - 1 /\ base + (i + 1) = (base + 1) + i
    BY <1>1
  <2>2. q[i] = ApplyBlock(q[i - 1], rest[i], (base + 1) + i)
    BY <1>4, <2>1 DEF ChainRun
  <2>3. r[i + 1] = ApplyBlock(r[(i + 1) - 1], blocks[i + 1], base + (i + 1))
    BY <1>3, <2>1 DEF ChainRun, n
  <2>4. s[i] = r[i + 1] /\ s[i - 1] = r[i]
    BY <1>5, <2>1
  <2> QED
    BY <1>1, <1>7, <2>1, <2>2, <2>3, <2>4
<1>8. \A i \in 0..n - 1 : q[i] = s[i]
  <2>1. n - 1 \in Nat /\ InStep(q, s, n - 1)
    BY <1>1, <1>6, <1>7 DEF InStep
  <2> QED
    BY <2>1, SameRun
<1>9. ASSUME NEW i \in 0..n - 1
      PROVE  Over(first, base + 1, SubSeq(rest, 1, i)) = Over(vault, base, SubSeq(blocks, 1, i + 1))
  <2>1. i \in 0..Len(rest) /\ i + 1 \in 0..Len(blocks)
    BY <1>1 DEF n
  <2> QED
    BY <1>3, <1>4, <1>5, <1>8, <2>1
<1> QED
  BY <1>9 DEF n, rest, first

\* The vault after the first i blocks.
At(vault, base, blocks, i) == Over(vault, base, SubSeq(blocks, 1, i))

\* Every block is accepted by the vault below it.
AllAccepted(vault, base, blocks) ==
  \A i \in 1..Len(blocks) : Accepts(At(vault, base, blocks, i - 1), blocks[i], base + i)

LEMMA ChainAt ==
  ASSUME NEW vault \in Contract!Vaults, NEW base \in Nat, NEW blocks \in Seq(Seq(Contract!Call))
  PROVE  /\ At(vault, base, blocks, 0) = vault
         /\ At(vault, base, blocks, Len(blocks)) = Over(vault, base, blocks)
         /\ \A i \in 0..Len(blocks) : At(vault, base, blocks, i) \in Contract!Vaults
         /\ \A i \in 1..Len(blocks) :
              At(vault, base, blocks, i) =
                ApplyBlock(At(vault, base, blocks, i - 1), blocks[i], base + i)
<1>1. PICK r : /\ ChainRun(r, vault, base, blocks)
               /\ \A i \in 0..Len(blocks) : Over(vault, base, SubSeq(blocks, 1, i)) = r[i]
  BY ChainRuns
<1>2. Len(blocks) \in Nat /\ SubSeq(blocks, 1, Len(blocks)) = blocks
  OBVIOUS
<1>3. \A i \in 0..Len(blocks) : At(vault, base, blocks, i) = r[i]
  BY <1>1 DEF At
<1>4. \A i \in 1..Len(blocks) : i \in 0..Len(blocks) /\ i - 1 \in 0..Len(blocks)
  BY <1>2
<1>5. 0 \in 0..Len(blocks) /\ Len(blocks) \in 0..Len(blocks)
  BY <1>2
<1>6. At(vault, base, blocks, 0) = vault
  BY <1>1, <1>3, <1>5 DEF ChainRun
<1>7. At(vault, base, blocks, Len(blocks)) = Over(vault, base, blocks)
  BY <1>2 DEF At
<1>8. \A i \in 0..Len(blocks) : At(vault, base, blocks, i) \in Contract!Vaults
  BY <1>1, <1>3 DEF ChainRun
<1>9. ASSUME NEW i \in 1..Len(blocks)
      PROVE  At(vault, base, blocks, i) =
               ApplyBlock(At(vault, base, blocks, i - 1), blocks[i], base + i)
  <2>1. r[i] = ApplyBlock(r[i - 1], blocks[i], base + i)
    BY <1>1 DEF ChainRun
  <2> QED
    BY <1>3, <1>4, <2>1
<1> QED
  BY <1>6, <1>7, <1>8, <1>9

LEMMA ChainSound ==
  ASSUME NEW vault \in Contract!Vaults, NEW base \in Nat, NEW blocks \in Seq(Seq(Contract!Call)),
         Sound(vault)
  PROVE  \A i \in 0..Len(blocks) : Sound(At(vault, base, blocks, i))
<1> DEFINE S == {i \in 0..Len(blocks) : Sound(At(vault, base, blocks, i))}
<1>1. Len(blocks) \in Nat /\ 0 \in S
  BY ChainAt
<1>2. ASSUME NEW i \in 1..Len(blocks), i - 1 \in S
      PROVE  i \in S
  <2>1. blocks[i] \in Seq(Contract!Call) /\ base + i \in Nat /\ i \in 0..Len(blocks)
        /\ i - 1 \in 0..Len(blocks)
    OBVIOUS
  <2>2. At(vault, base, blocks, i - 1) \in Contract!Vaults
    BY <2>1, ChainAt
  <2>3. At(vault, base, blocks, i) =
          ApplyBlock(At(vault, base, blocks, i - 1), blocks[i], base + i)
    BY ChainAt
  <2>4. Sound(At(vault, base, blocks, i))
    BY <1>2, <2>1, <2>2, <2>3, BlockSound
  <2> QED
    BY <2>1, <2>4
<1>3. 0..Len(blocks) \subseteq S
  <2> HIDE DEF S
  <2> QED
    BY <1>1, <1>2, IntervalInduction
<1> QED
  BY <1>3

\* What one block of the chain adds to the nonces.
LEMMA ChainStep ==
  ASSUME NEW vault \in Contract!Vaults, NEW base \in Nat, NEW blocks \in Seq(Seq(Contract!Call)),
         AllAccepted(vault, base, blocks), NEW i \in 1..Len(blocks)
  PROVE  /\ At(vault, base, blocks, i).processed =
              At(vault, base, blocks, i - 1).processed \union Executes(blocks[i])
         /\ At(vault, base, blocks, i).cancelled =
              At(vault, base, blocks, i - 1).cancelled \union Cancels(blocks[i])
         /\ \A tx \in ToSet(blocks[i]) :
              tx.nonce \notin At(vault, base, blocks, i - 1).processed
<1>1. blocks[i] \in Seq(Contract!Call) /\ base + i \in Nat /\ i - 1 \in 0..Len(blocks)
  OBVIOUS
<1>2. Accepts(At(vault, base, blocks, i - 1), blocks[i], base + i)
  BY DEF AllAccepted
<1>3. At(vault, base, blocks, i - 1) \in Contract!Vaults
  BY <1>1, ChainAt
<1>4. At(vault, base, blocks, i) = ApplyBlock(At(vault, base, blocks, i - 1), blocks[i], base + i)
  BY ChainAt
<1> QED
  BY <1>1, <1>2, <1>3, <1>4, BlockNonces

\* Nonces are never given back, and each was used by a call of some block.
LEMMA ChainGrows ==
  ASSUME NEW vault \in Contract!Vaults, NEW base \in Nat, NEW blocks \in Seq(Seq(Contract!Call)),
         AllAccepted(vault, base, blocks), NEW i \in 0..Len(blocks), NEW j \in i..Len(blocks)
  PROVE  /\ At(vault, base, blocks, i).processed \subseteq At(vault, base, blocks, j).processed
         /\ At(vault, base, blocks, i).cancelled \subseteq At(vault, base, blocks, j).cancelled
         /\ \A n \in At(vault, base, blocks, j).processed \ At(vault, base, blocks, i).processed :
              \E m \in i + 1..j : n \in Executes(blocks[m])
<1> DEFINE A(k) == At(vault, base, blocks, k)
           S == {k \in 0..Len(blocks) : i <= k =>
                   /\ A(i).processed \subseteq A(k).processed
                   /\ A(i).cancelled \subseteq A(k).cancelled
                   /\ \A n \in A(k).processed \ A(i).processed :
                        \E m \in i + 1..k : n \in Executes(blocks[m])}
<1>1. Len(blocks) \in Nat /\ 0 \in S
  OBVIOUS
<1>2. ASSUME NEW k \in 1..Len(blocks), k - 1 \in S
      PROVE  k \in S
  <2>1. CASE i <= k - 1
    <3>1. A(k).processed = A(k - 1).processed \union Executes(blocks[k])
          /\ A(k).cancelled = A(k - 1).cancelled \union Cancels(blocks[k])
      BY ChainStep
    <3> HIDE DEF A
    <3>2. k \in i + 1..k /\ \A m \in i + 1..k - 1 : m \in i + 1..k
      BY <1>1, <2>1
    <3>3. /\ A(i).processed \subseteq A(k - 1).processed
          /\ A(i).cancelled \subseteq A(k - 1).cancelled
          /\ \A n \in A(k - 1).processed \ A(i).processed :
               \E m \in i + 1..k - 1 : n \in Executes(blocks[m])
      BY <1>2, <2>1
    <3>4. k \in 0..Len(blocks)
      BY <1>1
    <3> QED
      BY <3>1, <3>2, <3>3, <3>4
  <2>2. CASE ~(i <= k - 1)
    <3>1. i <= k => i = k
      BY <1>1, <2>2
    <3> QED
      BY <1>1, <3>1
  <2> QED
    BY <2>1, <2>2
<1>3. 0..Len(blocks) \subseteq S
  <2> HIDE DEF S
  <2> QED
    BY <1>1, <1>2, IntervalInduction
<1>4. j \in 0..Len(blocks) /\ i <= j
  BY <1>1
<1> QED
  BY <1>3, <1>4

\* A chain of which the last blocks are dropped.
LEMMA KeptChain ==
  ASSUME NEW vault \in Contract!Vaults, NEW base \in Nat, NEW blocks \in Seq(Seq(Contract!Call)),
         NEW k \in 0..Len(blocks)
  PROVE  /\ SubSeq(blocks, 1, k) \in Seq(Seq(Contract!Call)) /\ Len(SubSeq(blocks, 1, k)) = k
         /\ \A i \in 1..k : SubSeq(blocks, 1, k)[i] = blocks[i]
         /\ \A i \in 0..k : At(vault, base, SubSeq(blocks, 1, k), i) = At(vault, base, blocks, i)
         /\ AllAccepted(vault, base, blocks) => AllAccepted(vault, base, SubSeq(blocks, 1, k))
<1> DEFINE kept == SubSeq(blocks, 1, k)
<1>1. kept \in Seq(Seq(Contract!Call)) /\ Len(kept) = k /\ k \in Nat
      /\ \A i \in 1..k : kept[i] = blocks[i]
  OBVIOUS
<1>2. \A i \in 0..k : SubSeq(kept, 1, i) = SubSeq(blocks, 1, i)
  OBVIOUS
<1> HIDE DEF kept
<1>3. \A i \in 0..k : At(vault, base, kept, i) = At(vault, base, blocks, i)
  BY <1>2 DEF At
<1>4. ASSUME AllAccepted(vault, base, blocks), NEW i \in 1..Len(kept)
      PROVE  Accepts(At(vault, base, kept, i - 1), kept[i], base + i)
  <2>1. i \in 1..k /\ i - 1 \in 0..k /\ i \in 1..Len(blocks)
    BY <1>1
  <2> QED
    BY <1>1, <1>3, <1>4, <2>1 DEF AllAccepted
<1>5. AllAccepted(vault, base, blocks) => AllAccepted(vault, base, kept)
  BY <1>4 DEF AllAccepted
<1> QED
  BY <1>1, <1>3, <1>5 DEF kept

\* One more block.
LEMMA LongerChain ==
  ASSUME NEW vault \in Contract!Vaults, NEW base \in Nat, NEW blocks \in Seq(Seq(Contract!Call)),
         NEW txs \in Seq(Contract!Call)
  PROVE  /\ Append(blocks, txs) \in Seq(Seq(Contract!Call))
         /\ Len(Append(blocks, txs)) = Len(blocks) + 1
         /\ Append(blocks, txs)[Len(blocks) + 1] = txs
         /\ \A i \in 1..Len(blocks) : Append(blocks, txs)[i] = blocks[i]
         /\ \A i \in 0..Len(blocks) :
              At(vault, base, Append(blocks, txs), i) = At(vault, base, blocks, i)
         /\ AllAccepted(vault, base, blocks)
              /\ Accepts(Over(vault, base, blocks), txs, base + Len(blocks) + 1)
              => AllAccepted(vault, base, Append(blocks, txs))
<1> DEFINE longer == Append(blocks, txs)
           n == Len(blocks)
<1>1. longer \in Seq(Seq(Contract!Call)) /\ Len(longer) = n + 1 /\ n \in Nat
      /\ longer[n + 1] = txs /\ \A i \in 1..n : longer[i] = blocks[i]
  OBVIOUS
<1>2. \A i \in 0..n : SubSeq(longer, 1, i) = SubSeq(blocks, 1, i)
  OBVIOUS
<1>3. At(vault, base, blocks, n) = Over(vault, base, blocks)
  BY ChainAt
<1> HIDE DEF longer, n
<1>4. \A i \in 0..n : At(vault, base, longer, i) = At(vault, base, blocks, i)
  BY <1>2 DEF At
<1>5. ASSUME AllAccepted(vault, base, blocks), NEW i \in 1..Len(longer),
             Accepts(Over(vault, base, blocks), txs, base + n + 1)
      PROVE  Accepts(At(vault, base, longer, i - 1), longer[i], base + i)
  <2>1. CASE i = n + 1
    <3>1. i - 1 = n /\ n \in 0..n /\ base + i = base + n + 1
      BY <1>1, <2>1
    <3> QED
      BY <1>1, <1>3, <1>4, <1>5, <2>1, <3>1
  <2>2. CASE i # n + 1
    <3>1. i \in 1..n /\ i - 1 \in 0..n
      BY <1>1, <2>2
    <3> QED
      BY <1>1, <1>4, <1>5, <3>1 DEF AllAccepted, n
  <2> QED
    BY <2>1, <2>2
<1>6. AllAccepted(vault, base, blocks) /\ Accepts(Over(vault, base, blocks), txs, base + n + 1)
      => AllAccepted(vault, base, longer)
  BY <1>5 DEF AllAccepted
<1> QED
  BY <1>1, <1>4, <1>6 DEF longer, n

\* The oldest block final.
LEMMA FinalisedChain ==
  ASSUME NEW vault \in Contract!Vaults, NEW base \in Nat, NEW blocks \in Seq(Seq(Contract!Call)),
         Len(blocks) > 0
  PROVE  /\ Tail(blocks) \in Seq(Seq(Contract!Call)) /\ Len(Tail(blocks)) = Len(blocks) - 1
         /\ \A i \in 1..Len(blocks) - 1 : Tail(blocks)[i] = blocks[i + 1]
         /\ ApplyBlock(vault, blocks[1], base + 1) = At(vault, base, blocks, 1)
         /\ \A i \in 0..Len(blocks) - 1 :
              At(At(vault, base, blocks, 1), base + 1, Tail(blocks), i) =
                At(vault, base, blocks, i + 1)
         /\ AllAccepted(vault, base, blocks) =>
              AllAccepted(At(vault, base, blocks, 1), base + 1, Tail(blocks))
<1> DEFINE rest == Tail(blocks)
           n == Len(blocks)
           first == At(vault, base, blocks, 1)
<1>1. rest \in Seq(Seq(Contract!Call)) /\ Len(rest) = n - 1 /\ n \in Nat /\ n > 0
      /\ \A i \in 1..n - 1 : rest[i] = blocks[i + 1]
  OBVIOUS
<1>2. ApplyBlock(vault, blocks[1], base + 1) = first
  <2>1. At(vault, base, blocks, 1) = ApplyBlock(At(vault, base, blocks, 1 - 1), blocks[1], base + 1)
    <3>1. 1 \in 1..Len(blocks)
      BY <1>1
    <3>2. \A i \in 1..Len(blocks) : At(vault, base, blocks, i) =
            ApplyBlock(At(vault, base, blocks, i - 1), blocks[i], base + i)
      BY ChainAt
    <3> QED
      BY <3>1, <3>2, Zenon
  <2>2. At(vault, base, blocks, 0) = vault /\ 1 - 1 = 0
    BY ChainAt
  <2> QED
    BY <2>1, <2>2
<1>3. \A i \in 0..n - 1 : At(first, base + 1, rest, i) = At(vault, base, blocks, i + 1)
  BY <1>2, OverTail DEF At
<1> HIDE DEF rest, n, first
<1>4. ASSUME AllAccepted(vault, base, blocks), NEW i \in 1..Len(rest)
      PROVE  Accepts(At(first, base + 1, rest, i - 1), rest[i], (base + 1) + i)
  <2>1. i \in 1..n - 1 /\ i - 1 \in 0..n - 1 /\ (i - 1) + 1 = i /\ i + 1 \in 1..n
        /\ (i + 1) - 1 = i /\ base + (i + 1) = (base + 1) + i
    BY <1>1
  <2>2. At(first, base + 1, rest, i - 1) = At(vault, base, blocks, i)
    BY <1>3, <2>1
  <2>3. Accepts(At(vault, base, blocks, (i + 1) - 1), blocks[i + 1], base + (i + 1))
    BY <1>4, <2>1 DEF AllAccepted, n
  <2> QED
    BY <1>1, <2>1, <2>2, <2>3
<1>5. AllAccepted(vault, base, blocks) => AllAccepted(first, base + 1, rest)
  BY <1>4 DEF AllAccepted
<1> QED
  BY <1>1, <1>2, <1>3, <1>5 DEF rest, n, first

-----------------------------------------------------------------------------
(* Receipts *)

Reasons == {"none", "expired", "zero_amount", "market_settled", "not_yet_expired"}

Receipt == [processed : BOOLEAN, finalized : BOOLEAN, height : 0..MaxHeight, rejected : Reasons]

LEMMA NewReceipt ==
  ASSUME NEW height \in 0..MaxHeight
  PROVE  /\ NoReceipt \in Receipt
         /\ [NoReceipt EXCEPT !.processed = TRUE, !.height = height] \in Receipt
<1>1. NoReceipt \in Receipt
  BY HeightAssumption DEF NoReceipt, Receipt, Reasons
<1>2. ASSUME NEW r \in Receipt
      PROVE  [r EXCEPT !.processed = TRUE, !.height = height] \in Receipt
  BY DEF Receipt
<1> QED
  BY <1>1, <1>2

\* What the receipt of an executed call and that of a refused one say.
LEMMA ReceiptFields ==
  ASSUME NEW r \in Receipt, NEW height, NEW reason
  PROVE  /\ [r EXCEPT !.processed = TRUE, !.height = height].processed = TRUE
         /\ [r EXCEPT !.processed = TRUE, !.height = height].finalized = r.finalized
         /\ [r EXCEPT !.processed = TRUE, !.height = height].height = height
         /\ [r EXCEPT !.rejected = reason].processed = r.processed
         /\ [r EXCEPT !.rejected = reason].finalized = r.finalized
         /\ reason \in Reasons => [r EXCEPT !.rejected = reason] \in Receipt
         /\ [r EXCEPT !.finalized = TRUE].processed = r.processed
         /\ [r EXCEPT !.finalized = TRUE].finalized = TRUE
         /\ [r EXCEPT !.finalized = TRUE] \in Receipt
<1>1. /\ [r EXCEPT !.processed = TRUE, !.height = height].processed = TRUE
      /\ [r EXCEPT !.processed = TRUE, !.height = height].finalized = r.finalized
      /\ [r EXCEPT !.processed = TRUE, !.height = height].height = height
  BY Zenon DEF Receipt
<1>2. /\ [r EXCEPT !.rejected = reason].processed = r.processed
      /\ [r EXCEPT !.rejected = reason].finalized = r.finalized
      /\ [r EXCEPT !.finalized = TRUE].processed = r.processed
      /\ [r EXCEPT !.finalized = TRUE].finalized = TRUE
  BY Zenon DEF Receipt
<1>3. reason \in Reasons => [r EXCEPT !.rejected = reason] \in Receipt
  BY DEF Receipt
<1>4. [r EXCEPT !.finalized = TRUE] \in Receipt
  BY DEF Receipt
<1> QED
  BY <1>1, <1>2, <1>3, <1>4

\* The receipts say which nonces the blocks above a final vault have executed.
Recorded(recs, vault, base, blocks) ==
  \A n \in Nonces :
    /\ recs[n].finalized <=> n \in vault.processed
    /\ recs[n].processed <=> n \in Over(vault, base, blocks).processed
    /\ recs[n].processed /\ ~recs[n].finalized =>
         /\ recs[n].height - base \in 1..Len(blocks)
         /\ n \in Executes(blocks[recs[n].height - base])

\* A reorg deletes the receipts of the nonces in the blocks it drops, and those
\* alone.
LEMMA ReorgRecorded ==
  ASSUME NEW vault \in Contract!Vaults, NEW base \in Nat, NEW blocks \in Seq(Seq(Contract!Call)),
         AllAccepted(vault, base, blocks), NEW recs, Recorded(recs, vault, base, blocks),
         NEW k \in 0..Len(blocks), NEW left \in [Nonces -> Receipt],
         \A n \in Nonces : left[n] =
           IF \E i \in k + 1..Len(blocks) : \E tx \in ToSet(blocks[i]) : tx.nonce = n
           THEN NoReceipt ELSE recs[n]
  PROVE  Recorded(left, vault, base, SubSeq(blocks, 1, k))
<1> DEFINE kept == SubSeq(blocks, 1, k)
           A(i) == At(vault, base, blocks, i)
<1>1. /\ Len(blocks) \in Nat /\ Len(kept) = k /\ k \in Nat
      /\ \A i \in 1..k : kept[i] = blocks[i]
      /\ k \in 0..Len(blocks) /\ Len(blocks) \in k..Len(blocks) /\ Len(blocks) \in 0..Len(blocks)
      /\ 0 \in 0..Len(blocks) /\ k \in 0..Len(blocks)
  BY KeptChain
<1>2. Over(vault, base, kept) = A(k) /\ A(0) = vault /\ Over(vault, base, blocks) = A(Len(blocks))
  BY ChainAt DEF At
<1>3. A(0).processed \subseteq A(k).processed
  BY <1>1, ChainGrows
<1>4. /\ A(k).processed \subseteq A(Len(blocks)).processed
      /\ \A n \in A(Len(blocks)).processed \ A(k).processed :
           \E m \in k + 1..Len(blocks) : n \in Executes(blocks[m])
  BY <1>1, ChainGrows
<1>5. ASSUME NEW i \in k + 1..Len(blocks), NEW tx \in ToSet(blocks[i])
      PROVE  tx.nonce \notin A(k).processed
  <2>1. i \in 1..Len(blocks) /\ i - 1 \in k..Len(blocks)
    BY <1>1
  <2>2. tx.nonce \notin A(i - 1).processed
    BY <2>1, ChainStep
  <2>3. A(k).processed \subseteq A(i - 1).processed
    BY <1>1, <2>1, ChainGrows
  <2> QED
    BY <2>2, <2>3
<1> HIDE DEF A, kept
<1>6. ASSUME NEW n \in Nonces
      PROVE  /\ left[n].finalized <=> n \in vault.processed
             /\ left[n].processed <=> n \in A(k).processed
             /\ left[n].processed /\ ~left[n].finalized =>
                  /\ left[n].height - base \in 1..Len(kept)
                  /\ n \in Executes(kept[left[n].height - base])
  <2>1. CASE \E i \in k + 1..Len(blocks) : \E tx \in ToSet(blocks[i]) : tx.nonce = n
    <3>1. left[n] = NoReceipt
      BY <2>1
    <3>2. n \notin A(k).processed
      BY <1>5, <2>1
    <3> QED
      BY <1>2, <1>3, <3>1, <3>2 DEF NoReceipt
  <2>2. CASE ~\E i \in k + 1..Len(blocks) : \E tx \in ToSet(blocks[i]) : tx.nonce = n
    <3>1. left[n] = recs[n]
      BY <2>2
    <3>2. \A i \in k + 1..Len(blocks) : n \notin Executes(blocks[i])
      BY <2>2 DEF Executes
    <3>3. /\ recs[n].finalized <=> n \in vault.processed
          /\ recs[n].processed <=> n \in A(Len(blocks)).processed
          /\ recs[n].processed /\ ~recs[n].finalized =>
               /\ recs[n].height - base \in 1..Len(blocks)
               /\ n \in Executes(blocks[recs[n].height - base])
      BY <1>2 DEF Recorded
    <3>4. n \in A(Len(blocks)).processed <=> n \in A(k).processed
      BY <1>4, <3>2
    <3>5. ASSUME left[n].processed, ~left[n].finalized
          PROVE  /\ left[n].height - base \in 1..Len(kept)
                 /\ n \in Executes(kept[left[n].height - base])
      <4> DEFINE i == left[n].height - base
      <4>1. i \in 1..Len(blocks) /\ n \in Executes(blocks[i])
        BY <3>1, <3>3, <3>5
      <4>2. i \in 1..k
        <5> HIDE DEF i
        <5> QED
          BY <1>1, <3>2, <4>1
      <4> HIDE DEF i
      <4>3. i \in 1..Len(kept) /\ n \in Executes(kept[i])
        BY <1>1, <4>1, <4>2
      <4> QED
        BY <4>3 DEF i
    <3> QED
      BY <3>1, <3>3, <3>4, <3>5
  <2> QED
    BY <2>1, <2>2
<1> QED
  BY <1>2, <1>6 DEF Recorded, kept

\* A refusal leaves a receipt on no nonce that has executed.
LEMMA RefusalsRecorded ==
  ASSUME NEW vault \in Contract!Vaults, NEW base \in Nat, NEW blocks \in Seq(Seq(Contract!Call)),
         AllAccepted(vault, base, blocks), NEW recs, Recorded(recs, vault, base, blocks),
         NEW after,
         \A n \in Nonces : \/ after[n] = recs[n]
                           \/ /\ ~after[n].processed /\ ~after[n].finalized
                              /\ n \notin Over(vault, base, blocks).processed
  PROVE  Recorded(after, vault, base, blocks)
<1>1. 0 \in 0..Len(blocks) /\ Len(blocks) \in 0..Len(blocks)
  OBVIOUS
<1>2. vault.processed \subseteq Over(vault, base, blocks).processed
  <2>1. At(vault, base, blocks, 0) = vault
        /\ At(vault, base, blocks, Len(blocks)) = Over(vault, base, blocks)
    BY ChainAt
  <2>2. At(vault, base, blocks, 0).processed \subseteq At(vault, base, blocks, Len(blocks)).processed
    BY <1>1, ChainGrows
  <2> QED
    BY <2>1, <2>2
<1>3. ASSUME NEW n \in Nonces, after[n] = recs[n]
      PROVE  /\ after[n].finalized <=> n \in vault.processed
             /\ after[n].processed <=> n \in Over(vault, base, blocks).processed
             /\ after[n].processed /\ ~after[n].finalized =>
                  /\ after[n].height - base \in 1..Len(blocks)
                  /\ n \in Executes(blocks[after[n].height - base])
  BY <1>3 DEF Recorded
<1>4. ASSUME NEW n \in Nonces, ~after[n].processed, ~after[n].finalized,
             n \notin Over(vault, base, blocks).processed
      PROVE  /\ after[n].finalized <=> n \in vault.processed
             /\ after[n].processed <=> n \in Over(vault, base, blocks).processed
  BY <1>2, <1>4
<1> QED
  BY <1>3, <1>4 DEF Recorded

\* The receipts of a new block name its height.
LEMMA ExecutedRecorded ==
  ASSUME NEW vault \in Contract!Vaults, NEW base \in Nat, NEW blocks \in Seq(Seq(Contract!Call)),
         NEW txs \in Seq(Contract!Call), AllAccepted(vault, base, blocks),
         Accepts(Over(vault, base, blocks), txs, base + Len(blocks) + 1),
         NEW recs, Recorded(recs, vault, base, blocks)
  PROVE  Recorded(Executed(recs, txs, base + Len(blocks) + 1), vault, base, Append(blocks, txs))
<1> DEFINE height == base + Len(blocks) + 1
           longer == Append(blocks, txs)
           after == Executed(recs, txs, height)
           top == Over(vault, base, blocks)
<1>1. /\ Len(blocks) \in Nat /\ Len(longer) = Len(blocks) + 1
      /\ longer[Len(blocks) + 1] = txs /\ \A i \in 1..Len(blocks) : longer[i] = blocks[i]
  BY LongerChain
<1>2. height \in Nat /\ height - base = Len(blocks) + 1 /\ Len(blocks) + 1 \in 1..Len(longer)
  BY <1>1
<1>3. top \in Contract!Vaults
  <2>1. Len(blocks) \in 0..Len(blocks)
    BY <1>1
  <2>2. top = At(vault, base, blocks, Len(blocks))
    BY ChainAt
  <2> QED
    BY <2>1, <2>2, ChainAt
<1>4. Over(vault, base, longer).processed = top.processed \union Executes(txs)
  <2>1. Over(vault, base, longer) = ApplyBlock(top, txs, height)
    BY OverAppend
  <2> QED
    BY <1>2, <1>3, <2>1, BlockNonces
<1>5. \A n \in Executes(txs) : n \notin top.processed
  BY <1>2, <1>3, BlockNonces DEF Executes
<1>6. vault.processed \subseteq top.processed
  <2>1. 0 \in 0..Len(blocks) /\ Len(blocks) \in 0..Len(blocks)
    BY <1>1
  <2>2. At(vault, base, blocks, 0) = vault /\ At(vault, base, blocks, Len(blocks)) = top
    BY ChainAt
  <2>3. At(vault, base, blocks, 0).processed \subseteq At(vault, base, blocks, Len(blocks)).processed
    BY <2>1, ChainGrows
  <2> QED
    BY <2>2, <2>3
<1>7. \A n \in Nonces : after[n] =
        IF n \in Executes(txs)
        THEN [NoReceipt EXCEPT !.processed = TRUE, !.height = height] ELSE recs[n]
  <2> SUFFICES ASSUME NEW n \in Nonces
               PROVE  after[n] = IF n \in Executes(txs)
                 THEN [NoReceipt EXCEPT !.processed = TRUE, !.height = height] ELSE recs[n]
    OBVIOUS
  <2> QED
    BY Zenon DEF Executed, Executes
<1> HIDE DEF height, longer, after, top
<1>8. ASSUME NEW n \in Nonces
      PROVE  /\ after[n].finalized <=> n \in vault.processed
             /\ after[n].processed <=> n \in Over(vault, base, longer).processed
             /\ after[n].processed /\ ~after[n].finalized =>
                  /\ after[n].height - base \in 1..Len(longer)
                  /\ n \in Executes(longer[after[n].height - base])
  <2>1. CASE n \in Executes(txs)
    <3>1. after[n].processed /\ ~after[n].finalized /\ after[n].height = height
      <4>1. after[n] = [NoReceipt EXCEPT !.processed = TRUE, !.height = height]
        BY <1>7, <2>1, Zenon
      <4>2. NoReceipt \in Receipt /\ ~NoReceipt.finalized
        BY HeightAssumption DEF NoReceipt, Receipt, Reasons
      <4>3. PICK r \in Receipt : r = NoReceipt
        BY <4>2
      <4>4. after[n] = [r EXCEPT !.processed = TRUE, !.height = height]
        BY <4>1, <4>3, Zenon
      <4>5. /\ [r EXCEPT !.processed = TRUE, !.height = height].processed = TRUE
            /\ [r EXCEPT !.processed = TRUE, !.height = height].finalized = r.finalized
            /\ [r EXCEPT !.processed = TRUE, !.height = height].height = height
        BY ReceiptFields, Zenon
      <4> QED
        BY <4>2, <4>3, <4>4, <4>5, Zenon
    <3>2. n \notin vault.processed /\ n \in Over(vault, base, longer).processed
      BY <1>4, <1>5, <1>6, <2>1
    <3>3. after[n].height - base = Len(blocks) + 1
      BY <1>2, <3>1
    <3> QED
      BY <1>1, <1>2, <2>1, <3>1, <3>2, <3>3
  <2>2. CASE n \notin Executes(txs)
    <3>1. after[n] = recs[n]
      BY <1>7, <2>2
    <3>2. /\ recs[n].finalized <=> n \in vault.processed
          /\ recs[n].processed <=> n \in top.processed
          /\ recs[n].processed /\ ~recs[n].finalized =>
               /\ recs[n].height - base \in 1..Len(blocks)
               /\ n \in Executes(blocks[recs[n].height - base])
      BY DEF Recorded, top
    <3>3. n \in Over(vault, base, longer).processed <=> n \in top.processed
      BY <1>4, <2>2
    <3>4. \A i \in 1..Len(blocks) : i \in 1..Len(longer) /\ longer[i] = blocks[i]
      BY <1>1
    <3> QED
      BY <3>1, <3>2, <3>3, <3>4
  <2> QED
    BY <2>1, <2>2
<1>9. Recorded(after, vault, base, longer)
  BY <1>8 DEF Recorded
<1> QED
  BY <1>9 DEF after, height, longer

\* The receipts of the oldest block turn final with it: none of them is of a
\* nonce that was cancelled and then executed, or the other way round.
LEMMA SettledRecorded ==
  ASSUME NEW vault \in Contract!Vaults, NEW base \in Nat, NEW blocks \in Seq(Seq(Contract!Call)),
         Len(blocks) > 0, AllAccepted(vault, base, blocks), Sound(vault),
         NEW recs \in [Nonces -> Receipt], Recorded(recs, vault, base, blocks)
  PROVE  Recorded(Settled(recs, blocks[1]), ApplyBlock(vault, blocks[1], base + 1),
                  base + 1, Tail(blocks))
<1> DEFINE rest == Tail(blocks)
           A(i) == At(vault, base, blocks, i)
           after == Settled(recs, blocks[1])
           touched(n) == \E tx \in ToSet(blocks[1]) : tx.nonce = n
<1>1. /\ Len(blocks) \in Nat /\ Len(rest) = Len(blocks) - 1
      /\ \A i \in 1..Len(blocks) - 1 : rest[i] = blocks[i + 1]
      /\ ApplyBlock(vault, blocks[1], base + 1) = A(1)
      /\ \A i \in 0..Len(blocks) - 1 : At(A(1), base + 1, rest, i) = A(i + 1)
      /\ rest \in Seq(Seq(Contract!Call))
  <2>1. /\ Len(rest) = Len(blocks) - 1 /\ rest \in Seq(Seq(Contract!Call))
        /\ \A i \in 1..Len(blocks) - 1 : rest[i] = blocks[i + 1]
        /\ ApplyBlock(vault, blocks[1], base + 1) = At(vault, base, blocks, 1)
    BY FinalisedChain
  <2>2. \A i \in 0..Len(blocks) - 1 :
          At(At(vault, base, blocks, 1), base + 1, rest, i) = At(vault, base, blocks, i + 1)
    BY FinalisedChain
  <2> QED
    BY <2>1, <2>2
<1>2. 1 \in 1..Len(blocks) /\ 1 \in 0..Len(blocks) /\ Len(blocks) \in 1..Len(blocks)
      /\ Len(blocks) \in 0..Len(blocks) /\ base + 1 \in Nat
  BY <1>1
<1>3. A(0) = vault /\ A(Len(blocks)) = Over(vault, base, blocks)
      /\ A(1) \in Contract!Vaults
  BY <1>2, ChainAt
<1>4. Over(A(1), base + 1, rest) = A(Len(blocks))
  <2>1. At(A(1), base + 1, rest, Len(rest)) = Over(A(1), base + 1, rest)
    BY <1>1, <1>2, <1>3, ChainAt
  <2>2. Len(blocks) - 1 \in 0..Len(blocks) - 1 /\ (Len(blocks) - 1) + 1 = Len(blocks)
    BY <1>1, <1>2
  <2> HIDE DEF A, rest
  <2> QED
    BY <1>1, <2>1, <2>2
<1>5. A(1).processed = vault.processed \union Executes(blocks[1])
      /\ A(1).cancelled = vault.cancelled \union Cancels(blocks[1])
  <2> HIDE DEF A, rest, after, touched
  <2>1. ASSUME NEW i \in 1..Len(blocks)
        PROVE  /\ At(vault, base, blocks, i).processed =
                     At(vault, base, blocks, i - 1).processed \union Executes(blocks[i])
               /\ At(vault, base, blocks, i).cancelled =
                     At(vault, base, blocks, i - 1).cancelled \union Cancels(blocks[i])
    BY ONLY vault \in Contract!Vaults, base \in Nat, blocks \in Seq(Seq(Contract!Call)),
            AllAccepted(vault, base, blocks), i \in 1..Len(blocks), ChainStep
  <2>2. 1 - 1 = 0
    OBVIOUS
  <2>3. A(0) = At(vault, base, blocks, 0) /\ A(1) = At(vault, base, blocks, 1)
    BY DEF A
  <2> QED
    BY <1>2, <1>3, <2>1, <2>2, <2>3
<1>6. /\ A(1).processed \subseteq A(Len(blocks)).processed
      /\ A(1).cancelled \subseteq A(Len(blocks)).cancelled
  BY <1>2, ChainGrows
<1>7. A(Len(blocks)).processed \intersect A(Len(blocks)).cancelled = {}
  BY <1>2, ChainSound DEF Sound
<1>8. \A n \in Nonces : after[n] =
        IF recs[n].processed /\ touched(n) THEN [recs[n] EXCEPT !.finalized = TRUE] ELSE recs[n]
  BY DEF Settled
<1>9. \A n \in Nonces : touched(n) /\ n \in A(Len(blocks)).processed => n \in Executes(blocks[1])
  <2>1. \A n \in Nonces : touched(n) => n \in Executes(blocks[1]) \/ n \in Cancels(blocks[1])
    BY DEF Executes, Cancels
  <2> HIDE DEF A, touched
  <2> QED
    BY <1>5, <1>6, <1>7, <2>1
<1>10. \A n \in Executes(blocks[1]) : touched(n)
  BY DEF Executes
<1> HIDE DEF A, rest, after, touched
<1>11. ASSUME NEW n \in Nonces
       PROVE  /\ after[n].finalized <=> n \in A(1).processed
              /\ after[n].processed <=> n \in A(Len(blocks)).processed
              /\ after[n].processed /\ ~after[n].finalized =>
                   /\ after[n].height - (base + 1) \in 1..Len(rest)
                   /\ n \in Executes(rest[after[n].height - (base + 1)])
  <2>1. /\ recs[n].finalized <=> n \in vault.processed
        /\ recs[n].processed <=> n \in A(Len(blocks)).processed
        /\ recs[n].processed /\ ~recs[n].finalized =>
             /\ recs[n].height - base \in 1..Len(blocks)
             /\ n \in Executes(blocks[recs[n].height - base])
    BY <1>3 DEF Recorded
  <2>2. CASE recs[n].processed /\ touched(n)
    <3>1. after[n] = [recs[n] EXCEPT !.finalized = TRUE]
      BY <1>8, <2>2
    <3>2. n \in Executes(blocks[1])
      BY <1>9, <2>1, <2>2
    <3> QED
      BY <1>5, <2>1, <2>2, <3>1, <3>2
  <2>3. CASE ~(recs[n].processed /\ touched(n))
    <3>1. after[n] = recs[n]
      BY <1>8, <2>3
    <3>2. n \notin Executes(blocks[1])
      BY <1>5, <1>6, <1>10, <2>1, <2>3
    <3>3. n \in A(1).processed <=> n \in vault.processed
      BY <1>5, <3>2
    <3>4. ASSUME recs[n].processed, ~recs[n].finalized
          PROVE  /\ recs[n].height - (base + 1) \in 1..Len(rest)
                 /\ n \in Executes(rest[recs[n].height - (base + 1)])
      <4>1. PICK i \in 1..Len(blocks) : i = recs[n].height - base
        BY <2>1, <3>4
      <4>2. n \in Executes(blocks[i])
        BY <2>1, <3>4, <4>1
      <4>3. i # 1
        BY <3>2, <4>2
      <4>4. i - 1 \in 1..Len(blocks) - 1 /\ (i - 1) + 1 = i
        BY <1>1, <4>3
      <4>5. n \in Executes(rest[i - 1])
        BY <1>1, <4>2, <4>4
      <4>6. recs[n].height - (base + 1) = i - 1
        <5>1. recs[n].height \in Int
          BY DEF Receipt
        <5> QED
          BY <4>1, <5>1
      <4> QED
        BY <1>1, <4>4, <4>5, <4>6
    <3> QED
      BY <2>1, <3>1, <3>3, <3>4
  <2> QED
    BY <2>2, <2>3
<1>12. Recorded(after, A(1), base + 1, rest)
  BY <1>4, <1>11 DEF Recorded
<1> QED
  BY <1>1, <1>12 DEF after, rest

-----------------------------------------------------------------------------
(* A block is assembled *)

\* What one call of the pool does to the block in the making.
Take(b, tx, height) ==
  LET verdict == Verdict(b.vault, tx, height)
  IN CASE verdict = "ok" ->
            [b EXCEPT !.vault = ApplyTx(@, tx, height), !.txs = Append(@, tx)]
       [] verdict \in {"transient", "already_processed"} -> b
       [] OTHER ->
            [b EXCEPT !.recs[tx.nonce] = [NoReceipt EXCEPT !.rejected = verdict]]

Block == [vault : Contract!Vaults, txs : Seq(Contract!Call), recs : [Nonces -> Receipt]]

\* A block in the making holds accepted calls of the pool, and leaves a refusal
\* on no nonce that the vault below has executed.
Assembled(vault, recs, pool, height) ==
  {b \in Block :
     /\ ToSet(b.txs) \subseteq ToSet(pool)
     /\ b.vault = ApplyBlock(vault, b.txs, height)
     /\ Accepts(vault, b.txs, height)
     /\ \A n \in Nonces : \/ b.recs[n] = recs[n]
                          \/ ~b.recs[n].processed /\ ~b.recs[n].finalized /\ n \notin vault.processed}

LEMMA VerdictType ==
  ASSUME NEW vault \in Contract!Vaults, NEW tx \in Contract!Call, NEW height \in Nat
  PROVE  /\ Verdict(vault, tx, height) \in
              {"ok", "transient", "already_processed"} \union (Reasons \ {"none"})
         /\ Verdict(vault, tx, height) # "already_processed" => tx.nonce \notin vault.processed
<1>1. tx.kind \in {"deposit", "withdraw", "escrow_set", "settle_market", "cancel"}
  BY DEF Contract!Call, Contract!Kinds
<1>2. Verdict(vault, tx, height) # "already_processed" => tx.nonce \notin vault.processed
  BY DEF Verdict
<1>3. CASE tx.kind = "deposit"
  BY <1>3 DEF Verdict, Reasons
<1>4. CASE tx.kind = "withdraw"
  BY <1>4 DEF Verdict, Reasons
<1>5. CASE tx.kind = "escrow_set"
  BY <1>5 DEF Verdict, Reasons
<1>6. CASE tx.kind = "settle_market"
  BY <1>6 DEF Verdict, Reasons
<1>7. CASE tx.kind = "cancel"
  BY <1>7 DEF Verdict, Reasons
<1> QED
  BY <1>1, <1>2, <1>3, <1>4, <1>5, <1>6, <1>7

\* What a block in the making keeps when some of its fields are replaced.
With(b, v, t) == [b EXCEPT !.vault = v, !.txs = t]

LEMMA BlockTakes ==
  ASSUME NEW b \in Block, NEW v \in Contract!Vaults, NEW t \in Seq(Contract!Call)
  PROVE  /\ With(b, v, t) \in Block
         /\ With(b, v, t).vault = v
         /\ With(b, v, t).txs = t
         /\ With(b, v, t).recs = b.recs
<1>1. With(b, v, t).vault = v /\ With(b, v, t).txs = t /\ With(b, v, t).recs = b.recs
  BY Zenon DEF Block, With
<1>2. With(b, v, t) \in Block
  BY DEF Block, With
<1> QED
  BY <1>1, <1>2

LEMMA BlockRefuses ==
  ASSUME NEW b \in Block, NEW r \in [Nonces -> Receipt]
  PROVE  \E c \in Block : /\ c = [b EXCEPT !.recs = r]
                         /\ c.vault = b.vault /\ c.txs = b.txs /\ c.recs = r
<1>1. /\ [b EXCEPT !.recs = r].vault = b.vault
      /\ [b EXCEPT !.recs = r].txs = b.txs
      /\ [b EXCEPT !.recs = r].recs = r
  BY Zenon DEF Block
<1>2. [b EXCEPT !.recs = r] \in Block
  BY DEF Block
<1> QED
  BY <1>1, <1>2, Zenon

LEMMA TakeType ==
  ASSUME NEW vault \in Contract!Vaults, NEW recs \in [Nonces -> Receipt], NEW height \in Nat,
         NEW pool \in Seq(Contract!Call), NEW b \in Assembled(vault, recs, pool, height),
         NEW tx \in ToSet(pool)
  PROVE  Take(b, tx, height) \in Assembled(vault, recs, pool, height)
<1> DEFINE verdict == Verdict(b.vault, tx, height)
<1>1. /\ b \in Block /\ ToSet(b.txs) \subseteq ToSet(pool)
      /\ b.vault = ApplyBlock(vault, b.txs, height)
      /\ Accepts(vault, b.txs, height)
      /\ \A n \in Nonces : \/ b.recs[n] = recs[n]
                           \/ ~b.recs[n].processed /\ ~b.recs[n].finalized /\ n \notin vault.processed
  BY DEF Assembled
<1>2. b.vault \in Contract!Vaults /\ b.txs \in Seq(Contract!Call) /\ b.recs \in [Nonces -> Receipt]
      /\ tx.nonce \in Nonces /\ tx \in Contract!Call
  <2>1. tx \in Contract!Call
    BY ElementsType
  <2> QED
    BY <1>1, <2>1 DEF Block, Contract!Call
<1>3. CASE verdict = "ok"
  <2> DEFINE v == ApplyTx(b.vault, tx, height)
             t == Append(b.txs, tx)
  <2>1. Take(b, tx, height) = With(b, v, t)
    BY <1>3, Zenon DEF Take, With
  <2>2. v = ApplyBlock(vault, t, height) /\ Accepts(vault, t, height)
    BY <1>1, <1>2, <1>3, AppendCall
  <2>3. v \in Contract!Vaults /\ t \in Seq(Contract!Call) /\ ToSet(t) \subseteq ToSet(pool)
    BY <1>1, <1>2, ApplyType, AppendElements
  <2> HIDE DEF v, t
  <2>4. /\ With(b, v, t) \in Block /\ With(b, v, t).vault = v /\ With(b, v, t).txs = t
        /\ With(b, v, t).recs = b.recs
    BY <1>1, <2>3, BlockTakes
  <2>5. PICK c \in Block : c = With(b, v, t) /\ c.vault = v /\ c.txs = t /\ c.recs = b.recs
    BY <2>4
  <2>6. c \in Assembled(vault, recs, pool, height)
    BY <1>1, <2>2, <2>3, <2>5 DEF Assembled
  <2> QED
    BY <2>1, <2>5, <2>6
<1>4. CASE verdict \in {"transient", "already_processed"}
  <2>1. Take(b, tx, height) = b
    BY <1>4 DEF Take
  <2> QED
    BY <2>1
<1>5. CASE verdict \notin {"ok", "transient", "already_processed"}
  <2> DEFINE refusal == [NoReceipt EXCEPT !.rejected = verdict]
             r == [b.recs EXCEPT ![tx.nonce] = refusal]
  <2>1. Take(b, tx, height) = [b EXCEPT !.recs[tx.nonce] = refusal]
    BY <1>5, Zenon DEF Take
  <2>2. verdict \in Reasons /\ tx.nonce \notin b.vault.processed
    BY <1>2, <1>5, VerdictType
  <2>3. NoReceipt \in Receipt /\ ~NoReceipt.processed /\ ~NoReceipt.finalized
    BY HeightAssumption DEF NoReceipt, Receipt, Reasons
  <2>4. refusal \in Receipt /\ ~refusal.processed /\ ~refusal.finalized
    <3>1. PICK n \in Receipt : n = NoReceipt
      BY <2>3
    <3> HIDE DEF verdict
    <3>2. /\ [n EXCEPT !.rejected = verdict].processed = n.processed
          /\ [n EXCEPT !.rejected = verdict].finalized = n.finalized
          /\ [n EXCEPT !.rejected = verdict] \in Receipt
      BY <2>2, ReceiptFields
    <3> QED
      BY <2>3, <3>1, <3>2
  <2>5. tx.nonce \notin vault.processed
    <3>1. vault.processed \subseteq b.vault.processed
      BY <1>1, <1>2, BlockNonces
    <3> QED
      BY <2>2, <3>1
  <2> HIDE DEF refusal
  <2>6. r \in [Nonces -> Receipt]
    BY <1>2, <2>4
  <2>7. \A n \in Nonces : r[n] = IF n = tx.nonce THEN refusal ELSE b.recs[n]
    BY <1>2
  <2>8. [b EXCEPT !.recs[tx.nonce] = refusal] = [b EXCEPT !.recs = r]
    BY Zenon
  <2> HIDE DEF r
  <2>9. \E c \in Block : /\ c = [b EXCEPT !.recs = r]
                         /\ c.vault = b.vault /\ c.txs = b.txs /\ c.recs = r
    BY <1>1, <2>6, BlockRefuses
  <2>10. PICK c \in Block : /\ c = [b EXCEPT !.recs = r]
                           /\ c.vault = b.vault /\ c.txs = b.txs /\ c.recs = r
    BY <2>9, Zenon
  <2>11. c \in Assembled(vault, recs, pool, height)
    BY <1>1, <2>4, <2>5, <2>7, <2>10 DEF Assembled
  <2> QED
    BY <2>1, <2>8, <2>10, <2>11, Zenon
<1> QED
  BY <1>3, <1>4, <1>5

LEMMA AssembleType ==
  ASSUME NEW vault \in Contract!Vaults, NEW recs \in [Nonces -> Receipt], NEW height \in Nat,
         NEW pool \in Seq(Contract!Call)
  PROVE  Assemble(vault, recs, pool, height) \in Assembled(vault, recs, pool, height)
<1> DEFINE n == Len(pool)
           V == Assembled(vault, recs, pool, height)
           base == [vault |-> vault, txs |-> <<>>, recs |-> recs]
           Folds(h) == h = [T \in SUBSET (1..n) |->
             IF T = {} THEN base ELSE Take(h[T \ {Max(T)}], pool[Max(T)], height)]
           iter == CHOOSE h : Folds(h)
<1>1. n \in Nat /\ DOMAIN pool = 1..n /\ \A i \in 1..n : pool[i] \in ToSet(pool)
  BY DEF ToSet
<1>2. base \in V
  <2>1. base \in Block
    BY DEF Block
  <2>2. base.vault = ApplyBlock(vault, base.txs, height) /\ Accepts(vault, base.txs, height)
    BY EmptyBlock
  <2>3. ToSet(base.txs) = {}
    BY DEF ToSet
  <2> QED
    BY <2>1, <2>2, <2>3 DEF Assembled
<1> HIDE DEF V, base
<1>3. PICK step : step = [i \in 1..n |-> [b \in V |-> Take(b, pool[i], height)]]
  OBVIOUS
<1>4. step \in Steps(1..n, V)
  <2>1. \A i \in 1..n, b \in V : Take(b, pool[i], height) \in V
    BY <1>1, TakeType DEF V
  <2> QED
    BY <1>3, <2>1 DEF Steps
<1>5. PICK g : IsFold(g, n, V, base, step)
  <2> HIDE DEF n
  <2> QED
    BY <1>1, <1>2, <1>4, FoldExists
<1>6. Folds(g)
  BY <1>3, <1>5 DEF IsFold
<1>7. Folds(iter)
  <2> HIDE DEF Folds
  <2> QED
    BY <1>6
<1>8. \E r : IsRun(r, n, V, base, step) /\ iter[1..n] = r[n]
  <2> HIDE DEF iter
  <2>1. iter[{}] = g[{}] /\ \A T \in SUBSET (1..n) :
          T # {} /\ iter[T \ {Max(T)}] = g[T \ {Max(T)}] => iter[T] = g[T]
    BY <1>6, <1>7
  <2> QED
    BY <1>5, <2>1, Zenon DEF IsFold
<1>9. Assemble(vault, recs, pool, height) = iter[1..n]
  BY <1>1, Zenon DEF Assemble, Take, FoldLeft, MapThenFoldSet, base
<1>10. iter[1..n] \in V
  <2>1. PICK r : IsRun(r, n, V, base, step) /\ iter[1..n] = r[n]
    BY <1>8
  <2>2. n \in 0..n /\ r \in [0..n -> V]
    BY <1>1, <2>1 DEF IsRun
  <2> HIDE DEF iter, n
  <2> QED
    BY <2>1, <2>2
<1> QED
  BY <1>9, <1>10 DEF V

-----------------------------------------------------------------------------
(* The replay *)

Entry == [call : Contract!Call, height : Nat]

\* One entry of the history, as the replay tool runs it.
ReplayOne(run, entry) ==
  [vault |-> Contract!Execute(run.vault, entry.call, entry.height),
   refused |-> run.refused
     + IF Contract!Admits(run.vault, entry.call, entry.height) THEN 0 ELSE 1]

SoundVaults == {v \in Contract!Vaults : Sound(v)}

Replays == [vault : SoundVaults, refused : Nat]

Fresh == [vault |-> Contract!NewVault, refused |-> 0]

ReplayRun(r, history) ==
  /\ r \in [0..Len(history) -> Replays]
  /\ r[0] = Fresh
  /\ \A i \in 1..Len(history) : r[i] = ReplayOne(r[i - 1], history[i])

LEMMA NewVaultSound == Contract!NewVault \in SoundVaults
<1> DEFINE v == Contract!NewVault
<1>1. /\ v \in Contract!Vaults /\ v.escrow \in [Markets -> Int] /\ v.balance = 0
      /\ \A m \in Markets : v.escrow[m] = 0
      /\ v.settled = {} /\ v.processed = {} /\ v.cancelled = {}
  BY DEF Contract!NewVault, Contract!Vaults
<1> HIDE DEF v
<1>2. SumFunction(v.escrow) = 0
  BY <1>1, MarketsAssumption, SumZero
<1>3. Contract!EscrowTotal(v) = 0
  BY <1>1, <1>2, EscrowSum
<1>4. v \in SoundVaults
  BY <1>1, <1>3 DEF SoundVaults, Sound, Contract!Check
<1> QED
  BY <1>4 DEF v

LEMMA ReplayOneType ==
  ASSUME NEW run \in Replays, NEW entry \in Entry
  PROVE  ReplayOne(run, entry) \in Replays
<1>1. /\ run.vault \in Contract!Vaults /\ Sound(run.vault) /\ run.refused \in Nat
      /\ entry.call \in Contract!Call /\ entry.height \in Nat
  BY DEF Replays, SoundVaults, Entry
<1>2. Contract!Execute(run.vault, entry.call, entry.height) \in SoundVaults
  BY <1>1, SameEffect, ApplyType DEF SoundVaults
<1>3. run.refused + (IF Contract!Admits(run.vault, entry.call, entry.height) THEN 0 ELSE 1) \in Nat
  BY <1>1
<1> QED
  BY <1>2, <1>3 DEF ReplayOne, Replays

LEMMA ReplayFold ==
  ASSUME NEW history \in Seq(Entry)
  PROVE  \E r : ReplayRun(r, history) /\ Contract!Replay(history) = r[Len(history)]
<1> DEFINE n == Len(history)
           Folds(h) == h = [T \in SUBSET (1..n) |->
             IF T = {} THEN Fresh ELSE ReplayOne(h[T \ {Max(T)}], history[Max(T)])]
           iter == CHOOSE h : Folds(h)
<1>1. n \in Nat /\ DOMAIN history = 1..n /\ \A i \in 1..n : history[i] \in Entry
  OBVIOUS
<1>2. Fresh \in Replays
  BY NewVaultSound DEF Fresh, Replays
<1>3. PICK step : step = [i \in 1..n |-> [run \in Replays |-> ReplayOne(run, history[i])]]
  OBVIOUS
<1>4. step \in Steps(1..n, Replays)
  BY <1>1, <1>3, ReplayOneType DEF Steps
<1>5. PICK g : IsFold(g, n, Replays, Fresh, step)
  <2> HIDE DEF n
  <2> QED
    BY <1>1, <1>2, <1>4, FoldExists
<1>6. Folds(g)
  BY <1>3, <1>5 DEF IsFold
<1>7. Folds(iter)
  <2> HIDE DEF Folds
  <2> QED
    BY <1>6
<1>8. \E r : IsRun(r, n, Replays, Fresh, step) /\ iter[1..n] = r[n]
  <2> HIDE DEF iter
  <2>1. iter[{}] = g[{}] /\ \A T \in SUBSET (1..n) :
          T # {} /\ iter[T \ {Max(T)}] = g[T \ {Max(T)}] => iter[T] = g[T]
    BY <1>6, <1>7
  <2> QED
    BY <1>5, <2>1, Zenon DEF IsFold
<1>9. Contract!Replay(history) = iter[1..n]
  BY <1>1, Zenon DEF Contract!Replay, Fresh, ReplayOne, Contract!FoldLeft,
     Contract!MapThenFoldSet, Contract!Max, Max
<1>10. PICK r : IsRun(r, n, Replays, Fresh, step) /\ iter[1..n] = r[n]
  BY <1>8
<1>11. ReplayRun(r, history)
  <2>1. ASSUME NEW i \in 1..n
        PROVE  r[i] = ReplayOne(r[i - 1], history[i])
    <3>1. r[i] = step[i][r[i - 1]] /\ r[i - 1] \in Replays
      BY <1>10 DEF IsRun
    <3> QED
      BY <1>3, <3>1
  <2> QED
    BY <1>10, <2>1 DEF IsRun, ReplayRun
<1> QED
  BY <1>9, <1>10, <1>11

\* A block as the history records it.
Entries(txs, height) == [i \in 1..Len(txs) |-> [call |-> txs[i], height |-> height]]

\* A history that replays without a refusal still does when a block follows
\* that the vault accepted.
LEMMA ReplayBlock ==
  ASSUME NEW history \in Seq(Entry), NEW vault \in Contract!Vaults,
         NEW txs \in Seq(Contract!Call), NEW height \in Nat, Accepts(vault, txs, height),
         Contract!Replay(history) = [vault |-> vault, refused |-> 0]
  PROVE  /\ history \o Entries(txs, height) \in Seq(Entry)
         /\ Contract!Replay(history \o Entries(txs, height)) =
              [vault |-> ApplyBlock(vault, txs, height), refused |-> 0]
<1> PICK entries : entries = Entries(txs, height)
  OBVIOUS
<1> DEFINE n == Len(txs)
           m == Len(history)
           longer == history \o entries
<1>1. /\ n \in Nat /\ m \in Nat
      /\ \A i \in 1..n : txs[i] \in Contract!Call
  OBVIOUS
<1>2. entries \in Seq(Entry) /\ Len(entries) = n
      /\ \A i \in 1..n : entries[i] = [call |-> txs[i], height |-> height]
  <2>1. \A i \in 1..n : [call |-> txs[i], height |-> height] \in Entry
    BY <1>1 DEF Entry
  <2>2. entries \in [1..n -> Entry]
    BY <2>1 DEF Entries
  <2>3. entries \in Seq(Entry)
    BY <1>1, <2>2, SeqDef
  <2> QED
    BY <1>1, <2>2, <2>3 DEF Entries
<1>3. /\ longer \in Seq(Entry) /\ Len(longer) = m + n
      /\ \A i \in 1..m : longer[i] = history[i]
      /\ \A i \in 1..n : longer[m + i] = entries[i]
  BY <1>1, <1>2
<1> HIDE DEF n, m, longer
<1>4. PICK r : ReplayRun(r, longer) /\ Contract!Replay(longer) = r[m + n]
  BY <1>3, ReplayFold
<1>5. PICK q : ReplayRun(q, history) /\ Contract!Replay(history) = q[m]
  BY ReplayFold DEF m
<1>6. r[m] = [vault |-> vault, refused |-> 0]
  <2>1. ASSUME NEW i \in 1..m, q[i - 1] = r[i - 1]
        PROVE  q[i] = r[i]
    <3>1. i \in 1..m + n
      BY <1>1
    <3>2. r[i] = ReplayOne(r[i - 1], longer[i])
      BY <1>3, <1>4, <3>1 DEF ReplayRun
    <3>3. q[i] = ReplayOne(q[i - 1], history[i])
      BY <1>5 DEF ReplayRun, m
    <3> QED
      BY <1>3, <2>1, <3>2, <3>3
  <2>2. q[0] = r[0]
    BY <1>4, <1>5 DEF ReplayRun
  <2>3. InStep(q, r, m)
    BY <2>1, <2>2 DEF InStep
  <2>4. m \in 0..m
    BY <1>1
  <2> QED
    BY <1>1, <1>5, <2>3, <2>4, SameRun
<1>7. PICK b : /\ BlockRun(b, vault, txs, height)
               /\ \A i \in 0..Len(txs) : ApplyBlock(vault, SubSeq(txs, 1, i), height) = b[i]
  BY BlockRuns
<1> DEFINE S == {i \in 0..n : r[m + i] = [vault |-> b[i], refused |-> 0]}
<1>8. 0 \in S
  <2>1. m + 0 = m /\ b[0] = vault /\ 0 \in 0..n
    BY <1>1, <1>7 DEF BlockRun
  <2> QED
    BY <1>6, <2>1
<1>9. ASSUME NEW i \in 1..n, i - 1 \in S
      PROVE  i \in S
  <2>1. m + i \in 1..m + n /\ (m + i) - 1 = m + (i - 1) /\ m + (i - 1) \in 0..m + n
        /\ i \in 0..n /\ i - 1 \in 0..n
    BY <1>1
  <2>2. r[m + i] = ReplayOne(r[m + (i - 1)], longer[m + i])
    BY <1>3, <1>4, <2>1 DEF ReplayRun
  <2>3. longer[m + i] = [call |-> txs[i], height |-> height]
    BY <1>2, <1>3
  <2>4. r[m + (i - 1)] = [vault |-> b[i - 1], refused |-> 0]
    BY <1>9
  <2>5. b[i - 1] \in Contract!Vaults /\ Sound(b[i - 1])
    <3>1. r[m + (i - 1)] \in Replays
      BY <1>3, <1>4, <2>1 DEF ReplayRun
    <3> QED
      BY <2>4, <3>1 DEF Replays, SoundVaults
  <2>6. Verdict(b[i - 1], txs[i], height) = "ok"
    BY <1>7, <2>1 DEF Accepts, n
  <2>7. b[i] = ApplyTx(b[i - 1], txs[i], height)
    BY <1>7 DEF BlockRun, n
  <2>8. /\ Contract!Admits(b[i - 1], txs[i], height)
        /\ Contract!Execute(b[i - 1], txs[i], height) = b[i]
    BY <1>1, <2>5, <2>6, <2>7, SameDecision, SameEffect
  <2>9. ReplayOne([vault |-> b[i - 1], refused |-> 0], [call |-> txs[i], height |-> height]) =
          [vault |-> b[i], refused |-> 0]
    BY <2>8 DEF ReplayOne
  <2> QED
    BY <2>1, <2>2, <2>3, <2>4, <2>9
<1>10. n \in S
  <2>1. 0..n \subseteq S
    <3> HIDE DEF S
    <3> QED
      BY <1>1, <1>8, <1>9, IntervalInduction
  <2>2. n \in 0..n
    BY <1>1
  <2> HIDE DEF S
  <2> QED
    BY <2>1, <2>2
<1>11. b[n] = ApplyBlock(vault, txs, height)
  <2>1. SubSeq(txs, 1, Len(txs)) = txs /\ Len(txs) \in 0..Len(txs)
    OBVIOUS
  <2> QED
    BY <1>7, <2>1 DEF n
<1>12. Contract!Replay(longer) = [vault |-> ApplyBlock(vault, txs, height), refused |-> 0]
  BY <1>4, <1>10, <1>11
<1> QED
  BY <1>3, <1>12 DEF longer

-----------------------------------------------------------------------------
(* The inductive invariant *)

ChainTypes ==
  /\ head \in 0..MaxHeight
  /\ finalHeight \in 0..head
  /\ final \in Contract!Vaults
  /\ pending \in Seq(Seq(Contract!Call))
  /\ Len(pending) = head - finalHeight /\ Len(pending) <= Confirms
  /\ mempool \in Seq(Contract!Call)
  /\ receipts \in [Nonces -> Receipt]
  /\ trace \in Seq(Entry)

BlocksAccepted == AllAccepted(final, finalHeight, pending)

ReceiptsRecorded == Recorded(receipts, final, finalHeight, pending)

TraceReplays == Contract!Replay(trace) = [vault |-> final, refused |-> 0]

ChainInv ==
  /\ ChainTypes
  /\ Sound(final)
  /\ BlocksAccepted
  /\ ReceiptsRecorded
  /\ TraceReplays

LEMMA HeadOverIsOver ==
  ASSUME NEW blocks
  PROVE  HeadOver(blocks) = Over(final, finalHeight, blocks)
BY DEF HeadOver, Over

LEMMA ChainInit == Init => ChainInv
<1> SUFFICES ASSUME Init
             PROVE  ChainInv
  OBVIOUS
<1>1. final \in Contract!Vaults /\ Sound(final) /\ final = Contract!NewVault
  BY NewVaultSound DEF Init, SoundVaults
<1>2. ChainTypes
  <2>1. receipts \in [Nonces -> Receipt]
    BY HeightAssumption DEF Init, NoReceipt, Receipt, Reasons
  <2> QED
    BY <1>1, <2>1, HeightAssumption, ConfirmsAssumption DEF Init, ChainTypes
<1>3. BlocksAccepted
  BY DEF Init, BlocksAccepted, AllAccepted
<1>4. ReceiptsRecorded
  <2>1. pending \in Seq(Seq(Contract!Call)) /\ Len(pending) = 0 /\ finalHeight \in Nat
    BY DEF Init
  <2>2. Over(final, finalHeight, pending) = final
    <3>1. /\ At(final, finalHeight, pending, 0) = final
          /\ At(final, finalHeight, pending, Len(pending)) = Over(final, finalHeight, pending)
      BY <1>1, <2>1, ChainAt
    <3> QED
      BY <2>1, <3>1
  <2>3. \A n \in Nonces : ~receipts[n].processed /\ ~receipts[n].finalized
    BY DEF Init, NoReceipt
  <2>4. final.processed = {}
    BY <1>1 DEF Contract!NewVault
  <2> QED
    BY <2>2, <2>3, <2>4 DEF ReceiptsRecorded, Recorded
<1>5. TraceReplays
  <2>1. trace = <<>> /\ trace \in Seq(Entry) /\ Len(trace) = 0
    BY DEF Init
  <2>2. PICK r : ReplayRun(r, trace) /\ Contract!Replay(trace) = r[Len(trace)]
    BY <2>1, ReplayFold
  <2> QED
    BY <1>1, <2>1, <2>2 DEF TraceReplays, ReplayRun, Fresh
<1> QED
  BY <1>1, <1>2, <1>3, <1>4, <1>5 DEF ChainInv

\* A call only joins those that wait.
LEMMA QueueKeeps ==
  ASSUME ChainInv, NEW tx \in Contract!Call, Queue(tx),
         UNCHANGED <<head, finalHeight, final, pending, receipts, trace>>
  PROVE  ChainInv'
<1>1. mempool' \in Seq(Contract!Call)
  BY DEF Queue, ChainInv, ChainTypes
<1> QED
  BY <1>1 DEF ChainInv, ChainTypes, BlocksAccepted, ReceiptsRecorded, TraceReplays

\* What a reorg of depth blocks leaves, below the new block.
LEMMA ReorgLeaves ==
  ASSUME ChainInv, NEW depth \in 0..Len(pending)
  PROVE  LET kept == SubSeq(pending, 1, Len(pending) - depth)
             left == SurvivingReceipts(Orphaned(depth))
         IN /\ kept \in Seq(Seq(Contract!Call)) /\ Len(kept) = Len(pending) - depth
            /\ AllAccepted(final, finalHeight, kept)
            /\ left \in [Nonces -> Receipt]
            /\ Recorded(left, final, finalHeight, kept)
            /\ Over(final, finalHeight, kept) \in Contract!Vaults
            /\ Orphaned(depth) \in Seq(Contract!Call)
<1> DEFINE k == Len(pending) - depth
           kept == SubSeq(pending, 1, k)
           left == SurvivingReceipts(Orphaned(depth))
           dropped == SubSeq(pending, k + 1, Len(pending))
<1>1. /\ pending \in Seq(Seq(Contract!Call)) /\ final \in Contract!Vaults /\ finalHeight \in Nat
      /\ receipts \in [Nonces -> Receipt]
      /\ AllAccepted(final, finalHeight, pending)
      /\ Recorded(receipts, final, finalHeight, pending)
  BY DEF ChainInv, ChainTypes, BlocksAccepted, ReceiptsRecorded
<1>2. Len(pending) \in Nat /\ k \in 0..Len(pending) /\ Len(pending) - k = depth
  BY <1>1
<1>3. /\ dropped \in Seq(Seq(Contract!Call)) /\ Len(dropped) = Len(pending) - k
      /\ \A i \in 1..Len(pending) - k : dropped[i] = pending[k + i]
  BY <1>1, <1>2
<1>4. Orphaned(depth) = FlattenSeq(dropped)
  BY DEF Orphaned
<1> HIDE DEF k, dropped
<1>5. /\ Orphaned(depth) \in Seq(Contract!Call)
      /\ ToSet(Orphaned(depth)) = UNION {ToSet(dropped[i]) : i \in 1..Len(dropped)}
  BY <1>3, <1>4, FlattenElements
<1>6. ASSUME NEW n
      PROVE  (\E tx \in ToSet(Orphaned(depth)) : tx.nonce = n)
               <=> \E i \in k + 1..Len(pending) : \E tx \in ToSet(pending[i]) : tx.nonce = n
  <2>1. \A i \in 1..Len(dropped) : k + i \in k + 1..Len(pending) /\ dropped[i] = pending[k + i]
    BY <1>2, <1>3
  <2>2. ASSUME NEW i \in k + 1..Len(pending)
        PROVE  i - k \in 1..Len(dropped) /\ dropped[i - k] = pending[i]
    <3>1. i - k \in 1..Len(pending) - k /\ k + (i - k) = i
      BY <1>2
    <3> QED
      BY <1>3, <3>1
  <2> QED
    BY <1>5, <2>1, <2>2
<1>7. \A n \in Nonces : left[n] =
        IF \E i \in k + 1..Len(pending) : \E tx \in ToSet(pending[i]) : tx.nonce = n
        THEN NoReceipt ELSE receipts[n]
  <2>1. \A n \in Nonces : left[n] =
          IF \E tx \in ToSet(Orphaned(depth)) : tx.nonce = n THEN NoReceipt ELSE receipts[n]
    BY DEF SurvivingReceipts
  <2> HIDE DEF left
  <2> QED
    BY <1>6, <2>1
<1>8. left \in [Nonces -> Receipt]
  <2>1. NoReceipt \in Receipt
    BY HeightAssumption DEF NoReceipt, Receipt, Reasons
  <2> QED
    BY <1>1, <2>1 DEF SurvivingReceipts
<1> HIDE DEF left
<1>9. Recorded(left, final, finalHeight, kept)
  BY <1>1, <1>2, <1>7, <1>8, ReorgRecorded
<1>10. kept \in Seq(Seq(Contract!Call)) /\ Len(kept) = k /\ AllAccepted(final, finalHeight, kept)
  BY <1>1, <1>2, KeptChain
<1>11. Over(final, finalHeight, kept) \in Contract!Vaults
  BY <1>1, <1>2, ChainAt DEF At
<1> QED
  BY <1>5, <1>8, <1>9, <1>10, <1>11 DEF left, k

LEMMA MineKeeps ==
  ASSUME ChainInv, NEW depth \in 0..Len(pending), NEW shuffled \in Seq(Contract!Call),
         Mine(depth, shuffled)
  PROVE  ChainInv'
<1> DEFINE kept == SubSeq(pending, 1, Len(pending) - depth)
           left == SurvivingReceipts(Orphaned(depth))
           height == head - depth + 1
           top == Over(final, finalHeight, kept)
           block == Assemble(top, left, shuffled \o mempool, height)
           blocks == Append(kept, block.txs)
           recs == Executed(block.recs, block.txs, height)
<1>1. /\ height <= MaxHeight /\ head' = height /\ mempool' = <<>>
      /\ IF FinalityDue(blocks)
         THEN Finalise(blocks, recs, height)
         ELSE /\ pending' = blocks /\ receipts' = recs
              /\ UNCHANGED <<finalHeight, final, trace>>
  <2>1. HeadOver(kept) = top
    BY HeadOverIsOver
  <2> QED
    BY <2>1, Zenon DEF Mine
<1>2. /\ pending \in Seq(Seq(Contract!Call)) /\ final \in Contract!Vaults /\ finalHeight \in Nat
      /\ head \in Nat /\ finalHeight <= head /\ Len(pending) = head - finalHeight
      /\ Len(pending) \in Nat /\ Len(pending) <= Confirms /\ Confirms \in Nat \ {0}
      /\ mempool \in Seq(Contract!Call) /\ trace \in Seq(Entry)
      /\ Sound(final) /\ Contract!Replay(trace) = [vault |-> final, refused |-> 0]
      /\ MaxHeight \in Nat
  BY ConfirmsAssumption, HeightAssumption DEF ChainInv, ChainTypes, TraceReplays
<1>3. /\ kept \in Seq(Seq(Contract!Call)) /\ Len(kept) = Len(pending) - depth
      /\ AllAccepted(final, finalHeight, kept)
      /\ left \in [Nonces -> Receipt]
      /\ Recorded(left, final, finalHeight, kept)
      /\ top \in Contract!Vaults
  BY ReorgLeaves
<1>4. height \in 0..MaxHeight /\ height = finalHeight + Len(kept) + 1 /\ height \in Nat
  BY <1>1, <1>2, <1>3
<1>5. block \in Assembled(top, left, shuffled \o mempool, height)
  <2>1. shuffled \o mempool \in Seq(Contract!Call)
    BY <1>2
  <2> HIDE DEF top, left, height
  <2> QED
    BY <1>3, <1>4, <2>1, AssembleType
<1> HIDE DEF kept, left, height, top, block
<1>6. /\ block.txs \in Seq(Contract!Call) /\ block.recs \in [Nonces -> Receipt]
      /\ Accepts(top, block.txs, height)
      /\ \A n \in Nonces : \/ block.recs[n] = left[n]
                           \/ /\ ~block.recs[n].processed /\ ~block.recs[n].finalized
                              /\ n \notin top.processed
  BY <1>5 DEF Assembled, Block
<1>7. /\ blocks \in Seq(Seq(Contract!Call)) /\ Len(blocks) = Len(kept) + 1
      /\ AllAccepted(final, finalHeight, blocks)
  BY <1>2, <1>3, <1>4, <1>6, LongerChain DEF top
<1>8. Recorded(block.recs, final, finalHeight, kept)
  BY <1>2, <1>3, <1>6, RefusalsRecorded DEF top
<1>9. Recorded(recs, final, finalHeight, blocks)
  BY <1>2, <1>3, <1>4, <1>6, <1>8, ExecutedRecorded DEF top
<1>10. recs \in [Nonces -> Receipt]
  <2>1. [NoReceipt EXCEPT !.processed = TRUE, !.height = height] \in Receipt
    BY <1>4, NewReceipt
  <2> QED
    BY <1>6, <2>1 DEF Executed
<1> HIDE DEF blocks, recs
<1>11. CASE ~FinalityDue(blocks)
  <2>1. pending' = blocks /\ receipts' = recs /\ finalHeight' = finalHeight /\ final' = final
        /\ trace' = trace
    BY <1>1, <1>11
  <2>2. Len(blocks) <= Confirms
    BY <1>2, <1>3, <1>7, <1>11 DEF FinalityDue
  <2>3. head' - finalHeight' = Len(pending') /\ finalHeight' <= head'
    BY <1>1, <1>2, <1>3, <1>4, <1>7, <2>1
  <2>4. ChainTypes'
    BY <1>1, <1>2, <1>4, <1>7, <1>10, <2>1, <2>2, <2>3 DEF ChainTypes
  <2>5. Sound(final)'
    BY <1>2, <2>1
  <2>6. BlocksAccepted' /\ ReceiptsRecorded'
    BY <1>7, <1>9, <2>1 DEF BlocksAccepted, ReceiptsRecorded
  <2>7. TraceReplays'
    BY <1>2, <2>1 DEF TraceReplays
  <2> QED
    BY <2>4, <2>5, <2>6, <2>7 DEF ChainInv
<1>12. CASE FinalityDue(blocks)
  <2> DEFINE first == ApplyBlock(final, blocks[1], finalHeight + 1)
             entries == Entries(blocks[1], finalHeight + 1)
  <2>1. /\ finalHeight' = finalHeight + 1 /\ final' = first /\ trace' = trace \o entries
        /\ pending' = Tail(blocks) /\ receipts' = Settled(recs, blocks[1])
    BY <1>1, <1>12 DEF Finalise, Entries
  <2>2. Len(blocks) > 0 /\ Len(blocks) = Confirms + 1 /\ 1 \in 1..Len(blocks)
        /\ blocks[1] \in Seq(Contract!Call) /\ finalHeight + 1 \in Nat
    BY <1>2, <1>3, <1>7, <1>12 DEF FinalityDue
  <2>3. /\ Tail(blocks) \in Seq(Seq(Contract!Call)) /\ Len(Tail(blocks)) = Len(blocks) - 1
        /\ first = At(final, finalHeight, blocks, 1)
        /\ AllAccepted(first, finalHeight + 1, Tail(blocks))
    <3>1. first = At(final, finalHeight, blocks, 1)
      BY <1>2, <1>7, <2>2, FinalisedChain
    <3>2. AllAccepted(At(final, finalHeight, blocks, 1), finalHeight + 1, Tail(blocks))
      BY <1>2, <1>7, <2>2, FinalisedChain
    <3>3. Tail(blocks) \in Seq(Seq(Contract!Call)) /\ Len(Tail(blocks)) = Len(blocks) - 1
      BY <1>2, <1>7, <2>2, FinalisedChain
    <3> QED
      BY <3>1, <3>2, <3>3
  <2>4. first \in Contract!Vaults /\ Sound(first)
    BY <1>2, <2>2, BlockSound
  <2>5. Recorded(Settled(recs, blocks[1]), first, finalHeight + 1, Tail(blocks))
    BY <1>2, <1>7, <1>9, <1>10, <2>2, SettledRecorded
  <2>6. Settled(recs, blocks[1]) \in [Nonces -> Receipt]
    <3>1. \A n \in Nonces : recs[n] \in Receipt /\ [recs[n] EXCEPT !.finalized = TRUE] \in Receipt
      BY <1>10, ReceiptFields, Zenon
    <3> QED
      BY <3>1 DEF Settled
  <2>7. /\ trace \o entries \in Seq(Entry)
        /\ Contract!Replay(trace \o entries) = [vault |-> first, refused |-> 0]
    <3>1. Accepts(final, blocks[1], finalHeight + 1)
      <4>1. Accepts(At(final, finalHeight, blocks, 1 - 1), blocks[1], finalHeight + 1)
        BY <1>7, <2>2 DEF AllAccepted
      <4>2. At(final, finalHeight, blocks, 0) = final /\ 1 - 1 = 0
        BY <1>2, <1>7, ChainAt
      <4> QED
        BY <4>1, <4>2
    <3> QED
      BY <1>2, <2>2, <3>1, ReplayBlock
  <2> HIDE DEF first, entries
  <2>8. head' - finalHeight' = Len(pending') /\ Len(pending') <= Confirms /\ finalHeight' <= head'
    BY <1>1, <1>2, <1>3, <1>4, <1>7, <2>1, <2>2, <2>3
  <2>9. ChainTypes'
    <3>1. head' \in 0..MaxHeight /\ finalHeight' \in 0..head'
      BY <1>1, <1>2, <1>4, <2>1, <2>8
    <3>2. pending' \in Seq(Seq(Contract!Call)) /\ mempool' \in Seq(Contract!Call)
      <4>1. mempool' = <<>> /\ pending' = Tail(blocks)
        BY <1>1, <2>1
      <4>2. Tail(blocks) \in Seq(Seq(Contract!Call))
        BY <2>3
      <4> QED
        BY <4>1, <4>2
    <3>3. /\ final' \in Contract!Vaults /\ receipts' \in [Nonces -> Receipt]
          /\ trace' \in Seq(Entry)
      BY <2>1, <2>4, <2>6, <2>7
    <3> QED
      BY <2>8, <3>1, <3>2, <3>3 DEF ChainTypes
  <2>10. Sound(final)' /\ BlocksAccepted' /\ ReceiptsRecorded' /\ TraceReplays'
    BY <2>1, <2>3, <2>4, <2>5, <2>7 DEF BlocksAccepted, ReceiptsRecorded, TraceReplays
  <2> QED
    BY <2>9, <2>10 DEF ChainInv
<1> QED
  BY <1>11, <1>12

LEMMA ChainStepKeeps == ChainInv /\ [Next]_vars => ChainInv'
<1> SUFFICES ASSUME ChainInv, [Next]_vars
             PROVE  ChainInv'
  OBVIOUS
<1>1. Requests \subseteq Contract!Call
  BY RequestsAssumption
<1>2. ASSUME NEW tx \in Requests, Deposit(tx)
      PROVE  ChainInv'
  BY <1>1, <1>2, QueueKeeps DEF Deposit
<1>3. ASSUME NEW tx \in Requests, Submit(tx)
      PROVE  ChainInv'
  BY <1>1, <1>3, QueueKeeps DEF Submit
<1>4. ASSUME NEW tx \in Requests, Cancel(tx)
      PROVE  ChainInv'
  <2>1. tx \in Contract!Call
    BY <1>1
  <2>2. [tx EXCEPT !.kind = "cancel"] \in Contract!Call
    BY <2>1 DEF Contract!Call, Contract!Kinds
  <2> QED
    BY <1>4, <2>2, QueueKeeps DEF Cancel
<1>5. ASSUME NEW depth \in 0..Len(pending),
             NEW shuffled \in SetToSeqs(ToSet(Orphaned(depth))), Mine(depth, shuffled)
      PROVE  ChainInv'
  <2>1. Orphaned(depth) \in Seq(Contract!Call)
    BY ReorgLeaves
  <2>2. ToSet(Orphaned(depth)) \in SUBSET Contract!Call /\ IsFiniteSet(ToSet(Orphaned(depth)))
    BY <2>1, ElementsType
  <2>3. shuffled \in Seq(Contract!Call)
    BY <2>2, OrderType
  <2> QED
    BY <1>5, <2>3, MineKeeps
<1>6. CASE UNCHANGED vars
  BY <1>6 DEF vars, ChainInv, ChainTypes, BlocksAccepted, ReceiptsRecorded, TraceReplays
<1> QED
  BY <1>2, <1>3, <1>4, <1>5, <1>6 DEF Next

THEOREM ChainAlways == Spec => []ChainInv
<1>1. Init => ChainInv
  BY ChainInit
<1>2. ChainInv /\ [Next]_vars => ChainInv'
  BY ChainStepKeeps
<1> QED
  BY <1>1, <1>2, PTL DEF Spec

\* SimTypeOK: every variable keeps its type, with as many pending blocks as
\* heights between finality and the head.
THEOREM ChainTypesOK == Spec => []SimTypeOK
<1>1. ChainInv => SimTypeOK
  <2> SUFFICES ASSUME ChainInv
               PROVE  SimTypeOK
    OBVIOUS
  <2>1. ChainTypes
    BY DEF ChainInv
  <2>2. ASSUME NEW i \in DOMAIN pending
        PROVE  ToSet(pending[i]) \subseteq Contract!Call
    <3>1. pending[i] \in Seq(Contract!Call)
      BY <2>1 DEF ChainTypes
    <3> QED
      BY <3>1, ElementsType
  <2>3. ToSet(mempool) \subseteq Contract!Call
    BY <2>1, ElementsType DEF ChainTypes
  <2> QED
    BY <2>1, <2>2, <2>3 DEF ChainTypes, SimTypeOK, Receipt, Reasons
<1> QED
  BY <1>1, ChainAlways, PTL

\* EscrowIsBacked: escrow never exceeds custody and a settled market holds none,
\* at finality and at every height above it.
THEOREM EscrowBacked == Spec => []EscrowIsBacked
<1>1. ChainInv => EscrowIsBacked
  <2> SUFFICES ASSUME ChainInv, NEW i \in 0..Len(pending)
               PROVE  Contract!Check(HeadOver(SubSeq(pending, 1, i)))
    BY DEF EscrowIsBacked
  <2>1. /\ final \in Contract!Vaults /\ finalHeight \in Nat /\ Sound(final)
        /\ pending \in Seq(Seq(Contract!Call))
    BY DEF ChainInv, ChainTypes
  <2>2. Sound(At(final, finalHeight, pending, i))
    BY <2>1, ChainSound
  <2>3. At(final, finalHeight, pending, i) = HeadOver(SubSeq(pending, 1, i))
    BY HeadOverIsOver DEF At
  <2> QED
    BY <2>2, <2>3 DEF Sound
<1> QED
  BY <1>1, ChainAlways, PTL

\* FinalHistoryReplays: the contract refuses no call of the finalised history
\* and ends where the simulator is.
THEOREM HistoryReplays == Spec => []FinalHistoryReplays
<1>1. ChainInv => FinalHistoryReplays
  BY DEF ChainInv, TraceReplays, FinalHistoryReplays
<1> QED
  BY <1>1, ChainAlways, PTL

\* ReceiptsMatchBlocks: a receipt says processed, or finalized, of exactly the
\* nonces that the blocks, or the final ones, have executed.
THEOREM ReceiptsMatch == Spec => []ReceiptsMatchBlocks
<1>1. ChainInv => ReceiptsMatchBlocks
  <2> SUFFICES ASSUME ChainInv
               PROVE  ReceiptsMatchBlocks
    OBVIOUS
  <2>1. HeadVault = Over(final, finalHeight, pending)
    BY HeadOverIsOver DEF HeadVault
  <2>2. Recorded(receipts, final, finalHeight, pending)
    BY DEF ChainInv, ReceiptsRecorded
  <2> QED
    BY <2>1, <2>2 DEF Recorded, ReceiptsMatchBlocks, Executes
<1> QED
  BY <1>1, ChainAlways, PTL
=============================================================================
