---------------------------- MODULE EscrowProofs ----------------------------
(***************************************************************************)
(* Proofs about escrow synchronisation, for any finite set of markets, any *)
(* custody, any confirmation depth and any number of trades, settlements   *)
(* and reorganisations: a settled market holds no escrow.  What a vault    *)
(* does with a call, and a chain of blocks with a vault, is proved in      *)
(* ChainSimProofs; here it is used for the calls of the intents.           *)
(***************************************************************************)
EXTENDS EscrowProperties, FoldLemmas

Chain == INSTANCE ChainSimProofs WITH
  Nonces <- Ids, Requests <- {}, MaxHeight <- 0, MaxUnfinal <- 0, head <- Top,
  finalHeight <- Base, pending <- Blocks(pending), mempool <- Calls(mempool),
  receipts <- <<>>, trace <- <<>>

-----------------------------------------------------------------------------
(* The chain of ChainSimProofs is the one of Escrow *)

LEMMA ChainAssumptions ==
  /\ Chain!MarketsAssumption /\ Chain!ConfirmsAssumption
  /\ Chain!HeightAssumption /\ Chain!RequestsAssumption
<1>1. Chain!MarketsAssumption
  BY NumbersAssumption DEF Chain!MarketsAssumption, Chain!IsFiniteSet, IsFiniteSet
<1>2. Chain!ConfirmsAssumption
  BY HeightsAssumption DEF Chain!ConfirmsAssumption
<1>3. Chain!HeightAssumption
  BY DEF Chain!HeightAssumption
<1>4. Chain!RequestsAssumption
  BY DEF Chain!RequestsAssumption
<1> QED
  BY <1>1, <1>2, <1>3, <1>4

CallSet == {call \in [nonce : Ids,
                      kind : {"deposit", "withdraw", "escrow_set", "settle_market", "cancel"},
                      market : Markets, amount : Nat, expiry : Nat] :
              call.kind = "deposit" => call.expiry = 0}

VaultSet == [balance : Nat, escrow : [Markets -> Nat], settled : SUBSET Markets,
             processed : SUBSET Ids, cancelled : SUBSET Ids]

LEMMA ChainSets ==
  /\ Chain!Contract!Call = CallSet
  /\ Chain!Contract!Vaults = VaultSet
BY DEF Chain!Contract!Call, Chain!Contract!Kinds, CallSet, Chain!Contract!Vaults, VaultSet

LEMMA SameTx ==
  ASSUME NEW vault, NEW tx, NEW height
  PROVE  Sim!ApplyTx(vault, tx, height) = Chain!ApplyTx(vault, tx, height)
BY Zenon DEF
   Sim!ApplyTx, Chain!ApplyTx, Sim!Verdict, Chain!Verdict, Sim!Effect,
   Chain!Effect, Sim!Free, Chain!Free, Sim!SumFunction, Chain!SumFunction,
   Sim!SumFunctionOnSet, Chain!SumFunctionOnSet, Sim!FoldFunctionOnSet,
   Chain!FoldFunctionOnSet, Sim!MapThenFoldSet, Chain!MapThenFoldSet

LEMMA SameBlock ==
  ASSUME NEW vault, NEW txs, NEW height
  PROVE  Sim!ApplyBlock(vault, txs, height) = Chain!ApplyBlock(vault, txs, height)
BY Zenon DEF
   Sim!ApplyBlock, Chain!ApplyBlock, Sim!FoldLeft, Chain!FoldLeft, Sim!Max,
   Chain!Max, Sim!ApplyTx, Chain!ApplyTx, Sim!Verdict, Chain!Verdict,
   Sim!Effect, Chain!Effect, Sim!Free, Chain!Free, Sim!SumFunction,
   Chain!SumFunction, Sim!SumFunctionOnSet, Chain!SumFunctionOnSet,
   Sim!FoldFunctionOnSet, Chain!FoldFunctionOnSet, Sim!MapThenFoldSet,
   Chain!MapThenFoldSet

LEMMA SameHead ==
  ASSUME NEW blocks
  PROVE  Sim!HeadOver(blocks) = Chain!Over(final, Base, blocks)
BY Zenon DEF Sim!HeadOver, Chain!Over,
   Sim!FoldLeftDomain, Chain!FoldLeftDomain, Sim!ApplyBlock,
   Chain!ApplyBlock, Sim!FoldLeft, Chain!FoldLeft, Sim!Max, Chain!Max,
   Sim!ApplyTx, Chain!ApplyTx, Sim!Verdict, Chain!Verdict, Sim!Effect,
   Chain!Effect, Sim!Free, Chain!Free, Sim!SumFunction, Chain!SumFunction,
   Sim!SumFunctionOnSet, Chain!SumFunctionOnSet, Sim!FoldFunctionOnSet,
   Chain!FoldFunctionOnSet, Sim!MapThenFoldSet, Chain!MapThenFoldSet

LEMMA SameAssembly ==
  ASSUME NEW vault, NEW recs, NEW pool, NEW height
  PROVE  Sim!Assemble(vault, recs, pool, height) = Chain!Assemble(vault, recs, pool, height)
BY Zenon DEF
   Sim!Assemble, Chain!Assemble, Sim!NoReceipt, Chain!NoReceipt,
   Sim!FoldLeft, Chain!FoldLeft, Sim!Max, Chain!Max, Sim!ApplyTx,
   Chain!ApplyTx, Sim!Verdict, Chain!Verdict, Sim!Effect, Chain!Effect,
   Sim!Free, Chain!Free, Sim!SumFunction, Chain!SumFunction,
   Sim!SumFunctionOnSet, Chain!SumFunctionOnSet, Sim!FoldFunctionOnSet,
   Chain!FoldFunctionOnSet, Sim!MapThenFoldSet, Chain!MapThenFoldSet

\* What the contract checks after every call.
Sound(vault) ==
  /\ SumFunction(vault.escrow) <= vault.balance
  /\ \A m \in vault.settled : vault.escrow[m] = 0
  /\ vault.processed \intersect vault.cancelled = {}

LEMMA SameSound ==
  ASSUME NEW vault
  PROVE  Chain!Sound(vault) <=> Sound(vault)
<1>1. Chain!Contract!SumFunction(vault.escrow) = SumFunction(vault.escrow)
  BY Zenon DEF SumFunction, SumFunctionOnSet, FoldFunctionOnSet, MapThenFoldSet,
     Chain!Contract!SumFunction, Chain!Contract!SumFunctionOnSet,
     Chain!Contract!FoldFunctionOnSet, Chain!Contract!MapThenFoldSet
<1> QED
  BY <1>1 DEF Chain!Sound, Sound, Chain!Contract!Check, Chain!Contract!EscrowTotal

-----------------------------------------------------------------------------
(* What executed settlements leave in the vault *)

IntentKinds == {"settle_market", "escrow_set"}

\* An id without an intent has neither a market nor a row to submit.
IntentSet ==
  {x \in [kind : IntentKinds \union {"none"}, market : Nat, amount : Nat, expiry : Nat,
          state : {"none", "inflight", "confirmed", "expired"}, row : {"none", "pending", "sent"}] :
     IF x.kind = "none" THEN x.row = "none" ELSE x.market \in Markets}

\* The market of every settlement the vault has executed is settled there.
Honours(vault, its) ==
  \A i \in vault.processed :
    /\ its[i].kind # "none"
    /\ its[i].kind = "settle_market" => its[i].market \in vault.settled

\* The calls are those of intents.
Asked(txs, its) ==
  \A k \in 1..Len(txs) :
    /\ txs[k].kind \in IntentKinds
    /\ its[txs[k].nonce].kind = txs[k].kind /\ its[txs[k].nonce].market = txs[k].market

LEMMA TxSettles ==
  ASSUME NEW vault, NEW tx, NEW height
  PROVE  vault.settled \subseteq Sim!ApplyTx(vault, tx, height).settled
BY DEF Sim!ApplyTx, Sim!Effect

LEMMA TxHonours ==
  ASSUME NEW vault, NEW tx, NEW height, NEW its, tx.kind \in IntentKinds,
         its[tx.nonce].kind = tx.kind, its[tx.nonce].market = tx.market,
         Honours(vault, its)
  PROVE  Honours(Sim!ApplyTx(vault, tx, height), its)
<1>1. CASE Sim!Verdict(vault, tx, height) # "ok"
  BY <1>1 DEF Sim!ApplyTx
<1>2. CASE Sim!Verdict(vault, tx, height) = "ok"
  <2> DEFINE after == Sim!Effect(vault, tx)
  <2>1. Sim!ApplyTx(vault, tx, height) = after
    BY <1>2 DEF Sim!ApplyTx
  <2>2. /\ after.processed = vault.processed \union {tx.nonce}
        /\ after.settled = vault.settled \union IF tx.kind = "settle_market" THEN {tx.market} ELSE {}
    BY DEF Sim!Effect, IntentKinds
  <2> HIDE DEF after
  <2> QED
    BY <2>1, <2>2 DEF Honours, IntentKinds
<1> QED
  BY <1>1, <1>2

\* A block never unsettles a market, and one of intents' calls leaves the market
\* of each settlement it executes settled.
LEMMA BlockKeeps ==
  ASSUME NEW vault \in VaultSet, NEW txs \in Seq(CallSet), NEW height \in Nat, NEW its
  PROVE  LET after == Sim!ApplyBlock(vault, txs, height)
         IN /\ after \in VaultSet
            /\ Sound(vault) => Sound(after)
            /\ vault.settled \subseteq after.settled
            /\ Asked(txs, its) /\ Honours(vault, its) => Honours(after, its)
<1> DEFINE n == Len(txs)
<1>1. vault \in Chain!Contract!Vaults /\ txs \in Seq(Chain!Contract!Call)
  BY ChainSets
<1>2. PICK r : /\ Chain!BlockRun(r, vault, txs, height)
               /\ Chain!ApplyBlock(vault, txs, height) = r[n]
  BY <1>1, ChainAssumptions, Chain!BlockFold
<1>3. /\ n \in Nat /\ r[0] = vault
      /\ \A i \in 1..n : r[i] = Sim!ApplyTx(r[i - 1], txs[i], height)
  BY <1>2, SameTx DEF Chain!BlockRun
<1>4. r[n] = Sim!ApplyBlock(vault, txs, height)
  BY <1>2, SameBlock
<1> DEFINE S == {i \in 0..n : /\ vault.settled \subseteq r[i].settled
                              /\ Asked(txs, its) /\ Honours(vault, its) => Honours(r[i], its)}
<1>5. 0 \in S
  BY <1>3
<1>6. ASSUME NEW i \in 1..n, i - 1 \in S
      PROVE  i \in S
  <2>1. r[i] = Sim!ApplyTx(r[i - 1], txs[i], height) /\ i \in 0..n
    BY <1>3
  <2>2. r[i - 1].settled \subseteq r[i].settled
    BY <2>1, TxSettles
  <2>3. ASSUME Asked(txs, its), Honours(r[i - 1], its)
        PROVE  Honours(r[i], its)
    BY <2>1, <2>3, TxHonours DEF Asked
  <2> QED
    BY <1>6, <2>1, <2>2, <2>3
<1>7. n \in S
  <2>1. 0..n \subseteq S
    <3> HIDE DEF S, n
    <3> QED
      BY <1>3, <1>5, <1>6, IntervalInduction
  <2> QED
    BY <1>3, <2>1
<1>8. /\ r[n] \in VaultSet
      /\ Sound(vault) => Sound(r[n])
  <2>1. /\ Chain!ApplyBlock(vault, txs, height) \in Chain!Contract!Vaults
        /\ Chain!Sound(vault) => Chain!Sound(Chain!ApplyBlock(vault, txs, height))
    BY <1>1, ChainAssumptions, Chain!BlockSound
  <2> QED
    BY <1>2, <2>1, ChainSets, SameSound
<1> QED
  BY <1>4, <1>7, <1>8

\* The same for the chain from its final block to its head.
LEMMA HeadKeeps ==
  ASSUME final \in VaultSet, Sound(final), NEW blocks \in Seq(Seq(CallSet))
  PROVE  /\ Sim!HeadOver(blocks) \in VaultSet
         /\ Sound(Sim!HeadOver(blocks))
         /\ final.settled \subseteq Sim!HeadOver(blocks).settled
<1> DEFINE n == Len(blocks)
           at(i) == Chain!At(final, Base, blocks, i)
           S == {i \in 0..n : final.settled \subseteq at(i).settled}
<1>1. /\ final \in Chain!Contract!Vaults /\ blocks \in Seq(Seq(Chain!Contract!Call))
      /\ Base \in Nat /\ Chain!Sound(final)
  BY ChainSets, SameSound DEF Base
<1>2. /\ at(0) = final /\ at(n) = Chain!Over(final, Base, blocks)
      /\ \A i \in 0..n : at(i) \in VaultSet
      /\ \A i \in 1..n : at(i) = Chain!ApplyBlock(at(i - 1), blocks[i], Base + i)
  BY <1>1, ChainAssumptions, Chain!ChainAt, ChainSets
<1>3. \A i \in 0..n : Sound(at(i))
  BY <1>1, ChainAssumptions, Chain!ChainSound, SameSound
<1> HIDE DEF at
<1>4. n \in Nat /\ 0 \in S
  BY <1>2
<1>5. ASSUME NEW i \in 1..n, i - 1 \in S
      PROVE  i \in S
  <2>1. blocks[i] \in Seq(CallSet) /\ Base + i \in Nat /\ i - 1 \in 0..n /\ i \in 0..n
    BY <1>1
  <2>2. at(i) = Sim!ApplyBlock(at(i - 1), blocks[i], Base + i)
    BY <1>2, SameBlock
  <2>3. at(i - 1).settled \subseteq at(i).settled
    BY <1>2, <2>1, <2>2, BlockKeeps
  <2> QED
    BY <1>5, <2>1, <2>3
<1>6. n \in S
  <2>1. 0..n \subseteq S
    <3> HIDE DEF S, n
    <3> QED
      BY <1>4, <1>5, IntervalInduction
  <2> QED
    BY <1>4, <2>1
<1>7. Sim!HeadOver(blocks) = at(n) /\ n \in 0..n
  BY <1>2, <1>4, SameHead
<1> QED
  BY <1>2, <1>3, <1>6, <1>7

-----------------------------------------------------------------------------
(* Intents, queues and the vault together *)

UsedIds(its) == {i \in Ids : its[i].kind # "none"}

\* Only ids of intents wait or are in a block, and every settlement that the
\* final vault has executed is one of an intent and has settled its market.
Consistent(its, vault, blocks, pool) ==
  /\ its \in [Ids -> IntentSet]
  /\ vault \in VaultSet /\ Sound(vault) /\ Honours(vault, its)
  /\ blocks \in Seq(Seq(UsedIds(its))) /\ pool \in Seq(UsedIds(its))

\* Intents change and keep what they ask for; unused ids may come into use.
Refines(its, next) ==
  /\ next \in [Ids -> IntentSet]
  /\ \A i \in UsedIds(its) : next[i].kind = its[i].kind /\ next[i].market = its[i].market

LEMMA SeqOfSeqs ==
  ASSUME NEW U, NEW W, U \subseteq W, NEW blocks \in Seq(Seq(U))
  PROVE  blocks \in Seq(Seq(W))
<1>1. Seq(U) \subseteq Seq(W)
  BY SeqMonotonic
<1> QED
  BY <1>1, SeqMonotonic

LEMMA RefinedConsistent ==
  ASSUME NEW its, NEW vault, NEW blocks, NEW pool, NEW next,
         Consistent(its, vault, blocks, pool), Refines(its, next)
  PROVE  Consistent(next, vault, blocks, pool)
<1>1. UsedIds(its) \subseteq UsedIds(next)
  BY DEF UsedIds, Refines
<1>2. blocks \in Seq(Seq(UsedIds(next))) /\ pool \in Seq(UsedIds(next))
  BY <1>1, SeqOfSeqs, SeqMonotonic DEF Consistent
<1>3. Honours(vault, next)
  BY DEF Consistent, Honours, Refines, UsedIds, VaultSet
<1> QED
  BY <1>2, <1>3 DEF Consistent, Refines

LEMMA IntentFields ==
  ASSUME NEW x \in IntentSet, NEW state \in {"inflight", "confirmed", "expired"},
         NEW expiry \in Nat
  PROVE  /\ x.kind # "none" =>
              /\ [x EXCEPT !.row = "sent"] \in IntentSet
              /\ [x EXCEPT !.row = "sent"].kind = x.kind
              /\ [x EXCEPT !.row = "sent"].market = x.market
         /\ [x EXCEPT !.state = state] \in IntentSet
         /\ [x EXCEPT !.state = state].kind = x.kind
         /\ [x EXCEPT !.state = state].market = x.market
         /\ [x EXCEPT !.expiry = expiry] \in IntentSet
         /\ [x EXCEPT !.expiry = expiry].kind = x.kind
         /\ [x EXCEPT !.expiry = expiry].market = x.market
<1>1. /\ [x EXCEPT !.row = "sent"].kind = x.kind
      /\ [x EXCEPT !.row = "sent"].market = x.market
      /\ [x EXCEPT !.state = state].kind = x.kind
      /\ [x EXCEPT !.state = state].market = x.market
      /\ [x EXCEPT !.state = state].row = x.row
      /\ [x EXCEPT !.expiry = expiry].kind = x.kind
      /\ [x EXCEPT !.expiry = expiry].market = x.market
      /\ [x EXCEPT !.expiry = expiry].row = x.row
  BY Zenon DEF IntentSet
<1> DEFINE Shapes == [kind : IntentKinds \union {"none"}, market : Nat, amount : Nat, expiry : Nat,
             state : {"none", "inflight", "confirmed", "expired"}, row : {"none", "pending", "sent"}]
<1>2. x \in Shapes
  BY DEF IntentSet
<1>3. /\ [x EXCEPT !.row = "sent"] \in Shapes
      /\ [x EXCEPT !.state = state] \in Shapes
      /\ [x EXCEPT !.expiry = expiry] \in Shapes
  BY <1>2
<1> HIDE DEF Shapes
<1>4. IntentSet = {y \in Shapes : IF y.kind = "none" THEN y.row = "none" ELSE y.market \in Markets}
  BY DEF IntentSet, Shapes
<1> QED
  BY <1>1, <1>2, <1>3, <1>4

LEMMA SentRefines ==
  ASSUME NEW its \in [Ids -> IntentSet], NEW i \in UsedIds(its)
  PROVE  Refines(its, [its EXCEPT ![i].row = "sent"])
<1>1. \A j \in Ids : [its EXCEPT ![i].row = "sent"][j] =
                       IF j = i THEN [its[i] EXCEPT !.row = "sent"] ELSE its[j]
  BY Zenon DEF UsedIds
<1>2. its[i] \in IntentSet /\ its[i].kind # "none" /\ i \in Ids
  BY DEF UsedIds
<1>3. /\ [its[i] EXCEPT !.row = "sent"] \in IntentSet
      /\ [its[i] EXCEPT !.row = "sent"].kind = its[i].kind
      /\ [its[i] EXCEPT !.row = "sent"].market = its[i].market
  BY <1>2, IntentFields, Zenon
<1>4. [its EXCEPT ![i].row = "sent"] \in [Ids -> IntentSet]
  BY <1>3
<1> QED
  BY <1>1, <1>3, <1>4, Zenon DEF Refines, UsedIds

LEMMA DecidedRefines ==
  ASSUME NEW its \in [Ids -> IntentSet], NEW i \in Ids, NEW state \in {"confirmed", "expired"}
  PROVE  Refines(its, [its EXCEPT ![i].state = state])
<1>1. \A j \in Ids : [its EXCEPT ![i].state = state][j] =
                       IF j = i THEN [its[i] EXCEPT !.state = state] ELSE its[j]
  BY Zenon
<1>2. its[i] \in IntentSet /\ state \in {"inflight", "confirmed", "expired"}
  OBVIOUS
<1>3. /\ [its[i] EXCEPT !.state = state] \in IntentSet
      /\ [its[i] EXCEPT !.state = state].kind = its[i].kind
      /\ [its[i] EXCEPT !.state = state].market = its[i].market
  BY <1>2, IntentFields, Zenon
<1>4. [its EXCEPT ![i].state = state] \in [Ids -> IntentSet]
  BY <1>3
<1> QED
  BY <1>1, <1>3, <1>4, Zenon DEF Refines, UsedIds

LEMMA ShiftedRefines ==
  ASSUME NEW its \in [Ids -> IntentSet]
  PROVE  Refines(its, [i \in Ids |-> [its[i] EXCEPT !.expiry = Shift(@)]])
<1>1. ASSUME NEW i \in Ids
      PROVE  /\ [its[i] EXCEPT !.expiry = Shift(@)] \in IntentSet
             /\ [its[i] EXCEPT !.expiry = Shift(@)].kind = its[i].kind
             /\ [its[i] EXCEPT !.expiry = Shift(@)].market = its[i].market
  <2>1. PICK x \in IntentSet : x = its[i]
    OBVIOUS
  <2>2. x.expiry \in Nat
    BY DEF IntentSet
  <2>3. PICK e \in Nat : e = Shift(x.expiry)
    BY <2>2 DEF Shift, Base
  <2>4. /\ [x EXCEPT !.expiry = e] \in IntentSet
        /\ [x EXCEPT !.expiry = e].kind = x.kind
        /\ [x EXCEPT !.expiry = e].market = x.market
    <3>1. "inflight" \in {"inflight", "confirmed", "expired"}
      OBVIOUS
    <3> QED
      BY <3>1, IntentFields, Zenon
  <2>5. [x EXCEPT !.expiry = Shift(@)] = [x EXCEPT !.expiry = e]
    BY <2>3, Zenon
  <2> QED
    BY <2>1, <2>4, <2>5, Zenon
<1> QED
  BY <1>1, Zenon DEF Refines, UsedIds

LEMMA NewIntent ==
  ASSUME NEW kind \in IntentKinds, NEW m \in Markets, NEW amount \in Nat, NEW expiry \in Nat
  PROVE  /\ Intent(kind, m, amount, expiry) \in IntentSet
         /\ Intent(kind, m, amount, expiry).kind = kind
         /\ Intent(kind, m, amount, expiry).market = m
BY NumbersAssumption DEF Intent, IntentSet, IntentKinds

LEMMA InsertType ==
  ASSUME NEW its \in [Ids -> IntentSet], NEW new \in SUBSET IntentSet
  PROVE  Insert(its, new) \in [Ids -> IntentSet]
<1> DEFINE first(x) == CHOOSE i \in Spare(its, x.kind, x.market) :
                         \A j \in Spare(its, x.kind, x.market) : i <= j
<1>1. Insert(its, new) = [i \in Ids |-> IF \E x \in new : first(x) = i
                                        THEN CHOOSE x \in new : first(x) = i ELSE its[i]]
  BY DEF Insert
<1> HIDE DEF first
<1>2. ASSUME NEW i \in Ids, \E x \in new : first(x) = i
      PROVE  (CHOOSE x \in new : first(x) = i) \in IntentSet
  BY <1>2
<1> QED
  BY <1>1, <1>2

\* An intent takes an id that nobody uses.
LEMMA InsertRefines ==
  ASSUME NEW its \in [Ids -> IntentSet], NEW new \in SUBSET IntentSet,
         \A x \in new : /\ x.kind \in IntentKinds /\ x.market \in Markets
                        /\ Spare(its, x.kind, x.market) # {}
  PROVE  Refines(its, Insert(its, new))
<1> DEFINE first(x) == CHOOSE i \in Spare(its, x.kind, x.market) :
                         \A j \in Spare(its, x.kind, x.market) : i <= j
<1>1. Insert(its, new) = [i \in Ids |-> IF \E x \in new : first(x) = i
                                        THEN CHOOSE x \in new : first(x) = i ELSE its[i]]
  BY DEF Insert
<1>2. ASSUME NEW x \in new
      PROVE  its[first(x)].kind = "none"
  <2>1. Spare(its, x.kind, x.market) \in SUBSET Nat
    <3>1. <<x.kind, x.market>> \in {"settle_market", "escrow_set"} \X Markets
      BY DEF IntentKinds
    <3>2. IdsFor[<<x.kind, x.market>>] \in SUBSET Nat
      BY <3>1, IdsAssumption
    <3> QED
      BY <3>2 DEF Spare
  <2>2. \E i \in Spare(its, x.kind, x.market) : \A j \in Spare(its, x.kind, x.market) : i <= j
    BY <2>1, LeastNatural
  <2>3. first(x) \in Spare(its, x.kind, x.market)
    BY <2>2
  <2> HIDE DEF first
  <2>4. its[first(x)] = Unused
    BY <2>3, Zenon DEF Spare
  <2> QED
    BY <2>4 DEF Unused
<1> HIDE DEF first
<1>3. \A i \in UsedIds(its) : Insert(its, new)[i] = its[i]
  BY <1>1, <1>2 DEF UsedIds
<1> QED
  BY <1>3, InsertType DEF Refines

-----------------------------------------------------------------------------
(* What is over *)

Without(vault, over) == [vault EXCEPT !.processed = @ \ over]

LEMMA WithoutFields ==
  ASSUME NEW vault \in VaultSet, NEW over
  PROVE  /\ Without(vault, over) \in VaultSet
         /\ Without(vault, over).balance = vault.balance
         /\ Without(vault, over).escrow = vault.escrow
         /\ Without(vault, over).settled = vault.settled
         /\ Without(vault, over).processed = vault.processed \ over
         /\ Without(vault, over).cancelled = vault.cancelled
<1>1. /\ Without(vault, over).balance = vault.balance
      /\ Without(vault, over).escrow = vault.escrow
      /\ Without(vault, over).settled = vault.settled
      /\ Without(vault, over).processed = vault.processed \ over
      /\ Without(vault, over).cancelled = vault.cancelled
  BY Zenon DEF Without, VaultSet
<1>2. Without(vault, over) \in VaultSet
  BY DEF Without, VaultSet
<1> QED
  BY <1>1, <1>2

\* The elements of a sequence decide what it is a sequence of.
LEMMA SeqOfElements ==
  ASSUME NEW U, NEW s \in Seq(U), NEW W, ToSet(s) \subseteq W
  PROVE  s \in Seq(W)
<1>1. Len(s) \in Nat /\ DOMAIN s = 1..Len(s) /\ s \in [1..Len(s) -> U]
  OBVIOUS
<1>2. \A k \in 1..Len(s) : s[k] \in W
  BY <1>1 DEF ToSet
<1>3. s \in [1..Len(s) -> W]
  BY <1>1, <1>2
<1> QED
  BY <1>1, <1>3, SeqDef

\* Forgetting what is over disturbs neither a queue nor a settled market.
LEMMA BecomeKeeps ==
  ASSUME NEW its, NEW vault, NEW blocks, NEW pool,
         Consistent(its, vault, blocks, pool), Become(its, vault, blocks, pool)
  PROVE  /\ Consistent(intents', final', blocks, pool)
         /\ final'.settled = vault.settled
<1> DEFINE queued == ToSet(FlattenSeq(blocks)) \union ToSet(pool)
           over == {i \in Ids : Over(i, its, vault, queued)}
           U == UsedIds(its)
           W == UsedIds(intents')
<1>1. /\ intents' = [i \in Ids |-> IF i \in over THEN Unused ELSE its[i]]
      /\ final' = Without(vault, over)
  BY Zenon DEF Become, Without
<1>2. over \in SUBSET Ids /\ over \intersect queued = {}
  BY DEF Over
<1>3. /\ its \in [Ids -> IntentSet] /\ vault \in VaultSet /\ Sound(vault) /\ Honours(vault, its)
      /\ blocks \in Seq(Seq(U)) /\ pool \in Seq(U)
  BY DEF Consistent
<1> HIDE DEF over, U
<1>4. U \ over \subseteq W
  BY <1>1 DEF UsedIds, U
<1> HIDE DEF W
<1>5. ToSet(pool) \subseteq W /\ \A k \in 1..Len(blocks) : ToSet(blocks[k]) \subseteq W
  <2>1. /\ ToSet(FlattenSeq(blocks)) = UNION {ToSet(blocks[k]) : k \in 1..Len(blocks)}
        /\ FlattenSeq(blocks) \in Seq(U)
    BY <1>3, FlattenElements
  <2>2. ToSet(FlattenSeq(blocks)) \subseteq U /\ ToSet(pool) \subseteq U
    BY <1>3, <2>1, ElementsType
  <2>3. queued \subseteq W
    BY <1>2, <1>4, <2>2
  <2>4. \A k \in 1..Len(blocks) : ToSet(blocks[k]) \subseteq ToSet(FlattenSeq(blocks))
    BY <2>1
  <2> QED
    BY <2>3, <2>4
<1>6. pool \in Seq(W)
  BY <1>3, <1>5, SeqOfElements
<1>7. blocks \in Seq(Seq(W))
  <2>1. Len(blocks) \in Nat /\ DOMAIN blocks = 1..Len(blocks)
        /\ \A k \in 1..Len(blocks) : blocks[k] \in Seq(U)
    BY <1>3
  <2>2. \A k \in 1..Len(blocks) : blocks[k] \in Seq(W)
    BY <1>5, <2>1, SeqOfElements
  <2>3. blocks = [k \in 1..Len(blocks) |-> blocks[k]]
    BY <1>3, <2>1
  <2>4. blocks \in [1..Len(blocks) -> Seq(W)]
    BY <2>2, <2>3
  <2> QED
    BY <2>1, <2>4, SeqDef
<1>8. intents' \in [Ids -> IntentSet]
  <2>1. Unused \in IntentSet
    BY DEF Unused, IntentSet
  <2> QED
    BY <1>1, <1>3, <2>1
<1>9. /\ final' \in VaultSet /\ final'.settled = vault.settled
      /\ final'.balance = vault.balance /\ final'.escrow = vault.escrow
      /\ final'.processed = vault.processed \ over /\ final'.cancelled = vault.cancelled
  BY <1>1, <1>3, WithoutFields
<1>10. Sound(final')
  BY <1>3, <1>9 DEF Sound
<1>11. Honours(final', intents')
  <2>1. ASSUME NEW i \in final'.processed
        PROVE  intents'[i] = its[i] /\ i \in vault.processed
    <3>1. i \in vault.processed /\ i \notin over /\ i \in Ids
      BY <1>3, <1>9, <2>1 DEF VaultSet
    <3> QED
      BY <1>1, <3>1
  <2> QED
    BY <1>3, <1>9, <2>1 DEF Honours
<1> QED
  BY <1>6, <1>7, <1>8, <1>9, <1>10, <1>11 DEF Consistent, W

-----------------------------------------------------------------------------
(* The invariant *)

EscrowTypes ==
  /\ phase \in [Markets -> {"open", "settling", "settled"}]
  /\ collateral \in [Markets -> Nat]
  /\ DOMAIN pass.want \subseteq Markets
  /\ \A m \in DOMAIN pass.want : pass.want[m] \in Nat

EscrowInv ==
  /\ EscrowTypes
  /\ Consistent(intents, final, pending, mempool)
  /\ \A m \in Markets : phase[m] = "settled" => m \in final.settled

LEMMA EscrowInit == Init => EscrowInv
<1> SUFFICES ASSUME Init
             PROVE  EscrowInv
  OBVIOUS
<1>1. /\ Custody \in Nat /\ Staked \in [Markets -> Nat]
      /\ Escrowed \in [Markets -> Nat] /\ SumFunction(Escrowed) <= Custody
      /\ EscrowExpiryBlocks \in Nat /\ Underway \subseteq Markets \X Nat
  BY StakedAssumption, HeightsAssumption, UnderwayAssumption
<1>2. EscrowTypes
  BY <1>1 DEF Init, EscrowTypes, NoPass
<1>3. final = [balance |-> Custody, escrow |-> Escrowed, settled |-> {}, processed |-> {},
               cancelled |-> {}]
  BY DEF Init, Sim!Contract!NewVault
<1>4. final \in VaultSet /\ Sound(final) /\ \A its : Honours(final, its)
  BY <1>1, <1>3 DEF VaultSet, Sound, Honours
<1>5. intents \in [Ids -> IntentSet]
  <2>1. [i \in Ids |-> Unused] \in [Ids -> IntentSet]
    BY DEF Unused, IntentSet
  <2>2. ASSUME NEW u \in Underway
        PROVE  Instruction(u[1], u[2]) \in IntentSet
    <3>1. u[1] \in Markets /\ u[2] \in Nat /\ "escrow_set" \in IntentKinds
      BY <1>1 DEF IntentKinds
    <3>2. Top + EscrowExpiryBlocks \in Nat
      BY <1>1 DEF Init, Top, Base
    <3> QED
      BY <3>1, <3>2, NewIntent DEF Instruction
  <2>3. {Instruction(u[1], u[2]) : u \in Underway} \in SUBSET IntentSet
    BY <2>2
  <2> QED
    BY <2>1, <2>3, InsertType DEF Init
<1>6. pending = <<>> /\ mempool = <<>> /\ \A m \in Markets : phase[m] = "open"
  BY DEF Init
<1>7. Consistent(intents, final, pending, mempool)
  BY <1>4, <1>5, <1>6 DEF Consistent
<1> QED
  BY <1>2, <1>6, <1>7 DEF EscrowInv

\* A step that leaves the chain and the settled markets alone.
LEMMA QuietKeeps ==
  ASSUME EscrowInv, EscrowTypes', Refines(intents, intents'), UNCHANGED chainVars,
         \A m \in Markets : phase'[m] = "settled" => phase[m] = "settled"
  PROVE  EscrowInv'
<1>1. Consistent(intents', final, pending, mempool)
  BY RefinedConsistent DEF EscrowInv
<1>2. final' = final /\ pending' = pending /\ mempool' = mempool
  BY DEF chainVars
<1>3. Consistent(intents', final', pending', mempool')
  BY <1>1, <1>2
<1> QED
  BY <1>2, <1>3 DEF EscrowInv

LEMMA RefinesItself == Consistent(intents, final, pending, mempool) => Refines(intents, intents)
BY DEF Consistent, Refines

LEMMA TradeKeeps ==
  ASSUME EscrowInv, NEW m, NEW c, Trade(m, c)
  PROVE  EscrowInv'
<1>1. c \in Nat /\ m \in Markets
  BY MovesAssumption DEF Trade
<1>2. /\ phase' = phase /\ pass' = pass /\ intents' = intents /\ UNCHANGED chainVars
      /\ collateral' = [collateral EXCEPT ![m] = c]
  BY DEF Trade, syncVars
<1>3. EscrowTypes'
  BY <1>1, <1>2 DEF EscrowInv, EscrowTypes
<1>4. Refines(intents, intents')
  BY <1>2, RefinesItself DEF EscrowInv
<1> QED
  BY <1>2, <1>3, <1>4, QuietKeeps

LEMMA RequestKeeps ==
  ASSUME EscrowInv, NEW m \in Markets, RequestSettlement(m)
  PROVE  EscrowInv'
<1> DEFINE intent == Intent("settle_market", m, 0, 0)
<1>1. /\ pass' = pass /\ collateral' = collateral /\ UNCHANGED chainVars
      /\ phase' = [phase EXCEPT ![m] = "settling"]
      /\ intents' = Insert(intents, {intent})
      /\ Spare(intents, "settle_market", m) # {}
  BY DEF RequestSettlement, syncVars
<1>2. EscrowTypes'
  BY <1>1 DEF EscrowInv, EscrowTypes
<1>3. /\ intent \in IntentSet /\ intent.kind = "settle_market" /\ intent.market = m
      /\ intent.kind \in IntentKinds
  BY NewIntent DEF IntentKinds
<1> HIDE DEF intent
<1>4. intents \in [Ids -> IntentSet]
  BY DEF EscrowInv, Consistent
<1>5. Refines(intents, intents')
  BY <1>1, <1>3, <1>4, InsertRefines
<1>6. \A n \in Markets : phase'[n] = "settled" => phase[n] = "settled"
  BY <1>1 DEF EscrowInv, EscrowTypes
<1> QED
  BY <1>1, <1>2, <1>5, <1>6, QuietKeeps

LEMMA SubmitKeeps ==
  ASSUME EscrowInv, NEW i \in Ids, NEW receipt \in BOOLEAN, Submit(i, receipt)
  PROVE  EscrowInv'
<1>1. /\ intents[i].row = "pending"
      /\ mempool' = mempool \/ mempool' = Append(mempool, i)
      /\ intents' = intents \/ intents' = [intents EXCEPT ![i].row = "sent"]
      /\ phase' = phase /\ collateral' = collateral /\ pass' = pass
      /\ final' = final /\ pending' = pending
  BY DEF Submit, ledgerVars, syncVars
<1>2. /\ intents \in [Ids -> IntentSet] /\ mempool \in Seq(UsedIds(intents))
      /\ pending \in Seq(Seq(UsedIds(intents)))
  BY DEF EscrowInv, Consistent
<1>3. i \in UsedIds(intents)
  BY <1>1, <1>2 DEF IntentSet, UsedIds
<1>4. mempool' \in Seq(UsedIds(intents))
  <2>1. Append(mempool, i) \in Seq(UsedIds(intents))
    BY <1>2, <1>3, AppendElements
  <2> QED
    BY <1>1, <1>2, <2>1
<1>5. Consistent(intents, final, pending, mempool')
  BY <1>4 DEF EscrowInv, Consistent
<1>6. Refines(intents, intents')
  BY <1>1, <1>2, <1>3, SentRefines, RefinesItself DEF EscrowInv
<1>7. Consistent(intents', final, pending, mempool')
  BY <1>5, <1>6, RefinedConsistent
<1>8. Consistent(intents', final', pending', mempool')
  BY <1>1, <1>7
<1>9. EscrowTypes'
  BY <1>1 DEF EscrowInv, EscrowTypes
<1> QED
  BY <1>1, <1>8, <1>9 DEF EscrowInv

\* The engine decides an intent.
LEMMA DecideKeeps ==
  ASSUME EscrowInv, NEW i \in Ids, NEW state \in {"confirmed", "expired"}, Decide(i, state),
         UNCHANGED <<pending, mempool>>
  PROVE  /\ Consistent(intents', final', pending', mempool')
         /\ final'.settled = final.settled
<1> DEFINE its == [intents EXCEPT ![i].state = state]
<1>1. Become(its, final, pending, mempool)
  BY DEF Decide
<1>2. intents \in [Ids -> IntentSet]
  BY DEF EscrowInv, Consistent
<1>3. Refines(intents, its)
  BY <1>2, DecidedRefines
<1> HIDE DEF its
<1>4. Consistent(its, final, pending, mempool)
  BY <1>3, RefinedConsistent DEF EscrowInv
<1>5. Consistent(intents', final', pending, mempool) /\ final'.settled = final.settled
  BY <1>1, <1>4, BecomeKeeps
<1> QED
  BY <1>5

\* A settlement is confirmed once the final vault has executed it.
LEMMA ConfirmKeeps ==
  ASSUME EscrowInv, NEW i \in Ids, Confirm(i)
  PROVE  EscrowInv'
<1> DEFINE m == intents[i].market
<1>1. /\ Decide(i, "confirmed") /\ UNCHANGED <<pending, mempool>> /\ i \in final.processed
      /\ pass' = pass
      /\ IF intents[i].kind = "settle_market"
         THEN /\ phase' = [phase EXCEPT ![m] = "settled"]
              /\ collateral' = [collateral EXCEPT ![m] = 0]
         ELSE UNCHANGED <<phase, collateral>>
  BY DEF Confirm, Finalized, syncVars
<1>2. /\ Consistent(intents', final', pending', mempool')
      /\ final'.settled = final.settled
  BY <1>1, DecideKeeps
<1>3. intents[i].kind = "settle_market" => m \in final.settled
  BY <1>1 DEF EscrowInv, Consistent, Honours
<1> HIDE DEF m
<1>4. EscrowTypes'
  BY <1>1 DEF EscrowInv, EscrowTypes
<1>5. \A n \in Markets : phase'[n] = "settled" => n \in final'.settled
  BY <1>1, <1>2, <1>3 DEF EscrowInv, EscrowTypes
<1> QED
  BY <1>2, <1>4, <1>5 DEF EscrowInv

LEMMA GiveUpKeeps ==
  ASSUME EscrowInv, NEW i \in Ids, GiveUp(i)
  PROVE  EscrowInv'
<1>1. /\ Decide(i, "expired") /\ UNCHANGED <<pending, mempool>>
      /\ pass' = pass /\ phase' = phase /\ collateral' = collateral
  BY DEF GiveUp, syncVars, ledgerVars
<1>2. /\ Consistent(intents', final', pending', mempool')
      /\ final'.settled = final.settled
  BY <1>1, DecideKeeps
<1>3. EscrowTypes'
  BY <1>1 DEF EscrowInv, EscrowTypes
<1> QED
  BY <1>1, <1>2, <1>3 DEF EscrowInv

LEMMA ReadLedgerKeeps ==
  ASSUME EscrowInv, ReadLedger
  PROVE  EscrowInv'
<1> DEFINE live == {m \in Markets : phase[m] # "settled"}
<1>1. /\ pass' = [want |-> [m \in live |-> collateral[m]], target |-> [m \in live |-> Target(m)]]
      /\ phase' = phase /\ collateral' = collateral /\ intents' = intents /\ UNCHANGED chainVars
  BY DEF ReadLedger, ledgerVars
<1>2. pass'.want = [m \in live |-> collateral[m]]
  BY <1>1
<1>3. EscrowTypes'
  BY <1>1, <1>2 DEF EscrowInv, EscrowTypes
<1>4. Refines(intents, intents')
  BY <1>1, RefinesItself DEF EscrowInv
<1> QED
  BY <1>1, <1>3, <1>4, QuietKeeps

LEMMA SyncKeeps ==
  ASSUME EscrowInv, NEW visited, Sync(visited)
  PROVE  EscrowInv'
<1> DEFINE issued == {m \in visited : NeedsInstruction(m)}
           new == {Instruction(m, pass.want[m]) : m \in issued}
<1>1. /\ visited \subseteq DOMAIN pass.want
      /\ \A m \in issued : Spare(intents, "escrow_set", m) # {}
      /\ intents' = Insert(intents, new)
      /\ pass' = NoPass /\ phase' = phase /\ collateral' = collateral /\ UNCHANGED chainVars
  BY DEF Sync, ledgerVars
<1>2. /\ intents \in [Ids -> IntentSet] /\ Len(pending) \in Nat
      /\ \A m \in DOMAIN pass.want : m \in Markets /\ pass.want[m] \in Nat
  BY DEF EscrowInv, EscrowTypes, Consistent
<1>3. Top + EscrowExpiryBlocks \in Nat
  BY <1>2, HeightsAssumption DEF Top, Base
<1>4. ASSUME NEW m \in issued
      PROVE  /\ Instruction(m, pass.want[m]) \in IntentSet
             /\ Instruction(m, pass.want[m]).kind = "escrow_set"
             /\ Instruction(m, pass.want[m]).market = m
             /\ m \in Markets
  <2>1. m \in Markets /\ pass.want[m] \in Nat /\ "escrow_set" \in IntentKinds
    BY <1>1, <1>2 DEF IntentKinds
  <2> QED
    BY <1>3, <2>1, NewIntent DEF Instruction
<1> HIDE DEF issued
<1>5. new \in SUBSET IntentSet /\ \A x \in new : /\ x.kind \in IntentKinds /\ x.market \in Markets
                                                 /\ Spare(intents, x.kind, x.market) # {}
  BY <1>1, <1>4 DEF IntentKinds
<1> HIDE DEF new
<1>6. Refines(intents, intents')
  BY <1>1, <1>2, <1>5, InsertRefines
<1>7. EscrowTypes'
  BY <1>1 DEF EscrowInv, EscrowTypes, NoPass
<1> QED
  BY <1>1, <1>6, <1>7, QuietKeeps

\* The calls of ids in use are calls the chain knows, for the intents' markets.
LEMMA CallsType ==
  ASSUME NEW ids \in Seq(UsedIds(intents)), intents \in [Ids -> IntentSet]
  PROVE  /\ Calls(ids) \in Seq(CallSet) /\ Len(Calls(ids)) = Len(ids)
         /\ Asked(Calls(ids), intents)
         /\ \A tx \in ToSet(Calls(ids)) : tx.nonce \in UsedIds(intents)
<1>1. Len(ids) \in Nat /\ \A k \in 1..Len(ids) : ids[k] \in UsedIds(intents)
  OBVIOUS
<1>2. Calls(ids) = [k \in 1..Len(ids) |-> Call(ids[k])]
  BY DEF Calls
<1>3. ASSUME NEW i \in UsedIds(intents)
      PROVE  /\ Call(i) \in CallSet /\ Call(i).kind \in IntentKinds
             /\ Call(i).nonce = i /\ Call(i).kind = intents[i].kind
             /\ Call(i).market = intents[i].market
  <2>1. i \in Ids /\ intents[i].kind # "none"
    BY DEF UsedIds
  <2>2. /\ intents[i].kind \in IntentKinds /\ intents[i].market \in Markets
        /\ intents[i].amount \in Nat /\ intents[i].expiry \in Nat
    BY <2>1 DEF IntentSet
  <2> QED
    BY <2>1, <2>2 DEF Call, CallSet, IntentKinds
<1>4. \A k \in 1..Len(ids) : Calls(ids)[k] = Call(ids[k])
  BY <1>2
<1>5. Calls(ids) \in Seq(CallSet) /\ Len(Calls(ids)) = Len(ids)
  BY <1>1, <1>2, <1>3
<1>6. Asked(Calls(ids), intents)
  BY <1>1, <1>3, <1>4, <1>5 DEF Asked
<1>7. \A tx \in ToSet(Calls(ids)) : tx.nonce \in UsedIds(intents)
  BY <1>1, <1>3, <1>4, <1>5 DEF ToSet
<1> QED
  BY <1>5, <1>6, <1>7

LEMMA BlocksType ==
  ASSUME NEW blocks \in Seq(Seq(UsedIds(intents))), intents \in [Ids -> IntentSet]
  PROVE  Blocks(blocks) \in Seq(Seq(CallSet))
<1>1. Len(blocks) \in Nat /\ \A k \in 1..Len(blocks) : blocks[k] \in Seq(UsedIds(intents))
  OBVIOUS
<1>2. \A k \in 1..Len(blocks) : Calls(blocks[k]) \in Seq(CallSet)
  BY <1>1, CallsType
<1> QED
  BY <1>1, <1>2 DEF Blocks

\* A new block, after a reorg of this depth.
LEMMA MineKeeps ==
  ASSUME EscrowInv, NEW depth \in 0..Len(pending), NEW shuffled \in Seq(UsedIds(intents)),
         Mine(depth, shuffled)
  PROVE  EscrowInv'
<1> DEFINE U      == UsedIds(intents)
           kept   == SubSeq(pending, 1, Len(pending) - depth)
           recs   == [i \in Ids |-> Sim!NoReceipt]
           below  == Sim!HeadOver(Blocks(kept))
           pool   == Calls(shuffled \o mempool)
           height == Base + Len(kept) + 1
           block  == Sim!Assemble(below, recs, pool, height)
           nonces == [k \in 1..Len(block.txs) |-> block.txs[k].nonce]
           blocks == Append(kept, nonces)
           older  == [i \in Ids |-> [intents[i] EXCEPT !.expiry = Shift(@)]]
           first  == Sim!ApplyBlock(final, Calls(blocks[1]), Base + 1)
<1>1. /\ mempool' = <<>> /\ phase' = phase /\ collateral' = collateral /\ pass' = pass
      /\ IF Sim!FinalityDue(blocks)
         THEN /\ pending' = Tail(blocks)
              /\ Become(older, first, Tail(blocks), <<>>)
         ELSE /\ pending' = blocks
              /\ Become(intents, final, blocks, <<>>)
  BY Zenon DEF Mine, ledgerVars, syncVars
<1>2. /\ intents \in [Ids -> IntentSet] /\ final \in VaultSet /\ Sound(final)
      /\ Honours(final, intents)
      /\ pending \in Seq(Seq(U)) /\ mempool \in Seq(U) /\ shuffled \in Seq(U)
  BY DEF EscrowInv, Consistent
<1>3. /\ kept \in Seq(Seq(U)) /\ Len(kept) = Len(pending) - depth /\ Len(kept) \in Nat
  BY <1>2
<1> HIDE DEF kept
<1>4. Blocks(kept) \in Seq(Seq(CallSet))
  BY <1>2, <1>3, BlocksType
<1>5. below \in VaultSet
  BY <1>2, <1>4, HeadKeeps
<1>6. shuffled \o mempool \in Seq(U)
  BY <1>2
<1>7. pool \in Seq(CallSet) /\ \A tx \in ToSet(pool) : tx.nonce \in U
  BY <1>2, <1>6, CallsType
<1>8. height \in Nat
  BY <1>3 DEF Base
<1> HIDE DEF below, pool, height, U
<1>9. block \in Chain!Assembled(below, recs, pool, height)
  <2>1. recs \in [Ids -> Chain!Receipt]
    <3>1. Sim!NoReceipt \in Chain!Receipt
      BY DEF Sim!NoReceipt, Chain!Receipt, Chain!Reasons
    <3> QED
      BY <3>1
  <2> HIDE DEF recs
  <2>2. below \in Chain!Contract!Vaults /\ pool \in Seq(Chain!Contract!Call)
    BY <1>5, <1>7, ChainSets
  <2>3. Chain!Assemble(below, recs, pool, height) \in Chain!Assembled(below, recs, pool, height)
    BY <1>8, <2>1, <2>2, ChainAssumptions, Chain!AssembleType
  <2> QED
    BY <2>3, SameAssembly
<1> HIDE DEF block
<1>10. block.txs \in Seq(CallSet) /\ ToSet(block.txs) \subseteq ToSet(pool)
  <2>1. block.txs \in Seq(Chain!Contract!Call)
    BY <1>9 DEF Chain!Assembled, Chain!Block
  <2>2. Chain!ToSet(block.txs) \subseteq Chain!ToSet(pool)
    BY <1>9 DEF Chain!Assembled
  <2>3. \A s : Chain!ToSet(s) = ToSet(s)
    BY DEF Chain!ToSet, ToSet
  <2> QED
    BY <2>1, <2>2, <2>3, ChainSets
<1>11. nonces \in Seq(U)
  <2>1. Len(block.txs) \in Nat /\ \A k \in 1..Len(block.txs) : block.txs[k] \in ToSet(block.txs)
    BY <1>10 DEF ToSet
  <2>2. \A k \in 1..Len(block.txs) : block.txs[k].nonce \in U
    BY <1>7, <1>10, <2>1
  <2> QED
    BY <2>1, <2>2
<1> HIDE DEF nonces
<1>12. blocks \in Seq(Seq(U)) /\ Len(blocks) = Len(kept) + 1
  BY <1>3, <1>11
<1> HIDE DEF blocks
<1>13. <<>> \in Seq(U)
  OBVIOUS
<1>14. /\ Consistent(intents', final', pending', mempool')
       /\ final.settled \subseteq final'.settled
  <2>1. CASE ~Sim!FinalityDue(blocks)
    <3>1. Consistent(intents, final, blocks, <<>>)
      BY <1>2, <1>12, <1>13 DEF Consistent, U
    <3>2. Become(intents, final, blocks, <<>>) /\ pending' = blocks /\ mempool' = <<>>
      BY <1>1, <2>1
    <3>3. Consistent(intents', final', blocks, <<>>) /\ final'.settled = final.settled
      BY <3>1, <3>2, BecomeKeeps
    <3> QED
      BY <3>2, <3>3
  <2>2. CASE Sim!FinalityDue(blocks)
    <3>1. Len(blocks) > 0
      BY <1>3, <1>12
    <3>2. blocks[1] \in Seq(U) /\ Tail(blocks) \in Seq(Seq(U))
      BY <1>12, <3>1
    <3>3. Calls(blocks[1]) \in Seq(CallSet) /\ Asked(Calls(blocks[1]), intents)
      BY <1>2, <3>2, CallsType DEF U
    <3>4. /\ first \in VaultSet /\ Sound(first) /\ final.settled \subseteq first.settled
          /\ Honours(first, intents)
      <4>1. Base + 1 \in Nat
        BY DEF Base
      <4> QED
        BY <1>2, <3>3, <4>1, BlockKeeps
    <3> HIDE DEF first
    <3>5. Consistent(intents, first, Tail(blocks), <<>>)
      BY <1>2, <1>13, <3>2, <3>4 DEF Consistent, U
    <3>6. Refines(intents, older)
      BY <1>2, ShiftedRefines
    <3>7. Become(older, first, Tail(blocks), <<>>) /\ pending' = Tail(blocks) /\ mempool' = <<>>
      BY <1>1, <2>2
    <3> HIDE DEF older
    <3>8. Consistent(older, first, Tail(blocks), <<>>)
      BY <3>5, <3>6, RefinedConsistent
    <3>9. Consistent(intents', final', Tail(blocks), <<>>) /\ final'.settled = first.settled
      BY <3>7, <3>8, BecomeKeeps
    <3> QED
      BY <3>4, <3>7, <3>9
  <2> QED
    BY <2>1, <2>2
<1>15. EscrowTypes'
  BY <1>1 DEF EscrowInv, EscrowTypes
<1> QED
  BY <1>1, <1>14, <1>15 DEF EscrowInv

LEMMA ReorgKeeps ==
  ASSUME EscrowInv, Reorg
  PROVE  EscrowInv'
<1>1. PICK depth \in 1..Len(pending) :
        \E shuffled \in SetToSeqs(ToSet(FlattenSeq(SubSeq(pending, Len(pending) - depth + 1, Len(pending))))) :
          Mine(depth, shuffled)
  BY DEF Reorg
<1> DEFINE dropped == SubSeq(pending, Len(pending) - depth + 1, Len(pending))
<1>2. PICK shuffled \in SetToSeqs(ToSet(FlattenSeq(dropped))) : Mine(depth, shuffled)
  BY <1>1
<1>3. pending \in Seq(Seq(UsedIds(intents)))
  BY DEF EscrowInv, Consistent
<1>4. dropped \in Seq(Seq(UsedIds(intents)))
  BY <1>3
<1> HIDE DEF dropped
<1>5. FlattenSeq(dropped) \in Seq(UsedIds(intents))
  BY <1>4, FlattenElements
<1>6. /\ ToSet(FlattenSeq(dropped)) \in SUBSET UsedIds(intents)
      /\ IsFiniteSet(ToSet(FlattenSeq(dropped)))
  BY <1>5, ElementsType
<1>7. shuffled \in Seq(UsedIds(intents))
  BY <1>6, OrderType
<1>8. depth \in 0..Len(pending)
  OBVIOUS
<1> QED
  BY <1>2, <1>7, <1>8, MineKeeps

LEMMA EscrowStepKeeps == EscrowInv /\ [Next]_vars => EscrowInv'
<1> SUFFICES ASSUME EscrowInv, [Next]_vars
             PROVE  EscrowInv'
  OBVIOUS
<1>1. ASSUME UNCHANGED <<ledgerVars, intents, syncVars, chainVars>>
      PROVE  EscrowInv'
  <2>1. EscrowTypes' /\ phase' = phase
    BY <1>1 DEF EscrowInv, EscrowTypes, ledgerVars, syncVars
  <2>2. Refines(intents, intents')
    BY <1>1, RefinesItself DEF EscrowInv
  <2> QED
    BY <1>1, <2>1, <2>2, QuietKeeps
<1>2. CASE ReadHead
  BY <1>1, <1>2 DEF ReadHead
<1>3. CASE NewBlock
  <2>1. <<>> \in Seq(UsedIds(intents)) /\ 0 \in 0..Len(pending)
    BY DEF EscrowInv, Consistent
  <2> QED
    BY <1>3, <2>1, MineKeeps DEF NewBlock
<1>4. CASE UNCHANGED vars
  BY <1>1, <1>4 DEF vars
<1> QED
  BY <1>2, <1>3, <1>4, TradeKeeps, RequestKeeps, SubmitKeeps, ConfirmKeeps, GiveUpKeeps,
     ReadLedgerKeeps, SyncKeeps, ReorgKeeps DEF Next, FullPass, CutPass

THEOREM EscrowAlways == Spec => []EscrowInv
<1> QED
  BY EscrowInit, EscrowStepKeeps, PTL DEF Spec

\* SettledMarketHoldsNoEscrow: once the ledger has settled a market, the vault
\* holds no escrow for it at finality or at any block above, and no instruction
\* still on its way can bring it back.
THEOREM SettledHoldsNone == Spec => []SettledMarketHoldsNoEscrow
<1>1. EscrowInv => SettledMarketHoldsNoEscrow
  <2> SUFFICES ASSUME EscrowInv, NEW m \in Markets, phase[m] = "settled"
               PROVE  m \in final.settled /\ final.escrow[m] = 0 /\ Sim!HeadVault.escrow[m] = 0
    BY DEF SettledMarketHoldsNoEscrow
  <2>1. /\ m \in final.settled /\ final \in VaultSet /\ Sound(final)
        /\ intents \in [Ids -> IntentSet] /\ pending \in Seq(Seq(UsedIds(intents)))
    BY DEF EscrowInv, Consistent
  <2>2. Sim!HeadVault = Sim!HeadOver(Blocks(pending))
    BY DEF Sim!HeadVault
  <2>3. Sound(Sim!HeadVault) /\ final.settled \subseteq Sim!HeadVault.settled
    BY <2>1, <2>2, BlocksType, HeadKeeps
  <2> QED
    BY <2>1, <2>3 DEF Sound
<1> QED
  BY <1>1, EscrowAlways, PTL
=============================================================================
