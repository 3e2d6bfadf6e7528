------------------------------- MODULE Escrow -------------------------------
(***************************************************************************)
(* Escrow synchronisation (internal/app/escrow.go): the sync pass compares *)
(* the collateral of each market in the ledger with the vault's escrow and *)
(* asks for an escrow_set instruction (internal/core/intent.go) where they *)
(* differ; the outbox submits it, the resolver confirms it or gives it up  *)
(* (internal/app/app.go), and meanwhile positions are traded and a market  *)
(* is settled.  The vault and the blocks are those of ChainSim.            *)
(*                                                                         *)
(* Heights count from the newest final block, which is always at Base:     *)
(* when a block turns final every height known is shifted by one, and one  *)
(* that is below Base stays at Base.  An instruction that the engine has   *)
(* decided and the chain can execute no more is forgotten, and its id used *)
(* again.  So the system runs for ever in finitely many states.            *)
(*                                                                         *)
(* Receipts say what the blocks say (ReceiptsMatchBlocks in                *)
(* ChainSimProperties), so TxStatus is read off the blocks.                *)
(***************************************************************************)
EXTENDS Integers, SequencesExt

CONSTANTS
  Markets,             \* numbers, because a pass takes them in order
  IdsFor,              \* numbers: the ids of each market's intents of each kind
  Custody,             \* what the vault holds; user deposits stand still
  Staked,              \* each market's collateral to begin with
  Escrowed,            \* and its escrow
  Underway,            \* market and target of the instructions in flight then
  Confirms,
  EscrowExpiryBlocks,
  StuckThreshold,      \* EscrowStuckThreshold
  Moves,               \* market and collateral a trade may lead to
  Judged,              \* markets whose outcome comes to be known
  MaxEvents            \* bound: trades, settlements, reorgs, lost receipts, cut passes

ASSUME NumbersAssumption == Markets \subseteq Nat /\ IsFiniteSet(Markets)
ASSUME IdsAssumption ==
  /\ IdsFor \in [{"settle_market", "escrow_set"} \X Markets -> SUBSET Nat]
  /\ \A a, b \in DOMAIN IdsFor : IdsFor[a] \intersect IdsFor[b] # {} => a = b
ASSUME StakedAssumption ==
  /\ Custody \in Nat
  /\ Staked \in [Markets -> Nat] /\ SumFunction(Staked) <= Custody
  /\ Escrowed \in [Markets -> Nat] /\ SumFunction(Escrowed) <= Custody
ASSUME HeightsAssumption == Confirms \in Nat \ {0} /\ EscrowExpiryBlocks \in Nat \ {0}
ASSUME UnderwayAssumption ==
  Underway \subseteq Markets \X Nat /\ \A u, v \in Underway : u[1] = v[1] => u = v
ASSUME MovesAssumption == Moves \subseteq Markets \X Nat /\ Judged \subseteq Markets
ASSUME BoundsAssumption == StuckThreshold \in Nat \ {0} /\ MaxEvents \in Nat

VARIABLES
  phase,         \* markets.state
  collateral,    \* sum of the open positions' collateral, per market
  intents,       \* settle_market and escrow_set intents with their outbox rows
  drift,         \* escrow_drift, a row or NoRow per market
  pass,          \* the sync pass and what it has read
  due,           \* instructions past their expiry at the head the resolver read
  final,         \* the vault at the newest final block
  pending,       \* the blocks above it, oldest first, as sequences of ids
  mempool,       \* calls waiting for a block
  events         \* how many there were, for the bound

ledgerVars == <<phase, collateral>>
syncVars == <<drift, pass>>
chainVars == <<final, pending, mempool>>
vars == <<ledgerVars, intents, syncVars, due, chainVars, events>>

-----------------------------------------------------------------------------
(* The chain *)

\* Intent ids, which are the nonces of the calls.
Ids == UNION Range(IdsFor)

Base == 1

Top == Base + Len(pending)

\* The call of an intent, as its outbox row has it.
Call(i) == [nonce |-> i, kind |-> intents[i].kind, market |-> intents[i].market,
            amount |-> intents[i].amount, expiry |-> intents[i].expiry]

Calls(ids) == [k \in 1..Len(ids) |-> Call(ids[k])]

Blocks(blocks) == [k \in 1..Len(blocks) |-> Calls(blocks[k])]

Sim == INSTANCE ChainSim WITH
  Nonces <- Ids, Requests <- {}, MaxHeight <- 0, MaxUnfinal <- 0, head <- Top,
  finalHeight <- Base, pending <- Blocks(pending), mempool <- Calls(mempool),
  receipts <- <<>>, trace <- <<>>

\* TxStatus: in a block, and in a final one.
Processed(i) == i \in Sim!HeadVault.processed

\* fault: a block is enough
FinalizedOnInclusion(i) == Processed(i)

Finalized(i) == i \in final.processed

-----------------------------------------------------------------------------
(* Intents *)

\* No intent has the id.
Unused == [kind |-> "none", market |-> 0, amount |-> 0, expiry |-> 0,
           state |-> "none", row |-> "none"]

\* State `inflight' is reserved or submitted.  A row is `sent' once Submit has
\* answered without an error, `pending' until then.
Intent(kind, m, amount, expiry) ==
  [kind |-> kind, market |-> m, amount |-> amount, expiry |-> expiry,
   state |-> "inflight", row |-> "pending"]

InFlight(kind, m) ==
  {i \in Ids : /\ intents[i].kind = kind /\ intents[i].market = m
               /\ intents[i].state = "inflight"}

Spare(its, kind, m) == {i \in IdsFor[kind, m] : its[i] = Unused}

\* Intents of different kinds or markets, each on the first id spare for it.
Insert(its, new) ==
  LET first(intent) == LET spare == Spare(its, intent.kind, intent.market)
                       IN CHOOSE i \in spare : \A j \in spare : i <= j
  IN [i \in Ids |-> IF \E intent \in new : first(intent) = i
                    THEN CHOOSE intent \in new : first(intent) = i ELSE its[i]]

\* Decided by the engine, in no block or queue that can still change, and final
\* or refused from now on by its expiry.
Over(i, its, vault, queued) ==
  /\ its[i].state \in {"confirmed", "expired"}
  /\ i \notin queued
  /\ i \in vault.processed \/ its[i].expiry = Base

\* The intents and the vault become these, less what is over.
Become(its, vault, blocks, pool) ==
  LET queued == ToSet(FlattenSeq(blocks)) \union ToSet(pool)
      over == {i \in Ids : Over(i, its, vault, queued)}
  IN /\ intents' = [i \in Ids |-> IF i \in over THEN Unused ELSE its[i]]
     /\ final' = [vault EXCEPT !.processed = @ \ over]

Decide(i, state) ==
  /\ Become([intents EXCEPT ![i].state = state], final, pending, mempool)
  /\ due' = due \ {i}

Event == events < MaxEvents /\ events' = events + 1

-----------------------------------------------------------------------------
(* Trading, as the escrow sees it: module Trading has the transactions *)

\* Positions are opened and closed on a market that trades, and only closed on
\* one that settles.
Trade(m, c) ==
  /\ <<m, c>> \in Moves
  /\ phase[m] # "settled" /\ c # collateral[m]
  /\ phase[m] = "settling" => c < collateral[m]
  /\ SumFunction([collateral EXCEPT ![m] = c]) <= Custody
  /\ collateral' = [collateral EXCEPT ![m] = c]
  /\ Event
  /\ UNCHANGED <<phase, intents, syncVars, due, chainVars>>

RequestSettlement(m) ==
  /\ phase[m] = "open" /\ m \in Judged
  /\ Spare(intents, "settle_market", m) # {}
  /\ phase' = [phase EXCEPT ![m] = "settling"]
  /\ intents' = Insert(intents, {Intent("settle_market", m, 0, 0)})
  /\ Event
  /\ UNCHANGED <<collateral, syncVars, due, chainVars>>

-----------------------------------------------------------------------------
(* Outbox and resolver; module Withdrawals has their leases and crashes *)

\* (A settlement past its deadline is submitted again.  That is left out: its
\* call, once taken, is never refused, so it stays queued or in a block.)

\* Submit, when the chain takes the call or knows it as executed.  The receipt
\* may be lost, and the row stays pending.  A refusal changes nothing; a second
\* copy of a call that waits is left out.
Submit(i, receipt) ==
  /\ intents[i].row = "pending"
  /\ \/ Processed(i) /\ UNCHANGED mempool
     \/ /\ ~Processed(i)
        /\ intents[i].expiry > 0 => Top <= intents[i].expiry
        /\ mempool' = IF i \in ToSet(mempool) THEN mempool ELSE Append(mempool, i)
  /\ IF receipt
     THEN /\ intents' = [intents EXCEPT ![i].row = "sent"]
          /\ UNCHANGED events
     ELSE /\ Event
          /\ UNCHANGED intents
  /\ UNCHANGED <<ledgerVars, syncVars, due, final, pending>>

\* One head serves a whole pass over the instructions in flight.
ReadHead ==
  /\ due' = {i \in Ids : /\ intents[i].state = "inflight"
                        /\ intents[i].expiry > 0 /\ Top > intents[i].expiry}
  /\ UNCHANGED <<ledgerVars, intents, syncVars, chainVars, events>>

\* Confirm; a settlement closes the market's positions with it.
Confirm(i) ==
  LET m == intents[i].market
  IN /\ intents[i].state = "inflight"
     /\ Finalized(i)
     /\ Decide(i, "confirmed")
     /\ IF intents[i].kind = "settle_market"
        THEN /\ phase' = [phase EXCEPT ![m] = "settled"]
             /\ collateral' = [collateral EXCEPT ![m] = 0]
        ELSE UNCHANGED <<phase, collateral>>
     /\ UNCHANGED <<syncVars, pending, mempool, events>>

\* fault: the engine waits for a cancellation, which nobody asks for
GiveUpCancelled(i) ==
  /\ i \in due /\ i \in final.cancelled
  /\ Decide(i, "expired")
  /\ UNCHANGED <<ledgerVars, syncVars, pending, mempool, events>>

\* No funds are at risk behind an escrow instruction: height alone ends it.
GiveUp(i) ==
  /\ i \in due /\ ~Processed(i)
  /\ Decide(i, "expired")
  /\ UNCHANGED <<ledgerVars, syncVars, pending, mempool, events>>

-----------------------------------------------------------------------------
(* ReconcileEscrow(issue), one pass at a time *)

None == -1

NoRow == [want |-> 0, got |-> 0, misses |-> None]

NoPass == [want |-> <<>>, target |-> <<>>]

\* What the in-flight instruction of a market would install
\* (InFlightEscrowTargets).
Target(m) ==
  LET ids == InFlight("escrow_set", m)
  IN IF ids = {} THEN None ELSE intents[CHOOSE i \in ids : TRUE].amount

\* MarketCollateral and InFlightEscrowTargets, read one after the other; what
\* trading does in between might as well happen after both.
ReadLedger ==
  /\ pass = NoPass
  /\ LET live == {m \in Markets : phase[m] # "settled"}
     IN /\ live # {}
        /\ pass' = [want |-> [m \in live |-> collateral[m]],
                    target |-> [m \in live |-> Target(m)]]
  /\ UNCHANGED <<ledgerVars, intents, drift, due, chainVars, events>>

Instruction(m, target) == Intent("escrow_set", m, target, Top + EscrowExpiryBlocks)

Gap(m) == pass.want[m] # final.escrow[m]

\* An instruction installs exactly what the ledger believes.
Explained(m) == pass.target[m] = pass.want[m]

\* A gap nobody is closing gets an instruction, unless one for another value is
\* in flight or the chain has settled the market.
NeedsInstruction(m) ==
  Gap(m) /\ ~Explained(m) /\ pass.target[m] = None /\ m \notin final.settled

\* fault: a row outlives its gap
RowKept(m) ==
  LET want == pass.want[m]
      got == final.escrow[m]
  IN CASE ~Gap(m) \/ Explained(m) ->
            IF drift[m] = NoRow THEN NoRow ELSE [want |-> want, got |-> got, misses |-> 0]
       [] OTHER -> [want |-> want, got |-> got, misses |-> 0]

\* The stall counter advances while an unexplained gap stands still; at the
\* threshold it tells nothing more by growing.
Row(m) ==
  LET want == pass.want[m]
      got == final.escrow[m]
      still == drift[m] # NoRow /\ drift[m].want = want /\ drift[m].got = got
  IN CASE ~Gap(m) -> NoRow
       [] Gap(m) /\ Explained(m) ->
            IF drift[m] = NoRow THEN NoRow ELSE [want |-> want, got |-> got, misses |-> 0]
       [] OTHER ->
            [want |-> want, got |-> got,
             misses |-> IF ~still THEN 0
                        ELSE IF drift[m].misses < StuckThreshold
                        THEN drift[m].misses + 1 ELSE drift[m].misses]

\* VaultState, and then market after market; the pass may fail or be killed
\* after any of them.  From here on it only writes what nobody else does, so it
\* is one step.
Sync(visited) ==
  LET live == DOMAIN pass.want
      issued == {m \in visited : NeedsInstruction(m)}
  IN /\ pass # NoPass
     /\ visited \subseteq live /\ \A m \in visited, n \in live : n < m => n \in visited
     /\ \A m \in issued : Spare(intents, "escrow_set", m) # {}
     /\ intents' = Insert(intents, {Instruction(m, pass.want[m]) : m \in issued})
     /\ drift' = [m \in Markets |-> IF m \in visited THEN Row(m) ELSE drift[m]]
     /\ pass' = NoPass
     /\ UNCHANGED <<ledgerVars, due, chainVars>>

FullPass ==
  \/ ReadLedger
  \/ Sync(DOMAIN pass.want) /\ UNCHANGED events

CutPass ==
  \E visited \in (SUBSET DOMAIN pass.want) \ {DOMAIN pass.want} : Sync(visited) /\ Event

-----------------------------------------------------------------------------
(* Blocks *)

Shift(height) == IF height <= Base THEN height ELSE height - 1

\* Sim!Mine: a reorg drops depth blocks and puts their calls, shuffled, before
\* those that wait; one new block; the oldest one may turn final.
Mine(depth, shuffled) ==
  LET kept   == SubSeq(pending, 1, Len(pending) - depth)
      block  == Sim!Assemble(Sim!HeadOver(Blocks(kept)), [i \in Ids |-> Sim!NoReceipt],
                             Calls(shuffled \o mempool), Base + Len(kept) + 1)
      blocks == Append(kept, [k \in 1..Len(block.txs) |-> block.txs[k].nonce])
  IN /\ IF depth > 0 THEN Event ELSE UNCHANGED events
     /\ mempool' = <<>>
     /\ IF Sim!FinalityDue(blocks)
        THEN /\ pending' = Tail(blocks)
             /\ Become([i \in Ids |-> [intents[i] EXCEPT !.expiry = Shift(@)]],
                       Sim!ApplyBlock(final, Calls(blocks[1]), Base + 1), Tail(blocks), <<>>)
        ELSE /\ pending' = blocks
             /\ Become(intents, final, blocks, <<>>)
     /\ UNCHANGED <<ledgerVars, syncVars, due>>

NewBlock == Mine(0, <<>>)

Reorg ==
  \E depth \in 1..Len(pending) :
    \E shuffled \in SetToSeqs(ToSet(FlattenSeq(SubSeq(pending, Len(pending) - depth + 1, Len(pending))))) :
      Mine(depth, shuffled)

-----------------------------------------------------------------------------

Init ==
  /\ pending = <<>> /\ mempool = <<>>
  /\ phase = [m \in Markets |-> "open"]
  /\ collateral = Staked
  /\ intents = Insert([i \in Ids |-> Unused], {Instruction(u[1], u[2]) : u \in Underway})
  /\ drift = [m \in Markets |-> NoRow]
  /\ pass = NoPass
  /\ due = {}
  /\ final = [Sim!Contract!NewVault EXCEPT !.balance = Custody, !.escrow = Escrowed]
  /\ events = 0

Next ==
  \/ \E move \in Moves : Trade(move[1], move[2])
  \/ \E m \in Markets : RequestSettlement(m)
  \/ \E i \in Ids, receipt \in BOOLEAN : Submit(i, receipt)
  \/ ReadHead
  \/ \E i \in Ids : Confirm(i) \/ GiveUp(i)
  \/ FullPass \/ CutPass
  \/ NewBlock \/ Reorg

Spec == Init /\ [][Next]_vars

\* An instruction is taken while the next block can still execute it.
SubmitInTime(m) ==
  \E i \in IdsFor["escrow_set", m] : Top < intents[i].expiry /\ Submit(i, TRUE)

\* Every pass of the resolver looks at every intent.
Resolve(m) == \E i \in IdsFor["escrow_set", m] \union IdsFor["settle_market", m] :
                Confirm(i) \/ GiveUp(i)

\* A block would change nothing: NewBlock is not enabled as a step of vars.
Quiet ==
  /\ mempool = <<>>
  /\ pending = [k \in 1..Confirms |-> <<>>]
  /\ \A i \in Ids : intents[i].expiry <= Base

\* The loops of Quiesce and of the chaos driver run every worker again and
\* again, and mine.  An instruction is open to submission until it expires, and
\* another is issued after it: Quiesce runs the outbox after every block, and an
\* instruction lives for several, so one of them is taken in time.  The last
\* conjunct is weak fairness of NewBlock with ENABLED spelt out.
Fairness ==
  /\ \A m \in Markets : SF_vars(SubmitInTime(m))
  /\ \A m \in Judged : WF_vars(\E i \in IdsFor["settle_market", m] : Submit(i, TRUE))
  /\ \A m \in Markets : WF_vars(Resolve(m))
  /\ WF_vars(ReadHead)
  /\ WF_vars(FullPass)
  /\ []<>Quiet \/ []<><<NewBlock>>_vars

FairSpec == Spec /\ Fairness
=============================================================================
