# Verification of prediction-margin-reconciler

TLA+ models of the engine, its ledger workers and the chain they talk to, checked
with TLC on small instances, and proofs about withdrawals, the deposit inbox, the
reconciler, trading, the chain's custody and escrow synchronisation, checked with TLAPS
for every value of the constants. The reference is the code under `src/`; `PROJECT.json`
names the lines each definition stands for.

## 1. The system

The engine is an off-chain margin ledger in a SQL database beside an on-chain vault
that it does not control. Every transfer of value crosses the border between the two
as an *intent* (engine to chain) or an *event* (chain to engine). Nothing spans both
sides atomically. The chain reorgs, the event stream loses, repeats and reorders, a
submission may report failure and still land, and the process can be killed anywhere.

| part | code | state | operations |
|---|---|---|---|
| simulated chain | `internal/chain/sim.go` | head, finalised vault, pending blocks, receipts, hash per height, event log, mempool, chain file | `Deposit` `Submit` `Cancel` `Mine` (reorg, block, finality) `TxStatus` `Expired` `PollEvents` `FinalizedFacts` `CanonicalHash` `VaultState` |
| vault contract | `contracts/vault` (Rust) | custody, escrow, settled, processed, cancelled | `execute` (five calls), `check`; `replay` runs a recorded history |
| ledger | `core/ledger.go`, `schema.sql` | accounts, transfers, entries, idempotency keys, freezes | `PostTx`, reads |
| intents, outbox, resolver | `core/intent.go`, `app/app.go` | `intents`, `outbox` with leases | `RequestWithdraw` `OutboxTick` `ResolverTick` `MarkSubmitted` `Confirm` `Expire` `Revert` |
| deposit inbox | `core/inbox.go`, `app/app.go` | `chain_events` `chain_facts` `chain_cursor` | `InboxTick` `settleFacts` `RevertBlock` `ApplyDeposit` `AdvanceCursor` |
| reconciler | `app/reconcile.go` | report; the freeze of `*` | `Reconcile`: audit, heal, halt |
| escrow sync | `app/escrow.go` | `escrow_drift` (want, got, misses) | `ReconcileEscrow` `RequestEscrowSet` |
| markets and positions | `core/market.go` | markets, positions, row locks, pool | open, close, liquidate, resolve, settle |
| price feed, lease | `internal/pricefeed` | marks, liquidator lock | |
| invariant checker | `app/verify.go` | none | I0..I7 |
| HTTP API, CLI, chaos, bench | `httpapi`, `cmd/pmr`, `app/chaos.go` | none | call the above |
| watcher (TypeScript) | `ts/` | consecutive observations | polls the report and alerts |

**Interaction.** `pmr serve` (`main.go:222-239`) runs one ticker loop each for
`Mine`, `OutboxTick`, `InboxTick`, `ResolverTick`, `LiquidatorTick`, `PriceTick` and
`Reconcile`, besides HTTP handlers, all in one process and possibly in several
replicas over one database. They share the database (each transaction is a unit) and
the chain object (each call holds its lock). Everything a loop keeps between two of
these is plain memory. The chaos harness, the demo and `Quiesce` call the same ticks
one after the other and kill the engine over a chain that lives on.

**What is hard, and what makes each part correct:**

- *Withdrawals.* A call may land although its submission failed, at any time before
  its expiry, and may be dropped by a reorg after it landed. Two workers may hold the
  same row or the same intent. Correct: the reservation is released once, never
  refunded and paid, confirmed only at finality, and always resolved.
- *Deposits.* A credit is given at one confirmation; its block may vanish while it is
  being promoted, and its owner may have spent it. Correct: final facts are real, only
  orphans are reverted, ledger and facts agree, the cursor loses nothing, every final
  deposit lands.
- *Reconciler.* It compares two systems that move while it reads them. Correct: it
  finds no residue when no money is lost, and halts only for a real shortfall.
- *Chain and contract.* Reorgs drop and shuffle calls that compete for custody.
  Correct: escrow is backed at every height, receipts are true, and the deployed
  contract agrees with the simulator on everything final.
- *Positions.* An open, a close, a liquidation and a settlement race for one position,
  each reading rows before it locks them. Correct: what a transaction acts on still
  stands, collateral is released once, nobody is left in a settled market, row locks
  never close a circle.
- *Escrow sync.* A target is out of date as soon as it is read; a call may be refused,
  expire, be dropped and land after its successor. Correct: the vault's escrow comes
  to be what the ledger believes, and a settled market keeps none.

`PROJECT.json` lists every such hazard at the line where it bites.

## 2. Modules

    VaultChain -> Withdrawals -> WithdrawalProperties -> MCWithdrawals
                                   | refines WithdrawalPromise
                                   +-> WithdrawalProofs (TLAPS)
    DepositChain -> Inbox -> InboxProperties -> MCInbox
                      |            +-> InboxProofs (TLAPS)
                      +-> Reconciliation -> ReconciliationProperties -> MCReconciliation
                            (instance of             |
                            WithdrawalPromise)       +-> ReconciliationProofs -> AuditProofs (TLAPS)
    Trading -> TradingProperties -> MCTrading
                 | refines MarketPromise
                 +-> TradingProofs (TLAPS)
    VaultContract -> ChainSim -> ChainSimProperties -> MCChainSim
                        |            +-> ChainSimProofs (TLAPS, with FoldLemmas)
                        |                      +-> (instance) EscrowProofs
                        +-> Escrow (instance) -> EscrowProperties -> MCEscrow
                                                     +-> EscrowProofs (TLAPS, with FoldLemmas)

**VaultChain** is the chain as a withdrawal sees it. A block drains the whole
mempool, so the block list is determined by the height at which each nonce executed
(`paidAt`) or was cancelled (`cancelAt`). `receipt` is the chain's receipt, `mempool`
the accepted calls, `unsaved` the cancellations queued since the chain file was last
written (`Cancel` does not write it, `Submit` and `Mine` do). `Mine(depth, short)`
is the whole of `Mine` with `reorgLocked`: `depth` blocks dropped, one produced,
finality advanced. Which withdrawals the vault cannot fund yet is the free choice
`short`; custody is counted in ChainSim.

**Withdrawals** adds the tables (`intent`, `block`, `posted`, `outbox`) and, for each
process, the memory of its outbox worker (`sender`) and resolver (`resolver`). One
action is one transaction or one call to the chain. Leases and retry delays are clock
times, so a row may become due at any moment, also while its holder still works. A
request reads the head, stamps the expiry and commits later. `Crash` is SIGKILL,
`AbortOutboxTick` and `AbortResolverTick` a database error.

**WithdrawalPromise** is the abstract specification: reserved, then either paid and
recognised or refunded and never paid. `Withdrawals` implements it with the mapping in
`WithdrawalProperties` (`book` from the intent's state, `paid` from a final payout).

**DepositChain** is the chain as the inbox sees it: the event log with its sequence
numbers, which a reorg marks orphaned and never reuses. Block hashes are drawn afresh,
so a block is named by its first event; a deposit's receipt exists exactly while an
event of it is not orphaned.

**Inbox** has the tables for one user's account (`cursor`, `events`, `facts`,
`available`, `spent`, `insurance`, `frozen`) and each loop's memory (`worker`).
`SettleFacts` walks the provisional facts one chain read at a time, then compensates
the orphaned blocks; `InboxTick` polls, records, advances the cursor and applies;
`Reconcile` finds and ingests final deposits that are missing. `ReadBalance` and
`PostReversal` are two steps of one transaction because the balance is read without a
lock (`for update` on a select without a `from` clause, `inbox.go:275-277`).

**Reconciliation** extends Inbox with the reconciler's arithmetic, one action per
read (`ReadLedger`, `ReadVault`, `ReadInFlight`, `ReadStatus`, `ReadFacts`,
`ReadMissing`, `ReadProvisional`), healing, and the report that freezes `*`.
Withdrawals are those of the abstract promise, one unit each. `Concurrent` says
whether loops and blocks overlap, as in `pmr serve`, or take turns, as in the chaos
harness.

**VaultContract** is the Rust contract as operators: what each call needs (`Admits`)
and does (`Execute`), `Check`, and the `Replay` tool. **ChainSim** is the Go chain with
its money, block by block and call by call, with its own copy of the rules
(`Verdict`, `Effect`), and `trace`, the file `TraceTo` writes. The two sets of rules
are modelled from the two languages separately; that they agree is checked, as
`replay.rs` does on recorded runs, and proved (`CopiesAgree`).

**Trading** is the trading side as PostgreSQL runs it, READ COMMITTED and statement by
statement: `session` is where each transaction is, `lock` the rows it has locked, and
what it writes is published by its commit (`CommitOpen`, `CommitClose`,
`MarkSettling`, `CommitSettle`, `CommitReserve`). A locking statement waits for the row
and looks at it again, a plain read does not; an insert waits for the unique indexes it
could violate. `Begin` needs a connection of the pool, and `CheckFrozen` a second one,
because `Frozen` asks the pool while the transaction keeps its own (`intent.go:96`).
`LockOrder` is the order in which `PostTx` sorts a transfer's accounts. Every job runs
again and again, and may fail anywhere.

**MarketPromise** is the abstract specification: a position is opened while its market
trades, left once, or settled with everyone else on it in one stroke. `Trading`
implements it with the committed rows as its state.

**Escrow** has one action for reading the ledger side of a sync pass (`ReadLedger`) and
one for what it does with it (`Sync`, whole or cut short by an error), and below it the
outbox, the resolver and the chain's own operators, instantiated from ChainSim:
instructions have expiries and are refused for want of custody exactly as they are
there. Heights count from the newest final block and a decided intent that can no longer
execute is forgotten, so that the system runs for ever in finitely many states and
convergence can be checked without a last height. `Trade` stands for the transactions of
Trading.

Definitions commented `fault:` are broken variants that no specification uses; each
property is shown to fail under one of them.

## 3. Runs

| run | instance | shows |
|---|---|---|
| `WdReplicas` | 2 processes, 1 withdrawal, Confirms 3, reorgs of any unfinalised depth | types; receipts tell the truth; finality is permanent; the reservation is released once; decisions stand; confirmations are final |
| `WdTipReorg` | 1 process, 2 withdrawals, Confirms 1, 1 crash, fairness | never refunded and paid; a reserved intent has a submitter; every withdrawal resolves; refines the promise with its liveness |
| `WdDeepReorg` | 1 process, Confirms 3 | **violation** of `NeverRefundedAndPaid` |
| `InReplicas` | 2 inbox loops, 2 deposits of 2 units, Confirms 1 | types; final facts are real; only orphans are reverted; ledger matches facts; the cursor skips nothing; facts stay decided |
| `InHeal` | inbox and reconcile loop, 1 deposit, Confirms 2, 1 crash, fairness | deposits land, orphans are compensated |
| `InFreeze` | inbox and reconcile loop, 1 deposit | **violation** of `FrozenOnlyForAShortfall` |
| `InWedge` | the same with fair delivery | **violation** of `StreamCatchesUp` |
| `ReTurns` | inbox and reconcile loop by turns, 2 deposits, 1 withdrawal, 1 crash | the audit is exact; every consistent snapshot is explained by the three terms |
| `ReOverlap` | the same, overlapping | **violation** of `NoFalseHalt` |
| `ChMoney` | 1 deposit, 1 withdrawal, 3 escrow instructions on 2 markets, 1 settlement, Confirms 2 | escrow is backed at every height; the contract accepts the finalised history and ends in the same state; receipts match blocks |
| `TrRaces` | 11 jobs (2 opens, close, liquidate, resolve, 3 confirmations, 3 withdrawals), pool of 3, 2 users, 2 markets, 6 positions, 2 keys; jobs that do the same are symmetric | what was read still stands; collateral is released once; settled markets are empty; a key reserves once; only the pool wedges; refines the promise |
| `EsSync` | 2 markets, Confirms 2, escrow expiry 1, 2 events (trades, settlements, reorgs, lost receipts, cut passes), fairness | a settled market holds no escrow; escrow converges; alerts end (both with a repeated sync pass, as `Quiesce` and the chaos driver run it) |

**Bounds.** `MaxHeight` limits blocks: it exceeds expiry plus finality depth, so that
a call can land, be orphaned, expire, be cancelled and become final, and in the reorg
runs a block can be replaced more than once, as each replacement starts lower.
From `QuietHeight` on a block must carry something or make something final; without
this the bounded heights would be used up by empty blocks and no liveness property
could hold. It never disables a block that a property waits for. `LastRequest` stamps
requests early enough to be resolved below `MaxHeight`. `MaxEvents` limits events, so
a deposit can be re-included once (twice in `InReplicas` and `ReTurns`, shared by two
deposits). `MaxCrashes` limits crashes. `MaxUnfinal` limits calls that are queued or
unfinalised in `ChMoney`; four are enough for a deposit, two claims on it and a
settlement in one block or spread over two. The expiries there are early, so that a
cancellation, too, becomes final. One or two nonces, deposits and processes suffice
because the code never lets one nonce or fact depend on another except through
custody, a block they share or a worker's list; the instances have two of what is
shared. Where the code takes at most 32, 64 or 128 rows or events per tick, the models
have fewer. In `TrRaces` both users have positions on both markets, with ids in opposite
orders, so that two settlements lock the same accounts in opposite orders, while a close
and a liquidation hold rows one of them waits for and two opens race for the place of the position being closed
(two opens under one key are only in the proof); with a pool of three, the three withdrawal requests can
hold every connection. `EsSync` starts with one instruction under way for an old target
and custody for one market only, so that a raise waits for a release; two events allow
two reorgs, or a reorg and a trade, which is what it takes for an instruction that was
given up to land after its successor. An expiry one block ahead makes calls expire;
`StuckThreshold` 1 is reached after one pass over a gap. `CHECK_DEADLOCK FALSE` is set for withdrawals only, which stop when all is
resolved and no block may follow. (`TrRaces` needs no such setting although the pool can
wedge: a request in a wedge can still fail, when its client disconnects.)

**Fairness.** Each loop is on a ticker (`main.go:248-268`) that keeps running after
errors: weak fairness per loop. Blocks keep coming, and not every block reorgs: weak
fairness of a block without a reorg. Requests, deposits, spending, crashes, faults and
reorgs have none. In `EsSync` the loops of `Quiesce` and of the chaos driver
(`reconcile.go:199`, `chaos.go:287`) stand behind the fairness, as `pmr serve` itself
calls `EscrowTick` on no ticker: weak fairness for the sync pass (`FullPass`), the
resolver's head (`ReadHead`), its visit of each intent (`Resolve`) and the settlement's
submission, blocks until nothing is left to become final (`Quiet`), and strong fairness
of `SubmitInTime`: instructions are issued again and again, and the outbox, which runs
after every block, takes one of them before it expires. Two strong assumptions are
stated apart. `SF(PostReversal)`: the
user does not for ever spend and receive money just between a reversal's unlocked
balance read and its transfer (the transfer then fails for want of funds and the pass
ends; without the assumption `OrphansAreCompensated` fails that way, which is a real
if improbable starvation). `StreamSpec`, only used for `StreamCatchesUp`: a poll
repeated for ever delivers again and again all that it can, since `Gap` is a
probability below one.

## 4. What the checks show

Through any reorg of unfinalised blocks, any interleaving of two replicas, lost
receipts, expired leases and crashes, a withdrawal's books agree with its intent, it is
confirmed only when final, and it is decided once. It cannot be refunded and paid
either, *provided no block is ever replaced by one lower down* (`HeadNeverDrops`:
no reorgs, or `Confirms = 1`). Deposits, credits, promotions and reversals agree with
each other to the unit whatever the stream does. When passes take turns the
reconciler's residue is exactly zero in every reachable state. However opens, closes,
liquidations, settlements and retried requests interleave, collateral is posted once and
released once and a market settles with nobody left in it; row locks cannot deadlock,
and the pool wedges in exactly one way, when withdrawal requests hold every connection
just before `Frozen` (the run reaches it). Once trading and reorgs pause, the vault's
escrow comes to mirror the ledger through refusals, lost receipts, expiries and late
landings, *provided the sync pass is repeated*: `EscrowConverges` and `AlertsEnd` hold for
`Quiesce` and the chaos driver. `pmr serve` starts no `EscrowTick`, so in a running
server the "background worker" of `src/README.md:137` does not exist and a drift stays until
something else runs a pass. Four runs show where the code does not do what its comments
say:

1. **Refund, then payment** (`WdDeepReorg`, `app.go:393`). `Expired` and `Cancel` are
   answered from the head. With finality three deep, a reorg drops the block with the
   cancellation after the refund, the height is again below the expiry, the
   withdrawal is requeued or submitted again and executes.
2. **Freeze without a shortfall** (`InFreeze`, `inbox.go:309`). Two passes compensate
   one orphaned credit; the second reads a balance that the first has already taken
   back, finds its transfer already posted, and freezes the account all the same.
3. **A gap that never closes** (`InWedge`, `sim.go:564`). An event orphaned before it
   was ingested is never delivered, and the cursor waits for it for ever; later
   deposits arrive only through finality and healing.
4. **False alarm** (`ReOverlap`, `reconcile.go:98`). The vault balance is read before
   the finalised facts. A deposit that turns final in between is a missing deposit but
   not yet in the balance: a positive residue, and all withdrawals halt.

## 5. What is proved

For all values of the constants, under the named `ASSUME`s of the modules (`Confirms`,
`ExpiryBlocks`, `Amount` and the pool are positive, bounds are naturals, deposits,
withdrawals and markets are finitely many (the vault keeps them in a map), jobs name
objects of their kind, an intent id belongs to one intent as it is a primary key, custody
is an amount that covers the escrow it starts with, `None` and `Nobody` are nothing else):

| module | theorem | property |
|---|---|---|
| `WithdrawalProofs` | `TypeCorrect` | `TypeOK` |
| | `ReceiptsAreTrue` | `ReceiptsTellTheTruth` |
| | `FinalityHolds` | `FinalityIsPermanent` |
| | `ReleasedOnce` | `ReservationReleasedOnce` |
| | `DecisionsAreFinal` | `DecisionsStand` |
| | `ConfirmedPayoutsAreFinal` | `ConfirmedIsFinal` |
| | `NoneIsStranded` | `ReservedHasASubmitter` |
| | `NoDoublePay` (assumes `HeadNeverDrops`) | `NeverRefundedAndPaid` |
| | `ImplementsPromise` (assumes `HeadNeverDrops`) | every step is one of `WithdrawalPromise` or a stutter |
| `InboxProofs` | `TypeCorrect` | `TypeOK` |
| | `FinalFactsReal` | `FinalFactsAreReal` |
| | `OnlyOrphansReverted` | `OnlyOrphansAreReverted` |
| | `LedgerAgrees` | `LedgerMatchesFacts` |
| | `CursorIsSafe` | `CursorSkipsNothing` |
| | `DecidedFactsStay` | `FactsStayDecided` |
| `ReconciliationProofs` | `AuditTypeCorrect` | `AuditTypeOK` |
| | `IdentityHolds` | `SnapshotIsExplained` |
| `AuditProofs` | `AuditExact` (assumes turns, `~Concurrent`) | `AuditIsExact` |
| `TradingProofs` | `ReadsAlwaysStand` | `ReadsStand` |
| | `ReleasedOnce` | `CollateralReleasedOnce` |
| | `SettledIsEmpty` | `SettledMarketIsEmpty` |
| | `ReservesOnce` | `KeyReservesOnce` |
| | `ImplementsMarketPromise` | `KeepsMarketPromise` |
| | `RowsFitStages` | `LocksFitStages`, which rows a transaction holds |
| | `PoolOnly` | `OnlyThePoolWedges` |
| `ChainSimProofs` | `CopiesAgree` | simulator and contract decide and do the same, call by call |
| | `ChainAlways` | `ChainInv`, the inductive invariant |
| | `ChainTypesOK` | `SimTypeOK` |
| | `EscrowBacked` | `EscrowIsBacked` |
| | `HistoryReplays` | `FinalHistoryReplays` |
| | `ReceiptsMatch` | `ReceiptsMatchBlocks` |
| `EscrowProofs` | `EscrowAlways` | `EscrowInv`, the inductive invariant |
| | `SettledHoldsNone` | `SettledMarketHoldsNoEscrow` |

**Withdrawals.** The base invariant is `BaseInv`: `ChainInv`, that heights are ordered, that no nonce
is both paid and cancelled, that payouts and cancellations lie at or below the head,
and that receipts say what the blocks do; `EngineTypeOK`; and
`WorkerInv`, that a worker in the middle of a step holds a nonce, and which one. The
type invariant alone is not inductive, because the final height, for instance, stays
in range only by its relation to the head. `MineInv` is the heart: one block, after
any reorg, with one lemma for heights, one per nonce and one for receipts. On top of
it, `ConfirmInv` says that a resolver about to confirm holds the height of a final
payout, which `FinalPayoutStays` keeps true through any later reorg. `KnownInv` says
that a call exists on chain only for an intent that the ledger has once reserved, and so
do jobs and rows. `SubmitterInv` uses it: a worker that is about to settle a row has
passed `MarkSubmitted`, and as the intent existed by then, it is no longer `reserved`;
so the row of a reserved intent is never `sent`.
`OverdueInv`, under `HeadNeverDrops`, says that a resolver about to refund, and every
refunded intent, is past the expiry without a payout; as the head never drops below a
height it has reached, `OverdueStaysUnpaid` keeps it so. The refinement combines them
action by action: only `Mine` pays, only `Confirm` and `Expire` decide.

**Inbox.** `IInv` has three parts. `ChainInv`: types, a block stands or falls as one
(`BlocksAreWhole`), a deposit stands in at most one block (`OneEventPerDeposit`).
`BooksInv`: the properties themselves with `RowsAreLogged` (no row without an event) and
`SpendingIsCovered` (what the user has is at most what was ever credited, which bounds
the balances). `PassesInv`: each loop's memory is `Sound`, which lists what a loop may
still rely on of what it read some steps ago: an event found final stays final, a block
found orphaned is dead for good, a fact listed for compensation stays orphaned and
credited, an event once recorded stays recorded. That none of it is undone by the
others is one lemma, `SoundLasts`, from `Advances`, a relation that every step obeys:
nothing moves back. Without `PassesInv` none of the properties is inductive, since a
promotion or reversal acts on old reads.

**Reconciliation.** `ReportInv` adds to `IInv` that only reserved money is paid out and
only paid money is settled. The identity then is counting: a credit is on a final block
or on a younger one, a final deposit is credited or missing (`DepositsBalance`, where
`OneEventPerDeposit` makes counting events counting deposits), a payout is recognised or
in flight (`PayoutsBalance`). Every step of the reconciler's model is, for the inbox, a
step of Inbox, a stutter or a crash (`InboxStandsFirm`), so `IInv` carries over.
`AuditExact` adds `TurnInv`: while one loop works the others rest; what `settleFacts`
remembers leads it to every credit on an orphaned block (`Covers`), so none is left when
it is through; and the residue is the partial sum of the terms the pass has read so far,
with their values of now (`Explains`). The identity makes the last sum zero. `ReOverlap`
shows that the assumption is needed.

**Trading.** `IInv` joins the types, the data invariants and, for each session, `Sound`:
which stages its kind of job has (`Fits`), which rows it holds locked by then (`Holds`)
and what it believes of the rows it read (`Believes`, which is `ReadsStand`). Beliefs
last because whoever could falsify one needs a lock the believer holds.

`PoolOnly` says that sessions which wait for each other for ever wait for connections that
withdrawal requests hold. Besides `IInv` it needs `LocksFitStages`: the rows a transaction can have
locked at each of its stages. The argument then goes through the stages from the last
one back. A margin or pending account is never waited for, as whoever has it has locked
the same customer's available account first (`SecondAccountIsFree`). A transfer that
waits for an available account waits for one that pays out and so has the insurance account, which only
one of them has, and that one waits for nobody (`NoTransferWaits`): here
`LockOrder` counts. What holds a position without transferring yet is a
settlement, which also has the position's market, so a second one for that position cannot be there;
who holds a market is past all that; and who holds a settlement's key, too. What is left in a
circle are requests with one key and requests that ask for a second connection
(`CircleIsWithdrawals`).

**Simulated chain.** `ChainInv` joins the types; `Sound(final)`, that the vault passes the
contract's own check and no nonce is both executed and cancelled; `BlocksAccepted`, that
each call in each pending block was accepted by the vault just below it;
`ReceiptsRecorded`, what a receipt says of final and pending blocks; and `TraceReplays`,
that the history so far leads the contract to the final vault and refuses nothing. The
properties alone are not inductive: a reorg leaves the lower blocks, and it is
`BlocksAccepted` that makes them stand for what their receipts say. The proof goes from one
call (`EffectSound`, `SameEffect`) to a block (`BlockNonces`, `BlockSound`), to a chain of
blocks (`ChainAt`, `ChainSound`), to a reorg (`ReorgLeaves`), and to the block in the making
(`AssembleType`). `EffectSound` is where escrow could exceed custody, and does not, since the
sum of escrows moves by exactly what one call changes (`EscrowSumExcept`).

**Escrow.** `EscrowProofs` instantiates `ChainSimProofs` with the calls of intents and uses
its lemmas about blocks; `SameTx`, `SameBlock`, `SameHead` and `SameAssembly` say that the
operators are those of the instance in Escrow. `EscrowInv` has the types, `Consistent` and
the ledger's part: a settled market is settled in the final vault. `Consistent` says
that only ids of intents wait or stand in a block, that the vault is sound, and that it
`Honours` the intents: the market of every settlement it has executed is settled. A
settlement is confirmed only when final, so the ledger's part follows; what a reorg can
still take away lies above. The delicate part is the reuse of ids: an id is forgotten
only when it neither waits nor stands in a block (`BecomeKeeps`), and a new intent only takes an
id that nobody uses (`InsertRefines`), or a call left over would act for another intent. The
head is final state plus pending blocks, which never unsettle a market (`HeadKeeps`), and a
sound vault holds no escrow for a settled one.

**Folds and sums.** Both need induction, and the library's theorems for it take operators as
parameters, which the provers cannot instantiate. `FoldLemmas` gets it from theorems
about sets: proper inclusion of finite sets is well founded, so every set of naturals has a
least member (`LeastNatural`) and induction can be stated with a set in place of a
predicate (`NatSetInduction`, `SubsetInduction`). From these follow that the recursion behind
the community modules' folds has exactly one solution (`IterationExists`,
`IterationUnique`), what `FoldLeft` computes step by step (`FoldExists`), what a sum
does when one value changes (`SumExcept`), and which elements a flattened sequence has
(`FlattenElements`).

Each inductive invariant was checked by TLC before it was proved, on the instance of the run that
shows its properties: `ChainInv` on that of `ChMoney`, `LocksFitStages` on that of
`TrRaces`, `EscrowInv` on that of `EsSync`.

## 6. Only model-checked, and left out

*Only model-checked.* Liveness, everywhere: `EveryWithdrawalResolves`, `DepositsLand`,
`OrphansAreCompensated`, `EscrowConverges`, `AlertsEnd`, and the fairness that
`KeepsPromise` includes (its safety part is `ImplementsPromise`). Every other property of
the passing runs is proved. `NeverRefundedAndPaid` and `AuditIsExact` are proved under
assumptions that the runs with a violation show to be needed.

*Simplified.* One user per Inbox; users share only `*` and the insurance account.
Events of other kinds than deposits, which the inbox marks ignored, are left out, as
are deposits queued but not yet saved when the process dies (`Deposit` writes no chain
file): to the engine they were never made. `Revert` and `reorgCheck` for confirmed
withdrawals are left out of Withdrawals because `ConfirmedIsFinal` shows that their
condition never arises. A position that is closed returns what was put in; profit
and loss are not modelled. A second copy of a queued call is left out of ChainSim and Escrow: it
is refused as already processed once the first has executed, and a refused copy
changes nothing. Market outcomes and deposits per user in the contract are recorded
and never read. Changing fault settings at run time is left out.

In Trading amounts are left out (whether a transfer is covered is open), accounts
exist (`ensureAccount` inserts them, sorted, before any lock), and `EnsureMarket`,
`SetMark` and `PriceTick`, single statements on rows nothing else waits for, are not
there. `Confirm` of a withdrawal, `ApplyDeposit` and `RevertBlock` lock accounts in the
same sorted order and are covered by Withdrawals and Inbox as whole transactions. In
Escrow one pass runs at a time, user deposits and withdrawals stand still, and `Sync`
reads the vault in the step that uses it (the code's read may be a block older, no
different from a pass one block earlier); its settlement is never refused, so its
retry is left out. A market that settles while its drift is listed keeps its row for
ever, in the code and in the model (`core/intent.go:450` visits live markets only),
which is why `AlertsEnd` excludes settled markets.

*Not modelled.* Ledger entries and the arithmetic of transfers with several legs. The
limit of 32 rows per outbox tick. The invariant checker only reads; its rules are the
source of several properties. The HTTP handlers, panel, CLI, demo, chaos and benchmark
are I/O around operations that are modelled. The price feed picks marks, and the
liquidator lease is an optimisation (`app.go:422-427`): Trading lets a liquidation run at
any time. The watcher counts observations in a process of its own and changes nothing.

## 7. Plan

Done: VaultChain, Withdrawals and their proofs; DepositChain, Inbox and their proofs;
Reconciliation and its proofs; VaultContract, ChainSim and its proofs; Trading, its
promise and proofs; Escrow with its liveness, and its proofs.

Left, in this order: an abstract ledger (each key at most one transfer, balances the sum
of entries, no customer account below zero) that `PostTx` is shown to keep; the
watcher, with an outage while it counts.
