------------------------------ MODULE Trading -------------------------------
(***************************************************************************)
(* The trading side of the engine as PostgreSQL runs it: opening, closing, *)
(* liquidating and settling positions (internal/core/market.go), the       *)
(* settlement and withdrawal requests (internal/core/intent.go) and the    *)
(* ledger transfers they post (internal/core/ledger.go), statement by      *)
(* statement, with the row locks each statement waits for and the pool of  *)
(* connections each transaction needs (internal/core/core.go).             *)
(*                                                                         *)
(* Transactions are READ COMMITTED: a plain read sees what is committed,   *)
(* a locking one waits for the row and looks at it again.  What a          *)
(* transaction writes is published by its commit action; until then the    *)
(* rows it wrote are the rows it has locked.  A row that a unique index    *)
(* makes others wait for is locked by its insertion.                       *)
(*                                                                         *)
(* Amounts are left out: whether an account can cover a transfer is open,  *)
(* and a position is worth its collateral until it is paid.                *)
(***************************************************************************)
EXTENDS Integers, FiniteSets, Sequences

CONSTANTS
  Users,
  Markets,
  Positions,     \* ids, numbers because settlement locks them in id order
  Withdrawals,   \* idempotency keys of withdrawal requests
  Owner,         \* the user of each position
  MarketOf,      \* the market of each position
  Payer,         \* the user of each withdrawal
  Opened,        \* positions that are open to begin with
  Resolved,      \* markets whose outcome is decided to begin with
  Sessions,      \* requests and worker ticks that use the database
  Job,           \* what each session does, over and over
  Conns,         \* size of the connection pool (SetMaxOpenConns)
  Nobody

Kinds == {"open", "close", "liquidate", "resolve", "settle", "withdraw"}

\* What the job is about: a position, a market or a withdrawal.
Subject(kind) ==
  CASE kind \in {"open", "close", "liquidate"} -> Positions
    [] kind \in {"resolve", "settle"} -> Markets
    [] kind = "withdraw" -> Withdrawals

ASSUME ObjectsAssumption ==
  /\ Positions \subseteq Nat
  /\ Owner \in [Positions -> Users]
  /\ MarketOf \in [Positions -> Markets]
  /\ Payer \in [Withdrawals -> Users]
ASSUME StartAssumption ==
  /\ Opened \subseteq Positions /\ Resolved \subseteq Markets
  /\ \A p, q \in Opened : Owner[p] = Owner[q] /\ MarketOf[p] = MarketOf[q] => p = q
ASSUME JobAssumption ==
  /\ DOMAIN Job = Sessions
  /\ \A s \in Sessions : Job[s].kind \in Kinds /\ Job[s].on \in Subject(Job[s].kind)
ASSUME PoolAssumption == Conns \in Nat \ {0}
ASSUME NobodyAssumption == Nobody \notin Sessions

VARIABLES
  market,       \* markets.state
  position,     \* positions.state, "none" before the row exists
  posted,       \* transfers posted for the position, by idempotency key
  settlement,   \* intents.state of the market's settle_market intent
  reserves,     \* reserve transfers posted under the withdrawal's key
  lock,         \* which session has each row locked
  session       \* where each session is in its transaction

dataVars == <<market, position, posted, settlement, reserves>>
vars == <<dataVars, lock, session>>

-----------------------------------------------------------------------------
(* Rows and sessions *)

MarketRow(m)     == <<"market", m>>
PositionRow(p)   == <<"position", p>>
SettlementRow(m) == <<"settlement", m>>
WithdrawalRow(w) == <<"withdrawal", w>>
Insurance        == <<"insurance", 0>>
Available(u)     == <<"available", u>>
Pending(u)       == <<"pending", u>>
Margin(u)        == <<"margin", u>>

Rows ==
  ({"market", "settlement"} \X Markets) \union ({"position"} \X Positions)
    \union ({"withdrawal"} \X Withdrawals) \union {Insurance}
    \union ({"available", "pending", "margin"} \X Users)

Stages == {"idle", "lookup", "market", "insert", "read", "update", "key", "mark",
           "intent", "scan", "positions", "payout", "frozen", "accounts"}

\* wants: account rows the transfer at hand has still to lock, in order;
\* todo and found: what settlement has still to lock or pay, and what it
\* has found open.
SessionRecords == [at : Stages, wants : Seq(Rows),
                   todo : SUBSET Positions, found : SUBSET Positions]

Idle == [at |-> "idle", wants |-> <<>>, todo |-> {}, found |-> {}]

Active == {s \in Sessions : session[s].at # "idle"}

TypeOK ==
  /\ market \in [Markets -> {"open", "settling", "settled"}]
  /\ position \in [Positions -> {"none", "open", "closed", "liquidated"}]
  /\ posted \in [Positions -> SUBSET {"open", "close", "settle"}]
  /\ settlement \in [Markets -> {"none", "inflight", "confirmed"}]
  /\ reserves \in [Withdrawals -> Nat]
  /\ lock \in [Rows -> Sessions \union {Nobody}]
  /\ session \in [Sessions -> SessionRecords]

Init ==
  /\ market = [m \in Markets |-> IF m \in Resolved THEN "settling" ELSE "open"]
  /\ position = [p \in Positions |-> IF p \in Opened THEN "open" ELSE "none"]
  /\ posted = [p \in Positions |-> IF p \in Opened THEN {"open"} ELSE {}]
  /\ settlement = [m \in Markets |-> IF m \in Resolved THEN "inflight" ELSE "none"]
  /\ reserves = [w \in Withdrawals |-> 0]
  /\ lock = [r \in Rows |-> Nobody]
  /\ session = [s \in Sessions |-> Idle]

-----------------------------------------------------------------------------
(* Transactions (core.go tx) *)

\* (Definitions commented `fault:' are broken variants used in mutation tests.)

Free(r, s) == lock[r] \in {Nobody, s}

Take(r, s) == lock' = [lock EXCEPT ![r] = s]

FreeConn == Cardinality(Active) < Conns

Goto(s, stage) == session' = [session EXCEPT ![s].at = stage]

\* Commit and rollback alike release the transaction's locks and connection.
End(s) ==
  /\ session' = [session EXCEPT ![s] = Idle]
  /\ lock' = [r \in Rows |-> IF lock[r] = s THEN Nobody ELSE lock[r]]

Rollback(s) == End(s) /\ UNCHANGED dataVars

FirstStage(kind) ==
  CASE kind = "open" -> "lookup"
    [] kind \in {"close", "liquidate"} -> "read"
    [] kind \in {"resolve", "withdraw"} -> "key"
    [] kind = "settle" -> "intent"

\* A transaction starts with a connection of the pool.  The resolver confirms
\* only intents that exist; the other jobs may find anything.
Begin(s) ==
  /\ session[s].at = "idle"
  /\ FreeConn
  /\ Job[s].kind = "settle" => settlement[Job[s].on] # "none"
  /\ Goto(s, FirstStage(Job[s].kind))
  /\ UNCHANGED <<dataVars, lock>>

\* A failed statement, a dropped connection or a killed process.
Fail(s) ==
  /\ session[s].at # "idle"
  /\ Rollback(s)

-----------------------------------------------------------------------------
(* PostTx *)

\* fault: accounts are locked in the order of the legs
LegOrder(kind, u) ==
  CASE kind = "open" -> <<Available(u), Margin(u)>>
    [] kind = "withdraw" -> <<Available(u), Pending(u)>>
    [] OTHER -> <<Margin(u), Available(u), Insurance>>

\* The accounts of each kind of transfer, by account code.
LockOrder(kind, u) ==
  CASE kind = "open" -> <<Available(u), Margin(u)>>
    [] kind = "withdraw" -> <<Available(u), Pending(u)>>
    [] OTHER -> <<Insurance, Available(u), Margin(u)>>

Post(s, u) ==
  session' = [session EXCEPT ![s].at = "accounts", ![s].wants = LockOrder(Job[s].kind, u)]

LockAccount(s) ==
  LET r == Head(session[s].wants)
  IN /\ session[s].at = "accounts"
     /\ session[s].wants # <<>>
     /\ Free(r, s)
     /\ Take(r, s)
     /\ session' = [session EXCEPT ![s].wants = Tail(session[s].wants)]
     /\ UNCHANGED dataVars

\* All its accounts are locked, so the transfer is decided: the account that
\* pays may be short (Fail), otherwise the transaction goes on.
Posted(s) == session[s].at = "accounts" /\ session[s].wants = <<>>

-----------------------------------------------------------------------------
(* OpenPosition *)

\* A key that is known answers with its position, once the row is unlocked.
Lookup(s) ==
  LET p == Job[s].on
  IN /\ session[s].at = "lookup"
     /\ \/ /\ position[p] # "none"
           /\ Free(PositionRow(p), s)
           /\ Rollback(s)
        \/ /\ position[p] = "none"
           /\ Goto(s, "market")
           /\ UNCHANGED <<dataVars, lock>>

\* fault: the market is read, not locked
ReadMarket(s) ==
  LET m == MarketOf[Job[s].on]
  IN /\ session[s].at = "market" /\ Job[s].kind = "open"
     /\ \/ /\ market[m] # "open"
           /\ Rollback(s)
        \/ /\ market[m] = "open"
           /\ Goto(s, "insert")
           /\ UNCHANGED <<dataVars, lock>>

\* The market row is locked before its state is believed.
LockMarket(s) ==
  LET m == MarketOf[Job[s].on]
  IN /\ session[s].at = "market" /\ Job[s].kind = "open"
     /\ Free(MarketRow(m), s)
     /\ \/ /\ market[m] # "open"
           /\ Rollback(s)
        \/ /\ market[m] = "open"
           /\ Take(MarketRow(m), s)
           /\ Goto(s, "insert")
           /\ UNCHANGED dataVars

\* The other positions of the user on the market that are open
\* (positions_one_open_idx).
Rivals(p) == {q \in Positions \ {p} :
                Owner[q] = Owner[p] /\ MarketOf[q] = MarketOf[p] /\ position[q] = "open"}

\* The indexes on the key and on open positions refuse a duplicate, and wait
\* for a transaction that is inserting or closing it.
InsertPosition(s) ==
  LET p == Job[s].on
  IN /\ session[s].at = "insert"
     /\ \A q \in Rivals(p) \union {p} : Free(PositionRow(q), s)
     /\ \/ /\ position[p] # "none" \/ Rivals(p) # {}
           /\ Rollback(s)
        \/ /\ position[p] = "none" /\ Rivals(p) = {}
           /\ Take(PositionRow(p), s)
           /\ Post(s, Owner[p])
           /\ UNCHANGED dataVars

CommitOpen(s) ==
  LET p == Job[s].on
  IN /\ Posted(s) /\ Job[s].kind = "open"
     /\ position' = [position EXCEPT ![p] = "open"]
     /\ posted' = [posted EXCEPT ![p] = @ \union {"open"}]
     /\ End(s)
     /\ UNCHANGED <<market, settlement, reserves>>

-----------------------------------------------------------------------------
(* ClosePosition, for the user or for LiquidatorTick, which chose the      *)
(* position earlier: by now it may be anything                             *)

ReadPosition(s) ==
  /\ session[s].at = "read"
  /\ IF position[Job[s].on] = "open"
     THEN Goto(s, "update") /\ UNCHANGED <<dataVars, lock>>
     ELSE Rollback(s)

\* fault: the update looks at neither version nor state
UpdateAlways(s) ==
  LET p == Job[s].on
  IN /\ session[s].at = "update"
     /\ Free(PositionRow(p), s)
     /\ Take(PositionRow(p), s)
     /\ Post(s, Owner[p])
     /\ UNCHANGED dataVars

\* The guarded update waits for the row and finds it as it was read, or gives
\* up: the version changes when and only when the position leaves `open'.
UpdatePosition(s) ==
  LET p == Job[s].on
  IN /\ session[s].at = "update"
     /\ Free(PositionRow(p), s)
     /\ \/ /\ position[p] # "open"
           /\ Rollback(s)
        \/ /\ position[p] = "open"
           /\ Take(PositionRow(p), s)
           /\ Post(s, Owner[p])
           /\ UNCHANGED dataVars

CommitClose(s) ==
  LET p == Job[s].on
  IN /\ Posted(s) /\ Job[s].kind \in {"close", "liquidate"}
     /\ position' = [position EXCEPT ![p] =
                       IF Job[s].kind = "close" THEN "closed" ELSE "liquidated"]
     /\ posted' = [posted EXCEPT ![p] = @ \union {"close"}]
     /\ End(s)
     /\ UNCHANGED <<market, settlement, reserves>>

-----------------------------------------------------------------------------
(* RequestSettlement *)

InsertSettlement(s) ==
  LET m == Job[s].on
  IN /\ session[s].at = "key" /\ Job[s].kind = "resolve"
     /\ Free(SettlementRow(m), s)
     /\ \/ /\ settlement[m] # "none"
           /\ Rollback(s)
        \/ /\ settlement[m] = "none"
           /\ Take(SettlementRow(m), s)
           /\ Goto(s, "mark")
           /\ UNCHANGED dataVars

\* The update of the market is the transaction's last wait; its commit
\* publishes the intent and the outcome.
MarkSettling(s) ==
  LET m == Job[s].on
  IN /\ session[s].at = "mark"
     /\ Free(MarketRow(m), s)
     /\ \/ /\ market[m] # "open"
           /\ Rollback(s)
        \/ /\ market[m] = "open"
           /\ market' = [market EXCEPT ![m] = "settling"]
           /\ settlement' = [settlement EXCEPT ![m] = "inflight"]
           /\ End(s)
           /\ UNCHANGED <<position, posted, reserves>>

-----------------------------------------------------------------------------
(* Confirm of a settlement the chain has finalised, settleMarketTx included *)

LockIntent(s) ==
  LET m == Job[s].on
  IN /\ session[s].at = "intent"
     /\ Free(SettlementRow(m), s)
     /\ \/ /\ settlement[m] # "inflight"
           /\ Rollback(s)
        \/ /\ settlement[m] = "inflight"
           /\ Take(SettlementRow(m), s)
           /\ Goto(s, "market")
           /\ UNCHANGED dataVars

LockOutcome(s) ==
  LET m == Job[s].on
  IN /\ session[s].at = "market" /\ Job[s].kind = "settle"
     /\ Free(MarketRow(m), s)
     /\ Take(MarketRow(m), s)
     /\ Goto(s, "scan")
     /\ UNCHANGED dataVars

OpenOn(m) == {p \in Positions : MarketOf[p] = m /\ position[p] = "open"}

ScanPositions(s) ==
  /\ session[s].at = "scan"
  /\ session' = [session EXCEPT ![s].at = "positions",
                                ![s].todo = OpenOn(Job[s].on), ![s].found = {}]
  /\ UNCHANGED <<dataVars, lock>>

First(s, p) == p \in session[s].todo /\ \A q \in session[s].todo : p <= q

\* fault: a row that was waited for is taken as it was scanned
LockScanned(s, p) ==
  /\ session[s].at = "positions"
  /\ First(s, p)
  /\ Free(PositionRow(p), s)
  /\ Take(PositionRow(p), s)
  /\ session' = [session EXCEPT ![s].todo = @ \ {p}, ![s].found = @ \union {p}]
  /\ UNCHANGED dataVars

\* FOR UPDATE in id order: a row that was waited for is looked at again.
LockPosition(s, p) ==
  /\ session[s].at = "positions"
  /\ First(s, p)
  /\ Free(PositionRow(p), s)
  /\ IF position[p] = "open"
     THEN /\ Take(PositionRow(p), s)
          /\ session' = [session EXCEPT ![s].todo = @ \ {p}, ![s].found = @ \union {p}]
     ELSE /\ session' = [session EXCEPT ![s].todo = @ \ {p}]
          /\ UNCHANGED lock
  /\ UNCHANGED dataVars

LockedAll(s) ==
  /\ session[s].at = "positions"
  /\ session[s].todo = {}
  /\ session' = [session EXCEPT ![s].at = "payout", ![s].todo = session[s].found]
  /\ UNCHANGED <<dataVars, lock>>

\* One transfer per position, in the same transaction.
PostPayout(s, p) ==
  /\ session[s].at = "payout"
  /\ First(s, p)
  /\ session' = [session EXCEPT ![s].at = "accounts", ![s].todo = @ \ {p},
                                ![s].wants = LockOrder("settle", Owner[p])]
  /\ UNCHANGED <<dataVars, lock>>

NextPayout(s) ==
  /\ Posted(s) /\ Job[s].kind = "settle"
  /\ Goto(s, "payout")
  /\ UNCHANGED <<dataVars, lock>>

CommitSettle(s) ==
  LET m == Job[s].on
  IN /\ session[s].at = "payout" /\ session[s].todo = {}
     /\ market' = [market EXCEPT ![m] = "settled"]
     /\ position' = [p \in Positions |->
                       IF p \in session[s].found THEN "closed" ELSE position[p]]
     /\ posted' = [p \in Positions |->
                     IF p \in session[s].found THEN posted[p] \union {"settle"} ELSE posted[p]]
     /\ settlement' = [settlement EXCEPT ![m] = "confirmed"]
     /\ End(s)
     /\ UNCHANGED reserves

-----------------------------------------------------------------------------
(* RequestWithdraw *)

\* fault: the key is looked up, not inserted
LookupKey(s) ==
  LET w == Job[s].on
  IN /\ session[s].at = "key" /\ Job[s].kind = "withdraw"
     /\ \/ /\ reserves[w] > 0
           /\ Rollback(s)
        \/ /\ reserves[w] = 0
           /\ Goto(s, "frozen")
           /\ UNCHANGED <<dataVars, lock>>

InsertKey(s) ==
  LET w == Job[s].on
  IN /\ session[s].at = "key" /\ Job[s].kind = "withdraw"
     /\ Free(WithdrawalRow(w), s)
     /\ \/ /\ reserves[w] > 0
           /\ Rollback(s)
        \/ /\ reserves[w] = 0
           /\ Take(WithdrawalRow(w), s)
           /\ Goto(s, "frozen")
           /\ UNCHANGED dataVars

\* Frozen goes through the pool for a second connection while the transaction
\* keeps its own, and gives it back with the answer.
CheckFrozen(s) ==
  /\ session[s].at = "frozen"
  /\ FreeConn
  /\ \/ Rollback(s)
     \/ /\ Post(s, Payer[Job[s].on])
        /\ UNCHANGED <<dataVars, lock>>

CommitReserve(s) ==
  /\ Posted(s) /\ Job[s].kind = "withdraw"
  /\ reserves' = [reserves EXCEPT ![Job[s].on] = @ + 1]
  /\ End(s)
  /\ UNCHANGED <<market, position, posted, settlement>>

-----------------------------------------------------------------------------

OpenStep(s) == Lookup(s) \/ LockMarket(s) \/ InsertPosition(s) \/ CommitOpen(s)

CloseStep(s) == ReadPosition(s) \/ UpdatePosition(s) \/ CommitClose(s)

ResolveStep(s) == InsertSettlement(s) \/ MarkSettling(s)

SettleStep(s) ==
  \/ LockIntent(s) \/ LockOutcome(s) \/ ScanPositions(s) \/ LockedAll(s)
  \/ \E p \in Positions : LockPosition(s, p) \/ PostPayout(s, p)
  \/ NextPayout(s) \/ CommitSettle(s)

WithdrawStep(s) == InsertKey(s) \/ CheckFrozen(s) \/ CommitReserve(s)

Next ==
  \E s \in Sessions :
    \/ Begin(s) \/ Fail(s) \/ LockAccount(s)
    \/ OpenStep(s) \/ CloseStep(s) \/ ResolveStep(s) \/ SettleStep(s) \/ WithdrawStep(s)

Spec == Init /\ [][Next]_vars
=============================================================================
