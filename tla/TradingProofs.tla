--------------------------- MODULE TradingProofs ----------------------------
(***************************************************************************)
(* Proofs about the trading side, for any users, markets, positions and    *)
(* withdrawals, any sessions and jobs, and any size of the pool.           *)
(***************************************************************************)
EXTENDS TradingProperties, TLAPS

-----------------------------------------------------------------------------
(* The inductive invariant *)

\* The stages that only one kind of job has.
Fits(s) ==
  LET kind == Job[s].kind
      x == session[s]
  IN /\ x.at \in {"lookup", "insert"} => kind = "open"
     /\ x.at \in {"read", "update"} => kind \in {"close", "liquidate"}
     /\ x.at = "mark" => kind = "resolve"
     /\ x.at \in {"intent", "scan", "positions", "payout"} => kind = "settle"
     /\ x.at = "frozen" => kind = "withdraw"
     /\ x.at = "positions" => \A p \in x.todo : MarketOf[p] = Job[s].on

\* The rows a transaction has locked by then.
Holds(s) ==
  LET kind == Job[s].kind
      on == Job[s].on
      x == session[s]
  IN /\ kind = "open" /\ x.at \in {"insert", "accounts"} => lock[MarketRow(MarketOf[on])] = s
     /\ kind \in {"open", "close", "liquidate"} /\ x.at = "accounts" => lock[PositionRow(on)] = s
     /\ kind = "resolve" /\ x.at = "mark" => lock[SettlementRow(on)] = s
     /\ kind = "settle" /\ x.at \in {"market", "scan", "positions", "payout", "accounts"} =>
          lock[SettlementRow(on)] = s
     /\ kind = "settle" /\ x.at \in {"scan", "positions", "payout", "accounts"} =>
          lock[MarketRow(on)] = s
     /\ kind = "settle" /\ x.at \in {"positions", "payout", "accounts"} =>
          \A p \in x.found : lock[PositionRow(p)] = s
     /\ kind = "withdraw" /\ x.at \in {"frozen", "accounts"} => lock[WithdrawalRow(on)] = s

\* What ReadsStand says of one session.
Believes(s) ==
  /\ Job[s].kind = "open" => OpenerBelieves(s)
  /\ Job[s].kind \in {"close", "liquidate"} => CloserBelieves(s)
  /\ Job[s].kind = "resolve" => JudgeBelieves(s)
  /\ Job[s].kind = "settle" => SettlerBelieves(s)
  /\ Job[s].kind = "withdraw" => PayerBelieves(s)

Sound(s) == Fits(s) /\ Holds(s) /\ Believes(s)

\* Market and settlement intent move together.
BooksAgree ==
  \A m \in Markets :
    /\ settlement[m] = "none" <=> market[m] = "open"
    /\ settlement[m] = "inflight" <=> market[m] = "settling"

DataInv == BooksAgree /\ CollateralReleasedOnce /\ SettledMarketIsEmpty /\ KeyReservesOnce

IInv == TypeOK /\ DataInv /\ \A s \in Sessions : Sound(s)

-----------------------------------------------------------------------------
(* Rows and jobs *)

\* A job of each kind is about an object of its own sort.
LEMMA JobFacts ==
  ASSUME NEW s \in Sessions
  PROVE  /\ Job[s].kind \in Kinds
         /\ Job[s].kind \in {"open", "close", "liquidate"} => Job[s].on \in Positions
         /\ Job[s].kind \in {"resolve", "settle"} => Job[s].on \in Markets
         /\ Job[s].kind = "withdraw" => Job[s].on \in Withdrawals
  BY JobAssumption DEF Subject, Kinds

\* Every row name the transactions use is a row.
LEMMA RowFacts ==
  /\ \A m \in Markets : MarketRow(m) \in Rows /\ SettlementRow(m) \in Rows
  /\ \A p \in Positions : PositionRow(p) \in Rows
  /\ \A w \in Withdrawals : WithdrawalRow(w) \in Rows
  /\ \A u \in Users : Available(u) \in Rows /\ Pending(u) \in Rows /\ Margin(u) \in Rows
  /\ Insurance \in Rows
  BY DEF Rows, MarketRow, SettlementRow, PositionRow, WithdrawalRow, Available, Pending,
         Margin, Insurance

\* A transfer locks rows that exist.
LEMMA LockOrderRows ==
  ASSUME NEW kind \in Kinds, NEW u \in Users
  PROVE  LockOrder(kind, u) \in Seq(Rows)
  BY RowFacts DEF LockOrder

-----------------------------------------------------------------------------
(* What the three ways to change locks and sessions leave alone *)

\* The other sessions stay where they are and keep their rows.
OthersStand(s) ==
  \A t \in Sessions \ {s} :
    /\ session'[t] = session[t]
    /\ \A r \in Rows : lock[r] = t => lock'[r] = t

\* A transaction that ends lets go of its own rows only.
LEMMA EndFacts ==
  ASSUME TypeOK, NEW s \in Sessions, End(s)
  PROVE  /\ lock' \in [Rows -> Sessions \union {Nobody}]
         /\ session' \in [Sessions -> SessionRecords]
         /\ session'[s] = Idle
         /\ OthersStand(s)
<1>1. Idle \in SessionRecords
  BY DEF Idle, SessionRecords, Stages
<1> QED
  BY <1>1 DEF End, TypeOK, OthersStand

\* A row that is taken was nobody else's.
LEMMA TakeFacts ==
  ASSUME TypeOK, NEW s \in Sessions, NEW r \in Rows, Free(r, s), Take(r, s)
  PROVE  /\ lock' \in [Rows -> Sessions \union {Nobody}]
         /\ lock'[r] = s
         /\ \A t \in Sessions, q \in Rows : lock[q] = t => lock'[q] = t
  BY NobodyAssumption DEF Free, Take, TypeOK

\* A session that moves on leaves the others where they are.
LEMMA MoveFacts ==
  ASSUME TypeOK, NEW s \in Sessions, NEW x \in SessionRecords,
         session' = [session EXCEPT ![s] = x]
  PROVE  /\ session' \in [Sessions -> SessionRecords]
         /\ session'[s] = x
         /\ \A t \in Sessions \ {s} : session'[t] = session[t]
  BY DEF TypeOK

-----------------------------------------------------------------------------
(* Steps that write no data *)

\* What a step of s that writes no data owes the invariant.
Keeps(s) == TypeOK' /\ OthersStand(s) /\ Sound(s)' /\ UNCHANGED dataVars

\* A session with no transaction has nothing to keep.
LEMMA IdleIsSound ==
  ASSUME NEW s \in Sessions, session'[s] = Idle
  PROVE  Sound(s)'
<1>1. (session[s].at)' = "idle"
  BY DEF Idle
<1>2. Fits(s)' /\ Holds(s)'
  BY <1>1 DEF Fits, Holds
<1>3. Believes(s)'
  BY <1>1 DEF Believes, OpenerBelieves, CloserBelieves, JudgeBelieves, SettlerBelieves, PayerBelieves
<1> QED
  BY <1>2, <1>3 DEF Sound

\* A transaction that rolls back is harmless.
LEMMA RollbackKeeps ==
  ASSUME IInv, NEW s \in Sessions, Rollback(s)
  PROVE  Keeps(s)
<1>1. TypeOK /\ End(s) /\ UNCHANGED dataVars
  BY DEF IInv, Rollback
<1>2. TypeOK'
  BY <1>1, EndFacts DEF TypeOK, dataVars
<1> QED
  BY <1>1, <1>2, EndFacts, IdleIsSound DEF Keeps

\* Going to another stage without taking a row.
LEMMA GotoKeeps ==
  ASSUME IInv, NEW s \in Sessions, NEW stage \in Stages, Goto(s, stage), UNCHANGED <<dataVars, lock>>
  PROVE  /\ TypeOK' /\ OthersStand(s) /\ UNCHANGED dataVars
         /\ (session[s].at)' = stage
         /\ UNCHANGED <<session[s].todo, session[s].found>>
<1> DEFINE x == [session[s] EXCEPT !.at = stage]
<1>1. TypeOK
  BY DEF IInv
<1>2. x \in SessionRecords /\ session' = [session EXCEPT ![s] = x]
  BY <1>1 DEF TypeOK, SessionRecords, Goto
<1>3. /\ session' \in [Sessions -> SessionRecords] /\ session'[s] = x
      /\ \A t \in Sessions \ {s} : session'[t] = session[t]
  BY <1>1, <1>2, MoveFacts
<1>4. (session[s].at)' = stage /\ UNCHANGED <<session[s].todo, session[s].found>>
  BY <1>1, <1>3 DEF TypeOK, SessionRecords
<1>5. TypeOK' /\ OthersStand(s) /\ UNCHANGED dataVars
  BY <1>1, <1>3 DEF TypeOK, dataVars, OthersStand
<1> QED
  BY <1>4, <1>5

\* Going to another stage with a row taken.
LEMMA TakeAndGotoKeeps ==
  ASSUME IInv, NEW s \in Sessions, NEW stage \in Stages, NEW r \in Rows,
         Free(r, s), Take(r, s), Goto(s, stage), UNCHANGED dataVars
  PROVE  /\ TypeOK' /\ OthersStand(s)
         /\ (session[s].at)' = stage
         /\ UNCHANGED <<session[s].todo, session[s].found>>
         /\ lock'[r] = s /\ \A q \in Rows : lock[q] = s => lock'[q] = s
<1> DEFINE x == [session[s] EXCEPT !.at = stage]
<1>1. TypeOK
  BY DEF IInv
<1>2. x \in SessionRecords /\ session' = [session EXCEPT ![s] = x]
  BY <1>1 DEF TypeOK, SessionRecords, Goto
<1>3. /\ session' \in [Sessions -> SessionRecords] /\ session'[s] = x
      /\ \A t \in Sessions \ {s} : session'[t] = session[t]
  BY <1>1, <1>2, MoveFacts
<1>4. /\ lock' \in [Rows -> Sessions \union {Nobody}] /\ lock'[r] = s
      /\ \A t \in Sessions, q \in Rows : lock[q] = t => lock'[q] = t
  BY <1>1, TakeFacts
<1>5. (session[s].at)' = stage /\ UNCHANGED <<session[s].todo, session[s].found>>
  BY <1>1, <1>3 DEF TypeOK, SessionRecords
<1>6. TypeOK' /\ OthersStand(s)
  BY <1>1, <1>3, <1>4 DEF TypeOK, dataVars, OthersStand
<1> QED
  BY <1>4, <1>5, <1>6

\* Beginning the transfer of a job other than a settlement.
LEMMA PostFacts ==
  ASSUME IInv, NEW s \in Sessions, NEW u \in Users, Post(s, u)
  PROVE  \E x \in SessionRecords :
           /\ x.at = "accounts" /\ session' = [session EXCEPT ![s] = x]
<1>1. TypeOK /\ Job[s].kind \in Kinds
  BY JobFacts DEF IInv
<1> DEFINE x == [session[s] EXCEPT !.at = "accounts", !.wants = LockOrder(Job[s].kind, u)]
<1>2. x \in SessionRecords /\ x.at = "accounts"
  BY <1>1, LockOrderRows DEF TypeOK, SessionRecords, Stages
<1>3. session' = [session EXCEPT ![s] = x]
  BY <1>1 DEF Post, TypeOK
<1> QED
  BY <1>2, <1>3

\* A transaction that begins has nothing to keep yet.
LEMMA BeginKeeps ==
  ASSUME IInv, NEW s \in Sessions, Begin(s)
  PROVE  Keeps(s)
<1> DEFINE stage == FirstStage(Job[s].kind)
<1>1. stage \in {"lookup", "read", "key", "intent"} /\ Job[s].kind \in Kinds
  BY JobFacts DEF FirstStage, Kinds
<1>2. Goto(s, stage) /\ UNCHANGED <<dataVars, lock>> /\ stage \in Stages
  BY <1>1 DEF Begin, Stages
<1>3. /\ TypeOK' /\ OthersStand(s) /\ UNCHANGED dataVars
      /\ (session[s].at)' = stage
  BY <1>2, GotoKeeps
<1>4. /\ stage = "lookup" => Job[s].kind = "open"
      /\ stage = "read" => Job[s].kind \in {"close", "liquidate"}
      /\ stage = "intent" => Job[s].kind = "settle"
  BY <1>1 DEF FirstStage, Kinds
<1>5. Fits(s)' /\ Holds(s)'
  BY <1>1, <1>3, <1>4 DEF Fits, Holds
<1>6. Believes(s)'
  BY <1>1, <1>3 DEF Believes, OpenerBelieves, CloserBelieves, JudgeBelieves, SettlerBelieves, PayerBelieves
<1> QED
  BY <1>3, <1>5, <1>6 DEF Keeps, Sound

\* Locking the next account of a transfer.
LEMMA LockAccountKeeps ==
  ASSUME IInv, NEW s \in Sessions, LockAccount(s)
  PROVE  Keeps(s)
<1> DEFINE r == Head(session[s].wants)
           x == [session[s] EXCEPT !.wants = Tail(@)]
<1>1. TypeOK /\ Sound(s) /\ UNCHANGED dataVars
  BY DEF IInv, LockAccount
<1>2. r \in Rows /\ x \in SessionRecords
  <2>1. session[s] \in SessionRecords /\ session[s].wants \in Seq(Rows) /\ session[s].wants # <<>>
    BY <1>1 DEF TypeOK, SessionRecords, LockAccount
  <2>2. r \in Rows /\ Tail(session[s].wants) \in Seq(Rows)
    BY <2>1
  <2> QED
    BY <2>1, <2>2 DEF SessionRecords
<1>3. /\ lock' \in [Rows -> Sessions \union {Nobody}]
      /\ \A t \in Sessions, q \in Rows : lock[q] = t => lock'[q] = t
  BY <1>1, <1>2, TakeFacts DEF LockAccount
<1>4. session' = [session EXCEPT ![s] = x]
  BY <1>1 DEF LockAccount, TypeOK, SessionRecords
<1>5. /\ session' \in [Sessions -> SessionRecords] /\ session'[s] = x
      /\ \A t \in Sessions \ {s} : session'[t] = session[t]
  BY <1>1, <1>2, <1>4, MoveFacts
<1>6. TypeOK' /\ OthersStand(s)
  BY <1>1, <1>3, <1>5 DEF TypeOK, dataVars, OthersStand
<1>7. /\ (session[s].at)' = session[s].at /\ (session[s].todo)' = session[s].todo
      /\ (session[s].found)' = session[s].found
  BY <1>1, <1>5 DEF TypeOK, SessionRecords
<1>8. Fits(s)'
  BY <1>1, <1>7 DEF Sound, Fits
<1>9. Holds(s)'
  BY <1>1, <1>3, <1>7, RowFacts, JobFacts, ObjectsAssumption
     DEF Sound, Holds, TypeOK, SessionRecords
<1>10. Believes(s)'
  BY <1>1, <1>7 DEF Sound, Believes, OpenerBelieves, CloserBelieves, JudgeBelieves, SettlerBelieves,
         PayerBelieves, Rivals, OpenOn, dataVars
<1> QED
  BY <1>1, <1>6, <1>8, <1>9, <1>10 DEF Keeps, Sound

\* Opening, up to its commit.
LEMMA OpenKeeps ==
  ASSUME IInv, NEW s \in Sessions, Lookup(s) \/ LockMarket(s) \/ InsertPosition(s)
  PROVE  Keeps(s)
<1> DEFINE p == Job[s].on
           m == MarketOf[p]
<1>1. TypeOK /\ Sound(s)
  BY DEF IInv
<1>2. CASE Lookup(s) /\ ~Rollback(s)
  <2>1. Goto(s, "market") /\ UNCHANGED <<dataVars, lock>> /\ Job[s].kind = "open"
    BY <1>1, <1>2 DEF Lookup, Sound, Fits
  <2>2. /\ TypeOK' /\ OthersStand(s) /\ UNCHANGED dataVars
        /\ (session[s].at)' = "market"
    BY <1>1, <2>1, GotoKeeps DEF Stages
  <2>3. Fits(s)' /\ Holds(s)' /\ Believes(s)'
    BY <2>1, <2>2 DEF Fits, Holds, Believes, OpenerBelieves
  <2> QED
    BY <2>2, <2>3 DEF Keeps, Sound
<1>3. CASE LockMarket(s) /\ ~Rollback(s)
  <2>1. /\ market[m] = "open" /\ Job[s].kind = "open" /\ UNCHANGED dataVars
        /\ Free(MarketRow(m), s) /\ Take(MarketRow(m), s) /\ Goto(s, "insert")
    BY <1>3 DEF LockMarket
  <2>2. m \in Markets /\ MarketRow(m) \in Rows
    BY <2>1, JobFacts, RowFacts, ObjectsAssumption
  <2>3. /\ TypeOK' /\ OthersStand(s)
        /\ (session[s].at)' = "insert" /\ lock'[MarketRow(m)] = s
    BY <1>1, <2>1, <2>2, TakeAndGotoKeeps DEF Stages
  <2>4. Fits(s)' /\ Holds(s)' /\ Believes(s)'
    BY <2>1, <2>3 DEF Fits, Holds, Believes, OpenerBelieves, dataVars
  <2> QED
    BY <2>1, <2>3, <2>4 DEF Keeps, Sound
<1>4. CASE InsertPosition(s) /\ ~Rollback(s)
  <2>1. /\ session[s].at = "insert" /\ position[p] = "none" /\ Rivals(p) = {}
        /\ Free(PositionRow(p), s) /\ Take(PositionRow(p), s) /\ Post(s, Owner[p])
        /\ UNCHANGED dataVars
    BY <1>4 DEF InsertPosition
  <2>2. Job[s].kind = "open" /\ market[m] = "open" /\ lock[MarketRow(m)] = s
    BY <1>1, <2>1 DEF Sound, Fits, Holds, Believes, OpenerBelieves
  <2>3. p \in Positions /\ m \in Markets /\ Owner[p] \in Users
    BY <2>2, JobFacts, ObjectsAssumption
  <2>4. /\ lock' \in [Rows -> Sessions \union {Nobody}] /\ lock'[PositionRow(p)] = s
        /\ \A t \in Sessions, q \in Rows : lock[q] = t => lock'[q] = t
    BY <1>1, <2>1, <2>3, RowFacts, TakeFacts
  <2>5. PICK x \in SessionRecords :
          /\ x.at = "accounts" /\ session' = [session EXCEPT ![s] = x]
    BY <2>1, <2>3, PostFacts
  <2>6. /\ session' \in [Sessions -> SessionRecords] /\ (session[s].at)' = "accounts"
        /\ \A t \in Sessions \ {s} : session'[t] = session[t]
    BY <1>1, <2>5, MoveFacts
  <2>7. TypeOK' /\ OthersStand(s)
    BY <1>1, <2>1, <2>4, <2>6 DEF TypeOK, dataVars, OthersStand
  <2>8. lock'[MarketRow(m)] = s
    BY <2>2, <2>3, <2>4, RowFacts
  <2>9. Fits(s)' /\ Holds(s)'
    BY <2>2, <2>4, <2>6, <2>8 DEF Fits, Holds
  <2>10. Believes(s)'
    BY <2>1, <2>2, <2>6 DEF Believes, OpenerBelieves, Rivals, dataVars
  <2> QED
    BY <2>1, <2>7, <2>9, <2>10 DEF Keeps, Sound
<1> QED
  BY <1>2, <1>3, <1>4, RollbackKeeps

\* Closing and liquidating, up to the commit.
LEMMA CloseKeeps ==
  ASSUME IInv, NEW s \in Sessions, ReadPosition(s) \/ UpdatePosition(s)
  PROVE  Keeps(s)
<1> DEFINE p == Job[s].on
<1>1. TypeOK /\ Sound(s)
  BY DEF IInv
<1>2. Job[s].kind \in {"close", "liquidate"} /\ p \in Positions
  BY <1>1, JobFacts DEF ReadPosition, UpdatePosition, Sound, Fits
<1>3. CASE ReadPosition(s) /\ ~Rollback(s)
  <2>1. Goto(s, "update") /\ UNCHANGED <<dataVars, lock>>
    BY <1>3 DEF ReadPosition
  <2>2. /\ TypeOK' /\ OthersStand(s) /\ UNCHANGED dataVars
        /\ (session[s].at)' = "update"
    BY <1>1, <2>1, GotoKeeps DEF Stages
  <2>3. Fits(s)' /\ Holds(s)' /\ Believes(s)'
    BY <1>2, <2>2 DEF Fits, Holds, Believes, CloserBelieves
  <2> QED
    BY <2>2, <2>3 DEF Keeps, Sound
<1>4. CASE UpdatePosition(s) /\ ~Rollback(s)
  <2>1. /\ position[p] = "open" /\ Free(PositionRow(p), s) /\ Take(PositionRow(p), s)
        /\ Post(s, Owner[p]) /\ UNCHANGED dataVars
    BY <1>4 DEF UpdatePosition
  <2>2. /\ lock' \in [Rows -> Sessions \union {Nobody}] /\ lock'[PositionRow(p)] = s
        /\ \A t \in Sessions, q \in Rows : lock[q] = t => lock'[q] = t
    BY <1>1, <1>2, <2>1, RowFacts, TakeFacts
  <2>3. PICK x \in SessionRecords :
          /\ x.at = "accounts" /\ session' = [session EXCEPT ![s] = x]
    BY <1>2, <2>1, PostFacts, ObjectsAssumption
  <2>4. /\ session' \in [Sessions -> SessionRecords] /\ (session[s].at)' = "accounts"
        /\ \A t \in Sessions \ {s} : session'[t] = session[t]
    BY <1>1, <2>3, MoveFacts
  <2>5. TypeOK' /\ OthersStand(s)
    BY <1>1, <2>1, <2>2, <2>4 DEF TypeOK, dataVars, OthersStand
  <2>6. Fits(s)' /\ Holds(s)' /\ Believes(s)'
    BY <1>2, <2>1, <2>2, <2>4 DEF Fits, Holds, Believes, CloserBelieves, dataVars
  <2> QED
    BY <2>1, <2>5, <2>6 DEF Keeps, Sound
<1> QED
  BY <1>3, <1>4, RollbackKeeps

\* The withdrawal request, up to its commit, and the start of a settlement request.
LEMMA RequestKeeps ==
  ASSUME IInv, NEW s \in Sessions, InsertSettlement(s) \/ InsertKey(s) \/ CheckFrozen(s)
  PROVE  Keeps(s)
<1> DEFINE w == Job[s].on
<1>1. TypeOK /\ Sound(s)
  BY DEF IInv
<1>2. CASE InsertSettlement(s) /\ ~Rollback(s)
  <2>1. /\ Job[s].kind = "resolve" /\ settlement[w] = "none" /\ UNCHANGED dataVars
        /\ Free(SettlementRow(w), s) /\ Take(SettlementRow(w), s) /\ Goto(s, "mark")
    BY <1>2 DEF InsertSettlement
  <2>2. SettlementRow(w) \in Rows
    BY <2>1, JobFacts, RowFacts
  <2>3. /\ TypeOK' /\ OthersStand(s)
        /\ (session[s].at)' = "mark" /\ lock'[SettlementRow(w)] = s
    BY <1>1, <2>1, <2>2, TakeAndGotoKeeps DEF Stages
  <2>4. Fits(s)' /\ Holds(s)' /\ Believes(s)'
    BY <2>1, <2>3 DEF Fits, Holds, Believes, JudgeBelieves, dataVars
  <2> QED
    BY <2>1, <2>3, <2>4 DEF Keeps, Sound
<1>3. CASE InsertKey(s) /\ ~Rollback(s)
  <2>1. /\ Job[s].kind = "withdraw" /\ reserves[w] = 0 /\ UNCHANGED dataVars
        /\ Free(WithdrawalRow(w), s) /\ Take(WithdrawalRow(w), s) /\ Goto(s, "frozen")
    BY <1>3 DEF InsertKey
  <2>2. WithdrawalRow(w) \in Rows
    BY <2>1, JobFacts, RowFacts
  <2>3. /\ TypeOK' /\ OthersStand(s)
        /\ (session[s].at)' = "frozen" /\ lock'[WithdrawalRow(w)] = s
    BY <1>1, <2>1, <2>2, TakeAndGotoKeeps DEF Stages
  <2>4. Fits(s)' /\ Holds(s)' /\ Believes(s)'
    BY <2>1, <2>3 DEF Fits, Holds, Believes, PayerBelieves, dataVars
  <2> QED
    BY <2>1, <2>3, <2>4 DEF Keeps, Sound
<1>4. CASE CheckFrozen(s) /\ ~Rollback(s)
  <2>1. session[s].at = "frozen" /\ Post(s, Payer[w]) /\ UNCHANGED <<dataVars, lock>>
    BY <1>4 DEF CheckFrozen
  <2>2. /\ Job[s].kind = "withdraw" /\ reserves[w] = 0
        /\ lock[WithdrawalRow(w)] = s
    BY <1>1, <2>1 DEF Sound, Fits, Holds, Believes, PayerBelieves
  <2>3. PICK x \in SessionRecords :
          /\ x.at = "accounts" /\ session' = [session EXCEPT ![s] = x]
    BY <2>1, <2>2, PostFacts, JobFacts, ObjectsAssumption
  <2>4. /\ session' \in [Sessions -> SessionRecords] /\ (session[s].at)' = "accounts"
        /\ \A t \in Sessions \ {s} : session'[t] = session[t]
    BY <1>1, <2>3, MoveFacts
  <2>5. TypeOK' /\ OthersStand(s)
    BY <1>1, <2>1, <2>4 DEF TypeOK, dataVars, OthersStand
  <2>6. Fits(s)' /\ Holds(s)' /\ Believes(s)'
    BY <2>1, <2>2, <2>4 DEF Fits, Holds, Believes, PayerBelieves, dataVars
  <2> QED
    BY <2>1, <2>5, <2>6 DEF Keeps, Sound
<1> QED
  BY <1>2, <1>3, <1>4, RollbackKeeps

\* The settlement's locks on the intent and the market.
LEMMA SettleLocksKeep ==
  ASSUME IInv, NEW s \in Sessions, LockIntent(s) \/ LockOutcome(s)
  PROVE  Keeps(s)
<1> DEFINE m == Job[s].on
<1>1. TypeOK /\ Sound(s) /\ BooksAgree
  BY DEF IInv, DataInv
<1>2. Job[s].kind = "settle" /\ m \in Markets
  BY <1>1, JobFacts DEF LockIntent, LockOutcome, Sound, Fits
<1>3. MarketRow(m) \in Rows /\ SettlementRow(m) \in Rows
  BY <1>2, RowFacts
<1>4. CASE LockIntent(s) /\ ~Rollback(s)
  <2>1. /\ settlement[m] = "inflight" /\ UNCHANGED dataVars
        /\ Free(SettlementRow(m), s) /\ Take(SettlementRow(m), s) /\ Goto(s, "market")
    BY <1>4 DEF LockIntent
  <2>2. /\ TypeOK' /\ OthersStand(s)
        /\ (session[s].at)' = "market" /\ lock'[SettlementRow(m)] = s
    BY <1>1, <1>3, <2>1, TakeAndGotoKeeps DEF Stages
  <2>3. market[m] = "settling"
    BY <1>1, <1>2, <2>1 DEF BooksAgree
  <2>4. Fits(s)' /\ Holds(s)' /\ Believes(s)'
    BY <1>2, <2>1, <2>2, <2>3 DEF Fits, Holds, Believes, SettlerBelieves, dataVars
  <2> QED
    BY <2>1, <2>2, <2>4 DEF Keeps, Sound
<1>5. CASE LockOutcome(s)
  <2>1. /\ session[s].at = "market" /\ UNCHANGED dataVars
        /\ Free(MarketRow(m), s) /\ Take(MarketRow(m), s) /\ Goto(s, "scan")
    BY <1>5 DEF LockOutcome
  <2>2. /\ TypeOK' /\ OthersStand(s)
        /\ (session[s].at)' = "scan" /\ lock'[MarketRow(m)] = s
        /\ \A q \in Rows : lock[q] = s => lock'[q] = s
    BY <1>1, <1>3, <2>1, TakeAndGotoKeeps DEF Stages
  <2>3. lock'[SettlementRow(m)] = s
    BY <1>1, <1>2, <1>3, <2>1, <2>2 DEF Sound, Holds
  <2>4. settlement[m] = "inflight" /\ market[m] = "settling"
    BY <1>1, <1>2, <2>1 DEF Sound, Believes, SettlerBelieves
  <2>5. Fits(s)' /\ Holds(s)' /\ Believes(s)'
    BY <1>2, <2>1, <2>2, <2>3, <2>4 DEF Fits, Holds, Believes, SettlerBelieves, dataVars
  <2> QED
    BY <2>1, <2>2, <2>5 DEF Keeps, Sound
<1> QED
  BY <1>4, <1>5, RollbackKeeps

\* A settlement that has its market locked moves on with what it has found.
LEMMA SettleMoves ==
  ASSUME IInv, NEW s \in Sessions, NEW x \in SessionRecords,
         session' = [session EXCEPT ![s] = x], UNCHANGED <<dataVars, lock>>,
         Job[s].kind = "settle",
         session[s].at \in {"scan", "positions", "payout", "accounts"},
         x.at \in {"positions", "payout", "accounts"},
         \A p \in x.found : lock[PositionRow(p)] = s,
         x.at = "positions" =>
           /\ \A p \in x.todo : MarketOf[p] = Job[s].on
           /\ x.found \subseteq OpenOn(Job[s].on) /\ OpenOn(Job[s].on) \subseteq x.found \union x.todo,
         x.at \in {"payout", "accounts"} => x.found = OpenOn(Job[s].on)
  PROVE  Keeps(s)
<1> DEFINE m == Job[s].on
<1>1. TypeOK /\ Sound(s)
  BY DEF IInv
<1>2. /\ session' \in [Sessions -> SessionRecords] /\ session'[s] = x
      /\ \A t \in Sessions \ {s} : session'[t] = session[t]
  BY <1>1, MoveFacts
<1>3. TypeOK' /\ OthersStand(s)
  BY <1>1, <1>2 DEF TypeOK, dataVars, OthersStand
<1>4. lock[SettlementRow(m)] = s /\ lock[MarketRow(m)] = s
  BY <1>1 DEF Sound, Holds
<1>5. settlement[m] = "inflight" /\ market[m] = "settling"
  BY <1>1 DEF Sound, Believes, SettlerBelieves
<1>6. OpenOn(m)' = OpenOn(m)
  BY DEF OpenOn, dataVars
<1>7. Fits(s)' /\ Holds(s)'
  BY <1>2, <1>4 DEF Fits, Holds
<1>8. Believes(s)'
  BY <1>2, <1>5, <1>6 DEF Believes, SettlerBelieves, dataVars
<1> QED
  BY <1>3, <1>7, <1>8 DEF Keeps, Sound

\* The scan, and the transfers one by one.
LEMMA SettleWalkKeeps ==
  ASSUME IInv, NEW s \in Sessions, 
         ScanPositions(s) \/ LockedAll(s) \/ NextPayout(s) \/ \E p \in Positions : PostPayout(s, p)
  PROVE  Keeps(s)
<1> DEFINE m == Job[s].on
<1>1. TypeOK /\ Sound(s) /\ session[s] \in SessionRecords
  BY DEF IInv, TypeOK
<1>2. Job[s].kind = "settle" /\ m \in Markets
  BY <1>1, JobFacts DEF ScanPositions, LockedAll, NextPayout, PostPayout, Sound, Fits
<1>3. OpenOn(m) \in SUBSET Positions /\ \A p \in OpenOn(m) : MarketOf[p] = m
  BY DEF OpenOn
<1>4. CASE ScanPositions(s)
  <2> DEFINE x == [session[s] EXCEPT !.at = "positions", !.todo = OpenOn(m), !.found = {}]
  <2>1. /\ x \in SessionRecords /\ x.at = "positions" /\ x.todo = OpenOn(m) /\ x.found = {}
    BY <1>1, <1>3 DEF SessionRecords, Stages
  <2>2. session' = [session EXCEPT ![s] = x] /\ UNCHANGED <<dataVars, lock>> /\ session[s].at = "scan"
    BY <1>1, <1>4 DEF ScanPositions, TypeOK, SessionRecords
  <2> HIDE DEF x
  <2> QED
    BY <1>2, <1>3, <2>1, <2>2, SettleMoves
<1>5. CASE LockedAll(s)
  <2> DEFINE x == [session[s] EXCEPT !.at = "payout", !.todo = session[s].found]
  <2>1. /\ x \in SessionRecords /\ x.at = "payout" /\ x.found = session[s].found
    BY <1>1 DEF SessionRecords, Stages
  <2>2. /\ session' = [session EXCEPT ![s] = x] /\ UNCHANGED <<dataVars, lock>>
        /\ session[s].at = "positions" /\ session[s].todo = {}
    BY <1>1, <1>5 DEF LockedAll, TypeOK, SessionRecords
  <2>3. session[s].found = OpenOn(m) /\ \A p \in session[s].found : lock[PositionRow(p)] = s
    BY <1>1, <1>2, <2>2 DEF Sound, Believes, SettlerBelieves, Holds
  <2> HIDE DEF x
  <2> QED
    BY <1>2, <2>1, <2>2, <2>3, SettleMoves
<1>6. CASE NextPayout(s)
  <2> DEFINE x == [session[s] EXCEPT !.at = "payout"]
  <2>1. /\ x \in SessionRecords /\ x.at = "payout" /\ x.found = session[s].found
    BY <1>1 DEF SessionRecords, Stages
  <2>2. /\ session' = [session EXCEPT ![s] = x] /\ UNCHANGED <<dataVars, lock>>
        /\ session[s].at = "accounts"
    BY <1>1, <1>6 DEF NextPayout, Posted, Goto, TypeOK, SessionRecords
  <2>3. session[s].found = OpenOn(m) /\ \A p \in session[s].found : lock[PositionRow(p)] = s
    BY <1>1, <1>2, <2>2 DEF Sound, Believes, SettlerBelieves, Holds
  <2> HIDE DEF x
  <2> QED
    BY <1>2, <2>1, <2>2, <2>3, SettleMoves
<1>7. ASSUME NEW p \in Positions, PostPayout(s, p)
      PROVE  Keeps(s)
  <2> DEFINE x == [session[s] EXCEPT !.at = "accounts", !.todo = @ \ {p},
                                     !.wants = LockOrder("settle", Owner[p])]
  <2>1. LockOrder("settle", Owner[p]) \in Seq(Rows)
    BY ObjectsAssumption, LockOrderRows DEF Kinds
  <2>2. /\ x \in SessionRecords /\ x.at = "accounts" /\ x.found = session[s].found
    BY <1>1, <2>1 DEF SessionRecords, Stages
  <2>3. /\ session' = [session EXCEPT ![s] = x] /\ UNCHANGED <<dataVars, lock>>
        /\ session[s].at = "payout"
    BY <1>1, <1>7 DEF PostPayout, TypeOK, SessionRecords
  <2>4. session[s].found = OpenOn(m) /\ \A q \in session[s].found : lock[PositionRow(q)] = s
    BY <1>1, <1>2, <2>3 DEF Sound, Believes, SettlerBelieves, Holds
  <2> HIDE DEF x
  <2> QED
    BY <1>2, <2>2, <2>3, <2>4, SettleMoves
<1> QED
  BY <1>4, <1>5, <1>6, <1>7

\* The lock on the next position, and the second look at it.
LEMMA LockPositionKeeps ==
  ASSUME IInv, NEW s \in Sessions, NEW p \in Positions, LockPosition(s, p)
  PROVE  Keeps(s)
<1> DEFINE m == Job[s].on
           y == session[s]
<1>1. TypeOK /\ Sound(s) /\ y \in SessionRecords
  BY DEF IInv, TypeOK
<1>2. /\ y.at = "positions" /\ p \in y.todo /\ UNCHANGED dataVars
      /\ Free(PositionRow(p), s)
  BY DEF LockPosition, First
<1>3. Job[s].kind = "settle" /\ m \in Markets /\ MarketOf[p] = m
  BY <1>1, <1>2, JobFacts DEF Sound, Fits
<1>4. /\ y.found \subseteq OpenOn(m) /\ OpenOn(m) \subseteq y.found \union y.todo
      /\ \A q \in y.found : lock[PositionRow(q)] = s
      /\ \A q \in y.todo : MarketOf[q] = m
      /\ settlement[m] = "inflight" /\ market[m] = "settling"
      /\ lock[SettlementRow(m)] = s /\ lock[MarketRow(m)] = s
  BY <1>1, <1>2, <1>3 DEF Sound, Fits, Believes, SettlerBelieves, Holds
<1>5. CASE position[p] = "open"
  <2> DEFINE x == [y EXCEPT !.todo = @ \ {p}, !.found = @ \union {p}]
  <2>1. /\ x \in SessionRecords /\ x.at = "positions" /\ x.todo = y.todo \ {p}
        /\ x.found = y.found \union {p}
    BY <1>1, <1>2 DEF SessionRecords
  <2>2. session' = [session EXCEPT ![s] = x] /\ Take(PositionRow(p), s)
    BY <1>1, <1>5 DEF LockPosition, TypeOK, SessionRecords
  <2> HIDE DEF x
  <2>3. /\ session' \in [Sessions -> SessionRecords] /\ session'[s] = x
        /\ \A t \in Sessions \ {s} : session'[t] = session[t]
    BY <1>1, <2>1, <2>2, MoveFacts
  <2>4. /\ lock' \in [Rows -> Sessions \union {Nobody}] /\ lock'[PositionRow(p)] = s
        /\ \A t \in Sessions, q \in Rows : lock[q] = t => lock'[q] = t
    BY <1>1, <1>2, <2>2, RowFacts, TakeFacts
  <2>5. TypeOK' /\ OthersStand(s)
    BY <1>1, <1>2, <2>3, <2>4 DEF TypeOK, dataVars, OthersStand
  <2>6. OpenOn(m)' = OpenOn(m) /\ p \in OpenOn(m)
    BY <1>2, <1>3, <1>5 DEF OpenOn, dataVars
  <2>7. \A q \in x.found : lock'[PositionRow(q)] = s
    BY <1>1, <1>4, <2>1, <2>4, RowFacts DEF SessionRecords
  <2>8. lock'[SettlementRow(m)] = s /\ lock'[MarketRow(m)] = s
    BY <1>3, <1>4, <2>4, RowFacts
  <2>9. Fits(s)' /\ Holds(s)'
    BY <1>3, <1>4, <2>1, <2>3, <2>7, <2>8 DEF Fits, Holds
  <2>10. Believes(s)'
    BY <1>2, <1>3, <1>4, <2>1, <2>3, <2>6 DEF Believes, SettlerBelieves, dataVars
  <2> QED
    BY <1>2, <2>5, <2>9, <2>10 DEF Keeps, Sound
<1>6. CASE position[p] # "open"
  <2> DEFINE x == [y EXCEPT !.todo = @ \ {p}]
  <2>1. /\ x \in SessionRecords /\ x.at = "positions" /\ x.todo = y.todo \ {p}
        /\ x.found = y.found
    BY <1>1, <1>2 DEF SessionRecords
  <2>2. session' = [session EXCEPT ![s] = x] /\ UNCHANGED <<dataVars, lock>>
    BY <1>1, <1>6 DEF LockPosition, TypeOK, SessionRecords
  <2>3. p \notin OpenOn(m)
    BY <1>6 DEF OpenOn
  <2> HIDE DEF x
  <2> QED
    BY <1>2, <1>3, <1>4, <2>1, <2>2, <2>3, SettleMoves
<1> QED
  BY <1>5, <1>6

-----------------------------------------------------------------------------
(* The other sessions *)

\* Sessions that stand where they stood still hold what they held.
LEMMA OthersHold ==
  ASSUME IInv, NEW s \in Sessions, OthersStand(s), NEW t \in Sessions \ {s}
  PROVE  Fits(t)' /\ Holds(t)'
<1>1. Fits(t) /\ Holds(t) /\ session[t] \in SessionRecords
  BY DEF IInv, Sound, TypeOK
<1>2. session'[t] = session[t] /\ \A r \in Rows : lock[r] = t => lock'[r] = t
  BY DEF OthersStand
<1>3. Fits(t)'
  BY <1>1, <1>2 DEF Fits
<1>4. /\ Job[t].kind = "open" => MarketOf[Job[t].on] \in Markets
      /\ session[t].found \subseteq Positions
  BY <1>1, JobFacts, ObjectsAssumption DEF SessionRecords
<1>5. Holds(t)'
  BY <1>1, <1>2, <1>4, JobFacts, RowFacts DEF Holds
<1> QED
  BY <1>3, <1>5

\* A step that writes no data leaves the whole invariant standing.
LEMMA QuietStep ==
  ASSUME IInv, NEW s \in Sessions, Keeps(s)
  PROVE  IInv'
<1>1. TypeOK' /\ OthersStand(s) /\ Sound(s)' /\ UNCHANGED dataVars
  BY DEF Keeps
<1>2. DataInv'
  BY <1>1 DEF IInv, DataInv, BooksAgree, CollateralReleasedOnce, SettledMarketIsEmpty,
              KeyReservesOnce, dataVars
<1>3. ASSUME NEW t \in Sessions \ {s}
      PROVE  Believes(t)'
  <2>1. Believes(t) /\ session'[t] = session[t]
    BY <1>1 DEF IInv, Sound, OthersStand
  <2> QED
    BY <1>1, <2>1 DEF Believes, OpenerBelieves, CloserBelieves, JudgeBelieves, SettlerBelieves,
                      PayerBelieves, Rivals, OpenOn, dataVars
<1>4. \A t \in Sessions : Sound(t)'
  BY <1>1, <1>3, OthersHold DEF Sound
<1> QED
  BY <1>1, <1>2, <1>4 DEF IInv

\* What is left to show of a step that commits: what it wrote, and that nobody
\* else relied on what it changed.
LEMMA CommitStep ==
  ASSUME IInv, NEW s \in Sessions, End(s), DataInv',
         market' \in [Markets -> {"open", "settling", "settled"}],
         position' \in [Positions -> {"none", "open", "closed", "liquidated"}],
         posted' \in [Positions -> SUBSET {"open", "close", "settle"}],
         settlement' \in [Markets -> {"none", "inflight", "confirmed"}],
         reserves' \in [Withdrawals -> Nat],
         \A t \in Sessions \ {s} : session'[t] = session[t] => Believes(t)'
  PROVE  IInv'
<1>1. TypeOK
  BY DEF IInv
<1>2. /\ lock' \in [Rows -> Sessions \union {Nobody}]
      /\ session' \in [Sessions -> SessionRecords]
      /\ session'[s] = Idle /\ OthersStand(s)
  BY <1>1, EndFacts
<1>3. TypeOK'
  BY <1>2 DEF TypeOK
<1>4. Sound(s)'
  BY <1>2, IdleIsSound
<1>5. \A t \in Sessions \ {s} : Sound(t)'
  BY <1>2, OthersHold DEF Sound, OthersStand
<1> QED
  BY <1>3, <1>4, <1>5 DEF IInv

-----------------------------------------------------------------------------
(* Steps that commit *)

\* What an open that is about to commit knows.
LEMMA OpenerKnows ==
  ASSUME IInv, NEW s \in Sessions, Job[s].kind = "open", session[s].at = "accounts"
  PROVE  LET p == Job[s].on
             m == MarketOf[p]
         IN /\ p \in Positions /\ m \in Markets
            /\ lock[PositionRow(p)] = s /\ lock[MarketRow(m)] = s
            /\ market[m] = "open" /\ position[p] = "none" /\ posted[p] = {}
            /\ Rivals(p) = {}
<1>1. Job[s].on \in Positions /\ MarketOf[Job[s].on] \in Markets
  BY JobFacts, ObjectsAssumption
<1>2. Holds(s) /\ Believes(s) /\ CollateralReleasedOnce
  BY DEF IInv, DataInv, Sound
<1> QED
  BY <1>1, <1>2 DEF Holds, Believes, OpenerBelieves, CollateralReleasedOnce

\* What a close that is about to commit knows.
LEMMA CloserKnows ==
  ASSUME IInv, NEW s \in Sessions, Job[s].kind \in {"close", "liquidate"},
         session[s].at = "accounts"
  PROVE  LET p == Job[s].on
         IN /\ p \in Positions /\ lock[PositionRow(p)] = s
            /\ position[p] = "open" /\ posted[p] = {"open"}
<1>1. Job[s].on \in Positions
  BY JobFacts
<1>2. Holds(s) /\ Believes(s) /\ CollateralReleasedOnce
  BY DEF IInv, DataInv, Sound
<1> QED
  BY <1>1, <1>2 DEF Holds, Believes, CloserBelieves, CollateralReleasedOnce

\* What a settlement that has its market locked knows.
LEMMA SettlerKnows ==
  ASSUME IInv, NEW s \in Sessions, Job[s].kind = "settle",
         session[s].at \in {"market", "scan", "positions", "payout", "accounts"}
  PROVE  LET m == Job[s].on
             x == session[s]
         IN /\ m \in Markets /\ lock[SettlementRow(m)] = s
            /\ settlement[m] = "inflight" /\ market[m] = "settling"
            /\ x.found \subseteq Positions
            /\ x.at \in {"positions", "payout", "accounts"} =>
                 \A p \in x.found : lock[PositionRow(p)] = s
            /\ x.at = "positions" =>
                 x.found \subseteq OpenOn(m) /\ OpenOn(m) \subseteq x.found \union x.todo
            /\ x.at \in {"payout", "accounts"} => x.found = OpenOn(m)
<1>1. Job[s].on \in Markets /\ session[s] \in SessionRecords
  BY JobFacts DEF IInv, TypeOK
<1>2. Holds(s) /\ Believes(s)
  BY DEF IInv, Sound
<1> QED
  BY <1>1, <1>2 DEF Holds, Believes, SettlerBelieves, SessionRecords

\* The commit of OpenPosition.
LEMMA CommitOpenKeeps ==
  ASSUME IInv, NEW s \in Sessions, CommitOpen(s)
  PROVE  IInv'
<1> DEFINE p == Job[s].on
           m == MarketOf[p]
<1>1. /\ Job[s].kind = "open" /\ session[s].at = "accounts" /\ End(s)
      /\ position' = [position EXCEPT ![p] = "open"]
      /\ posted' = [posted EXCEPT ![p] = @ \union {"open"}]
      /\ UNCHANGED <<market, settlement, reserves>>
  BY DEF CommitOpen, Posted
<1>2. /\ p \in Positions /\ m \in Markets
      /\ lock[PositionRow(p)] = s /\ lock[MarketRow(m)] = s
      /\ market[m] = "open" /\ position[p] = "none" /\ posted[p] = {}
  BY <1>1, OpenerKnows
<1>3. TypeOK /\ DataInv
  BY DEF IInv
<1>4. /\ position' \in [Positions -> {"none", "open", "closed", "liquidated"}]
      /\ posted' \in [Positions -> SUBSET {"open", "close", "settle"}]
  BY <1>1, <1>3 DEF TypeOK
<1>5. position'[p] = "open" /\ \A q \in Positions \ {p} : position'[q] = position[q]
  BY <1>1, <1>2, <1>3 DEF TypeOK
<1>6. posted'[p] = {"open"} /\ \A q \in Positions \ {p} : posted'[q] = posted[q]
  BY <1>1, <1>2, <1>3 DEF TypeOK
<1>7. DataInv'
  <2>1. BooksAgree' /\ KeyReservesOnce'
    BY <1>1, <1>3 DEF DataInv, BooksAgree, KeyReservesOnce
  <2>2. CollateralReleasedOnce'
    BY <1>3, <1>5, <1>6 DEF DataInv, CollateralReleasedOnce
  <2>3. SettledMarketIsEmpty'
    BY <1>1, <1>2, <1>3, <1>5 DEF DataInv, SettledMarketIsEmpty
  <2> QED
    BY <2>1, <2>2, <2>3 DEF DataInv
<1>8. ASSUME NEW t \in Sessions \ {s}, session'[t] = session[t]
      PROVE  Believes(t)'
  <2>1. Believes(t)
    BY DEF IInv, Sound
  <2>2. Job[t].kind = "open" => OpenerBelieves(t)'
    <3>1. SUFFICES ASSUME Job[t].kind = "open"
                   PROVE  OpenerBelieves(t)'
      OBVIOUS
    <3> DEFINE q == Job[t].on
    <3>2. session[t].at \in {"insert", "accounts"} => market'[MarketOf[q]] = "open"
      BY <1>1, <2>1, <3>1 DEF Believes, OpenerBelieves
    <3>3. session[t].at = "accounts" => position'[q] = "none" /\ Rivals(q)' = {}
      <4>1. SUFFICES ASSUME session[t].at = "accounts"
                     PROVE  position'[q] = "none" /\ Rivals(q)' = {}
        OBVIOUS
      <4>2. /\ q \in Positions /\ MarketOf[q] \in Markets /\ lock[PositionRow(q)] = t
            /\ lock[MarketRow(MarketOf[q])] = t /\ position[q] = "none" /\ Rivals(q) = {}
        BY <3>1, <4>1, OpenerKnows
      <4>3. q # p /\ MarketOf[q] # m
        BY <1>2, <4>2
      <4>4. Rivals(q)' = {}
        BY <1>5, <4>2, <4>3 DEF Rivals
      <4> QED
        BY <1>5, <4>2, <4>3, <4>4
    <3> QED
      BY <1>8, <3>2, <3>3 DEF OpenerBelieves
  <2>3. Job[t].kind \in {"close", "liquidate"} => CloserBelieves(t)'
    <3>1. Job[t].kind \in {"close", "liquidate"} /\ session[t].at = "accounts" =>
            position'[Job[t].on] = "open"
      BY <1>2, <1>5, CloserKnows
    <3> QED
      BY <1>8, <3>1 DEF CloserBelieves
  <2>4. Job[t].kind = "settle" => SettlerBelieves(t)'
    <3>1. SUFFICES ASSUME Job[t].kind = "settle",
                          session[t].at \in {"market", "scan", "positions", "payout", "accounts"}
                   PROVE  SettlerBelieves(t)'
      BY <1>8 DEF SettlerBelieves
    <3>2. Job[t].on # m /\ SettlerBelieves(t)
      BY <1>2, <2>1, <3>1, SettlerKnows DEF Believes
    <3>3. OpenOn(Job[t].on)' = OpenOn(Job[t].on)
      BY <1>5, <3>2 DEF OpenOn
    <3> QED
      BY <1>1, <1>8, <3>2, <3>3 DEF SettlerBelieves
  <2> QED
    BY <1>1, <1>8, <2>1, <2>2, <2>3, <2>4 DEF Believes, JudgeBelieves, PayerBelieves
<1> QED
  BY <1>1, <1>3, <1>4, <1>7, <1>8, CommitStep DEF TypeOK

\* The commit of ClosePosition.
LEMMA CommitCloseKeeps ==
  ASSUME IInv, NEW s \in Sessions, CommitClose(s)
  PROVE  IInv'
<1> DEFINE p == Job[s].on
           how == IF Job[s].kind = "close" THEN "closed" ELSE "liquidated"
<1>1. /\ Job[s].kind \in {"close", "liquidate"} /\ session[s].at = "accounts" /\ End(s)
      /\ position' = [position EXCEPT ![p] = how]
      /\ posted' = [posted EXCEPT ![p] = @ \union {"close"}]
      /\ UNCHANGED <<market, settlement, reserves>>
  BY DEF CommitClose, Posted
<1>2. /\ p \in Positions /\ lock[PositionRow(p)] = s
      /\ position[p] = "open" /\ posted[p] = {"open"}
  BY <1>1, CloserKnows
<1>3. TypeOK /\ DataInv
  BY DEF IInv
<1>4. /\ position' \in [Positions -> {"none", "open", "closed", "liquidated"}]
      /\ posted' \in [Positions -> SUBSET {"open", "close", "settle"}]
  BY <1>1, <1>3 DEF TypeOK
<1>5. /\ position'[p] \in {"closed", "liquidated"}
      /\ \A q \in Positions \ {p} : position'[q] = position[q]
  BY <1>1, <1>2, <1>3 DEF TypeOK
<1>6. posted'[p] = {"open", "close"} /\ \A q \in Positions \ {p} : posted'[q] = posted[q]
  BY <1>1, <1>2, <1>3 DEF TypeOK
<1>7. DataInv'
  <2>1. BooksAgree' /\ KeyReservesOnce'
    BY <1>1, <1>3 DEF DataInv, BooksAgree, KeyReservesOnce
  <2>2. CollateralReleasedOnce'
    BY <1>3, <1>5, <1>6 DEF DataInv, CollateralReleasedOnce
  <2>3. SettledMarketIsEmpty'
    BY <1>1, <1>3, <1>5 DEF DataInv, SettledMarketIsEmpty
  <2> QED
    BY <2>1, <2>2, <2>3 DEF DataInv
<1>8. ASSUME NEW t \in Sessions \ {s}, session'[t] = session[t]
      PROVE  Believes(t)'
  <2>1. Believes(t)
    BY DEF IInv, Sound
  <2>2. Job[t].kind = "open" => OpenerBelieves(t)'
    <3>1. SUFFICES ASSUME Job[t].kind = "open"
                   PROVE  OpenerBelieves(t)'
      OBVIOUS
    <3> DEFINE q == Job[t].on
    <3>2. session[t].at = "accounts" => position'[q] = "none" /\ Rivals(q)' = {}
      <4>1. SUFFICES ASSUME session[t].at = "accounts"
                     PROVE  position'[q] = "none" /\ Rivals(q)' = {}
        OBVIOUS
      <4>2. q \in Positions /\ position[q] = "none" /\ Rivals(q) = {}
        BY <3>1, <4>1, OpenerKnows
      <4>3. Rivals(q)' = {}
        BY <1>5, <4>2 DEF Rivals
      <4> QED
        BY <1>2, <1>5, <4>2, <4>3
    <3> QED
      BY <1>1, <1>8, <2>1, <3>1, <3>2 DEF Believes, OpenerBelieves
  <2>3. Job[t].kind \in {"close", "liquidate"} => CloserBelieves(t)'
    <3>1. Job[t].kind \in {"close", "liquidate"} /\ session[t].at = "accounts" =>
            position'[Job[t].on] = "open"
      BY <1>2, <1>5, CloserKnows
    <3> QED
      BY <1>8, <3>1 DEF CloserBelieves
  <2>4. Job[t].kind = "settle" => SettlerBelieves(t)'
    <3>1. SUFFICES ASSUME Job[t].kind = "settle",
                          session[t].at \in {"market", "scan", "positions", "payout", "accounts"}
                   PROVE  SettlerBelieves(t)'
      BY <1>8 DEF SettlerBelieves
    <3>2. /\ SettlerBelieves(t)
          /\ session[t].at \in {"positions", "payout", "accounts"} => p \notin session[t].found
      BY <1>2, <2>1, <3>1, SettlerKnows DEF Believes
    <3>3. OpenOn(Job[t].on)' = OpenOn(Job[t].on) \ {p}
      BY <1>5 DEF OpenOn
    <3> QED
      BY <1>1, <1>8, <3>2, <3>3 DEF SettlerBelieves
  <2> QED
    BY <1>1, <1>8, <2>1, <2>2, <2>3, <2>4 DEF Believes, JudgeBelieves, PayerBelieves
<1> QED
  BY <1>1, <1>3, <1>4, <1>7, <1>8, CommitStep DEF TypeOK

\* The commit of RequestSettlement.
LEMMA MarkSettlingKeeps ==
  ASSUME IInv, NEW s \in Sessions, MarkSettling(s)
  PROVE  IInv'
<1> DEFINE m == Job[s].on
<1>1. CASE Rollback(s)
  BY <1>1, RollbackKeeps, QuietStep
<1>2. CASE ~Rollback(s)
  <2>1. /\ session[s].at = "mark" /\ Free(MarketRow(m), s) /\ market[m] = "open" /\ End(s)
        /\ market' = [market EXCEPT ![m] = "settling"]
        /\ settlement' = [settlement EXCEPT ![m] = "inflight"]
        /\ UNCHANGED <<position, posted, reserves>>
    BY <1>2 DEF MarkSettling
  <2>2. TypeOK /\ DataInv /\ Sound(s)
    BY DEF IInv
  <2>3. /\ Job[s].kind = "resolve" /\ m \in Markets /\ lock[SettlementRow(m)] = s
        /\ MarketRow(m) \in Rows
    BY <2>1, <2>2, JobFacts, RowFacts DEF Sound, Fits, Holds
  <2>4. /\ market' \in [Markets -> {"open", "settling", "settled"}]
        /\ settlement' \in [Markets -> {"none", "inflight", "confirmed"}]
    BY <2>1, <2>2 DEF TypeOK
  <2>5. /\ market'[m] = "settling" /\ \A n \in Markets \ {m} : market'[n] = market[n]
        /\ settlement'[m] = "inflight"
        /\ \A n \in Markets \ {m} : settlement'[n] = settlement[n]
    BY <2>1, <2>2, <2>3 DEF TypeOK
  <2>6. DataInv'
    <3>1. BooksAgree'
      BY <2>2, <2>5 DEF DataInv, BooksAgree
    <3>2. CollateralReleasedOnce' /\ KeyReservesOnce'
      BY <2>1, <2>2 DEF DataInv, CollateralReleasedOnce, KeyReservesOnce
    <3>3. SettledMarketIsEmpty'
      BY <2>1, <2>2, <2>5, ObjectsAssumption DEF DataInv, SettledMarketIsEmpty
    <3> QED
      BY <3>1, <3>2, <3>3 DEF DataInv
  <2>7. ASSUME NEW t \in Sessions \ {s}, session'[t] = session[t]
        PROVE  Believes(t)'
    <3>1. Believes(t) /\ Holds(t)
      BY DEF IInv, Sound
    <3>2. Job[t].kind = "open" => OpenerBelieves(t)'
      <4>1. SUFFICES ASSUME Job[t].kind = "open"
                     PROVE  OpenerBelieves(t)'
        OBVIOUS
      <4> DEFINE n == MarketOf[Job[t].on]
      <4>2. n \in Markets
        BY <4>1, JobFacts, ObjectsAssumption
      <4>3. session[t].at \in {"insert", "accounts"} => n # m
        BY <2>1, <2>3, <3>1, <4>1, NobodyAssumption DEF Holds, Free
      <4>4. session[t].at \in {"insert", "accounts"} => market'[n] = "open"
        BY <2>5, <3>1, <4>1, <4>2, <4>3 DEF Believes, OpenerBelieves
      <4>5. Rivals(Job[t].on)' = Rivals(Job[t].on)
        BY <2>1 DEF Rivals
      <4> QED
        BY <2>1, <2>7, <3>1, <4>1, <4>4, <4>5 DEF Believes, OpenerBelieves
    <3>3. Job[t].kind = "resolve" => JudgeBelieves(t)'
      <4>1. Job[t].kind = "resolve" /\ session[t].at = "mark" =>
              Job[t].on \in Markets \ {m} /\ settlement[Job[t].on] = "none"
        BY <2>3, <3>1, JobFacts DEF Holds, Believes, JudgeBelieves
      <4> QED
        BY <2>5, <2>7, <4>1 DEF JudgeBelieves
    <3>4. Job[t].kind = "settle" => SettlerBelieves(t)'
      <4>1. SUFFICES ASSUME Job[t].kind = "settle",
                            session[t].at \in {"market", "scan", "positions", "payout", "accounts"}
                     PROVE  SettlerBelieves(t)'
        BY <2>7 DEF SettlerBelieves
      <4>2. Job[t].on \in Markets \ {m} /\ SettlerBelieves(t)
        BY <2>1, <3>1, <4>1, SettlerKnows DEF Believes
      <4>3. OpenOn(Job[t].on)' = OpenOn(Job[t].on)
        BY <2>1 DEF OpenOn
      <4> QED
        BY <2>5, <2>7, <4>2, <4>3 DEF SettlerBelieves
    <3> QED
      BY <2>1, <2>7, <3>1, <3>2, <3>3, <3>4 DEF Believes, CloserBelieves, PayerBelieves
  <2> QED
    BY <2>1, <2>2, <2>4, <2>6, <2>7, CommitStep DEF TypeOK
<1> QED
  BY <1>1, <1>2

\* The commit of RequestWithdraw.
LEMMA CommitReserveKeeps ==
  ASSUME IInv, NEW s \in Sessions, CommitReserve(s)
  PROVE  IInv'
<1> DEFINE w == Job[s].on
<1>1. /\ Job[s].kind = "withdraw" /\ session[s].at = "accounts" /\ End(s)
      /\ reserves' = [reserves EXCEPT ![w] = @ + 1]
      /\ UNCHANGED <<market, position, posted, settlement>>
  BY DEF CommitReserve, Posted
<1>2. TypeOK /\ DataInv /\ Sound(s)
  BY DEF IInv
<1>3. w \in Withdrawals /\ lock[WithdrawalRow(w)] = s /\ reserves[w] = 0
  BY <1>1, <1>2, JobFacts DEF Sound, Holds, Believes, PayerBelieves
<1>4. /\ reserves' \in [Withdrawals -> Nat] /\ reserves'[w] = 1
      /\ \A v \in Withdrawals \ {w} : reserves'[v] = reserves[v]
  BY <1>1, <1>2, <1>3 DEF TypeOK
<1>5. DataInv'
  <2>1. BooksAgree' /\ CollateralReleasedOnce' /\ SettledMarketIsEmpty'
    BY <1>1, <1>2 DEF DataInv, BooksAgree, CollateralReleasedOnce, SettledMarketIsEmpty
  <2>2. KeyReservesOnce'
    BY <1>2, <1>4 DEF DataInv, KeyReservesOnce
  <2> QED
    BY <2>1, <2>2 DEF DataInv
<1>6. ASSUME NEW t \in Sessions \ {s}, session'[t] = session[t]
      PROVE  Believes(t)'
  <2>1. Believes(t) /\ Holds(t)
    BY DEF IInv, Sound
  <2>2. Job[t].kind = "withdraw" => PayerBelieves(t)'
    <3>1. Job[t].kind = "withdraw" /\ session[t].at \in {"frozen", "accounts"} =>
            Job[t].on \in Withdrawals \ {w} /\ reserves[Job[t].on] = 0
      BY <1>3, <2>1, JobFacts DEF Holds, Believes, PayerBelieves
    <3> QED
      BY <1>4, <1>6, <3>1 DEF PayerBelieves
  <2> QED
    BY <1>1, <1>6, <2>1, <2>2 DEF Believes, OpenerBelieves, CloserBelieves, JudgeBelieves,
                                  SettlerBelieves, Rivals, OpenOn
<1> QED
  BY <1>1, <1>2, <1>4, <1>5, <1>6, CommitStep DEF TypeOK

\* The commit of a settlement.
LEMMA CommitSettleKeeps ==
  ASSUME IInv, NEW s \in Sessions, CommitSettle(s)
  PROVE  IInv'
<1> DEFINE m == Job[s].on
           out == session[s].found
<1>1. TypeOK /\ DataInv /\ Sound(s)
  BY DEF IInv
<1>2. /\ session[s].at = "payout" /\ End(s)
      /\ market' = [market EXCEPT ![m] = "settled"]
      /\ position' = [p \in Positions |-> IF p \in out THEN "closed" ELSE position[p]]
      /\ posted' = [p \in Positions |-> IF p \in out THEN posted[p] \union {"settle"} ELSE posted[p]]
      /\ settlement' = [settlement EXCEPT ![m] = "confirmed"]
      /\ UNCHANGED reserves
  BY DEF CommitSettle
<1>3. Job[s].kind = "settle"
  BY <1>1, <1>2 DEF Sound, Fits
<1>4. /\ m \in Markets /\ lock[SettlementRow(m)] = s /\ out \subseteq Positions
      /\ settlement[m] = "inflight" /\ market[m] = "settling"
      /\ out = OpenOn(m) /\ \A p \in out : lock[PositionRow(p)] = s
  BY <1>2, <1>3, SettlerKnows
<1>5. /\ market'[m] = "settled" /\ \A n \in Markets \ {m} : market'[n] = market[n]
      /\ settlement'[m] = "confirmed"
      /\ \A n \in Markets \ {m} : settlement'[n] = settlement[n]
  BY <1>1, <1>2, <1>4 DEF TypeOK
<1>6. /\ \A p \in out : /\ position[p] = "open" /\ MarketOf[p] = m
                         /\ position'[p] = "closed" /\ posted'[p] = posted[p] \union {"settle"}
      /\ \A p \in Positions \ out : position'[p] = position[p] /\ posted'[p] = posted[p]
  BY <1>2, <1>4 DEF OpenOn
<1>7. /\ market' \in [Markets -> {"open", "settling", "settled"}]
      /\ settlement' \in [Markets -> {"none", "inflight", "confirmed"}]
      /\ position' \in [Positions -> {"none", "open", "closed", "liquidated"}]
      /\ posted' \in [Positions -> SUBSET {"open", "close", "settle"}]
  BY <1>1, <1>2 DEF TypeOK
<1>8. DataInv'
  <2>1. BooksAgree'
    BY <1>1, <1>5 DEF DataInv, BooksAgree
  <2>2. CollateralReleasedOnce'
    BY <1>1, <1>4, <1>6 DEF DataInv, CollateralReleasedOnce
  <2>3. SettledMarketIsEmpty'
    <3>1. ASSUME NEW p \in Positions, market'[MarketOf[p]] = "settled"
          PROVE  position'[p] # "open"
      <4>1. MarketOf[p] \in Markets
        BY ObjectsAssumption
      <4>2. CASE p \in out
        BY <1>6, <4>2
      <4>3. CASE p \notin out /\ MarketOf[p] = m
        BY <1>4, <1>6, <4>3 DEF OpenOn
      <4>4. CASE p \notin out /\ MarketOf[p] # m
        BY <1>1, <1>5, <1>6, <3>1, <4>1, <4>4 DEF DataInv, SettledMarketIsEmpty
      <4> QED
        BY <4>2, <4>3, <4>4
    <3> QED
      BY <3>1 DEF SettledMarketIsEmpty
  <2>4. KeyReservesOnce'
    BY <1>1, <1>2 DEF DataInv, KeyReservesOnce
  <2> QED
    BY <2>1, <2>2, <2>3, <2>4 DEF DataInv
<1>9. ASSUME NEW t \in Sessions \ {s}, session'[t] = session[t]
      PROVE  Believes(t)'
  <2>1. Believes(t) /\ Holds(t)
    BY DEF IInv, Sound
  <2>2. Job[t].kind = "open" => OpenerBelieves(t)'
    <3>1. SUFFICES ASSUME Job[t].kind = "open"
                   PROVE  OpenerBelieves(t)'
      OBVIOUS
    <3> DEFINE q == Job[t].on
    <3>2. q \in Positions /\ MarketOf[q] \in Markets
      BY <3>1, JobFacts, ObjectsAssumption
    <3>3. session[t].at \in {"insert", "accounts"} => market'[MarketOf[q]] = "open"
      BY <1>4, <1>5, <2>1, <3>1, <3>2 DEF Believes, OpenerBelieves
    <3>4. session[t].at = "accounts" => position'[q] = "none" /\ Rivals(q)' = {}
      <4>1. SUFFICES ASSUME session[t].at = "accounts"
                     PROVE  position'[q] = "none" /\ Rivals(q)' = {}
        OBVIOUS
      <4>2. position[q] = "none" /\ Rivals(q) = {}
        BY <3>1, <4>1, OpenerKnows
      <4>3. \A r \in Positions : position'[r] = "open" => position[r] = "open"
        BY <1>6
      <4>4. Rivals(q)' = {}
        BY <4>2, <4>3 DEF Rivals
      <4> QED
        BY <1>6, <3>2, <4>2, <4>4
    <3> QED
      BY <1>9, <3>3, <3>4 DEF OpenerBelieves
  <2>3. Job[t].kind \in {"close", "liquidate"} => CloserBelieves(t)'
    <3>1. Job[t].kind \in {"close", "liquidate"} /\ session[t].at = "accounts" =>
            position'[Job[t].on] = "open"
      BY <1>4, <1>6, CloserKnows
    <3> QED
      BY <1>9, <3>1 DEF CloserBelieves
  <2>4. Job[t].kind = "resolve" => JudgeBelieves(t)'
    <3>1. Job[t].kind = "resolve" /\ session[t].at = "mark" =>
            Job[t].on \in Markets \ {m} /\ settlement[Job[t].on] = "none"
      BY <1>4, <2>1, JobFacts DEF Believes, JudgeBelieves
    <3> QED
      BY <1>5, <1>9, <3>1 DEF JudgeBelieves
  <2>5. Job[t].kind = "settle" => SettlerBelieves(t)'
    <3>1. SUFFICES ASSUME Job[t].kind = "settle",
                          session[t].at \in {"market", "scan", "positions", "payout", "accounts"}
                   PROVE  SettlerBelieves(t)'
      BY <1>9 DEF SettlerBelieves
    <3>2. Job[t].on \in Markets \ {m} /\ SettlerBelieves(t)
      BY <1>4, <2>1, <3>1, SettlerKnows DEF Believes
    <3>3. OpenOn(Job[t].on)' = OpenOn(Job[t].on)
      BY <1>6, <3>2 DEF OpenOn
    <3> QED
      BY <1>5, <1>9, <3>2, <3>3 DEF SettlerBelieves
  <2> QED
    BY <1>2, <1>9, <2>1, <2>2, <2>3, <2>4, <2>5 DEF Believes, PayerBelieves
<1> QED
  BY <1>1, <1>2, <1>7, <1>8, <1>9, CommitStep DEF TypeOK

-----------------------------------------------------------------------------
(* The invariant *)

\* The committed rows start out in order, and no transaction is under way.
LEMMA InitInv == Init => IInv
<1> SUFFICES ASSUME Init
             PROVE  IInv
  OBVIOUS
<1>1. Idle \in SessionRecords
  BY DEF Idle, SessionRecords, Stages
<1>2. TypeOK
  BY <1>1 DEF Init, TypeOK
<1>3. DataInv
  BY StartAssumption, ObjectsAssumption
     DEF Init, DataInv, BooksAgree, CollateralReleasedOnce, SettledMarketIsEmpty, KeyReservesOnce
<1>4. ASSUME NEW s \in Sessions
      PROVE  Sound(s)
  <2>1. session[s].at = "idle"
    BY DEF Init, Idle
  <2>2. Fits(s) /\ Holds(s)
    BY <2>1 DEF Fits, Holds
  <2>3. Believes(s)
    BY <2>1 DEF Believes, OpenerBelieves, CloserBelieves, JudgeBelieves, SettlerBelieves, PayerBelieves
  <2> QED
    BY <2>2, <2>3 DEF Sound
<1> QED
  BY <1>2, <1>3, <1>4 DEF IInv

\* Every step of every session keeps the invariant.
LEMMA NextInv == IInv /\ [Next]_vars => IInv'
<1> SUFFICES ASSUME IInv, [Next]_vars
             PROVE  IInv'
  OBVIOUS
<1>1. ASSUME NEW s \in Sessions, Begin(s) \/ Fail(s) \/ LockAccount(s)
      PROVE  IInv'
  BY <1>1, BeginKeeps, RollbackKeeps, LockAccountKeeps, QuietStep DEF Fail
<1>2. ASSUME NEW s \in Sessions, OpenStep(s)
      PROVE  IInv'
  BY <1>2, OpenKeeps, QuietStep, CommitOpenKeeps DEF OpenStep
<1>3. ASSUME NEW s \in Sessions, CloseStep(s)
      PROVE  IInv'
  BY <1>3, CloseKeeps, QuietStep, CommitCloseKeeps DEF CloseStep
<1>4. ASSUME NEW s \in Sessions, ResolveStep(s)
      PROVE  IInv'
  BY <1>4, RequestKeeps, QuietStep, MarkSettlingKeeps DEF ResolveStep
<1>5. ASSUME NEW s \in Sessions, SettleStep(s)
      PROVE  IInv'
  BY <1>5, SettleLocksKeep, SettleWalkKeeps, LockPositionKeeps, QuietStep, CommitSettleKeeps
     DEF SettleStep
<1>6. ASSUME NEW s \in Sessions, WithdrawStep(s)
      PROVE  IInv'
  BY <1>6, RequestKeeps, QuietStep, CommitReserveKeeps DEF WithdrawStep
<1>7. CASE UNCHANGED vars
  <2>1. UNCHANGED <<dataVars, lock, session>>
    BY <1>7 DEF vars
  <2> QED
    BY <2>1 DEF IInv, TypeOK, DataInv, BooksAgree, CollateralReleasedOnce, SettledMarketIsEmpty,
       KeyReservesOnce, Sound, Fits, Holds, Believes, OpenerBelieves, CloserBelieves, JudgeBelieves,
       SettlerBelieves, PayerBelieves, Rivals, OpenOn, dataVars
<1> QED
  BY <1>1, <1>2, <1>3, <1>4, <1>5, <1>6, <1>7 DEF Next

\* The inductive invariant of the trading side.
THEOREM Invariance == Spec => []IInv
  BY InitInv, NextInv, PTL DEF Spec

-----------------------------------------------------------------------------
(* The results *)

\* Whatever a transaction has read and acts on later still stands when it acts,
\* for every set of jobs (market.go and intent.go: the row locks and versions).
THEOREM ReadsAlwaysStand == Spec => []ReadsStand
<1>1. IInv => ReadsStand
  BY DEF IInv, Sound, Believes, ReadsStand
<1> QED
  BY <1>1, Invariance, PTL

\* A position's collateral is posted once and paid back once, by whoever comes
\* first of its owner, the liquidator and the settlement.
THEOREM ReleasedOnce == Spec => []CollateralReleasedOnce
<1>1. IInv => CollateralReleasedOnce
  BY DEF IInv, DataInv
<1> QED
  BY <1>1, Invariance, PTL

\* No position is open on a settled market (market.go settleMarketTx).
THEOREM SettledIsEmpty == Spec => []SettledMarketIsEmpty
<1>1. IInv => SettledMarketIsEmpty
  BY DEF IInv, DataInv
<1> QED
  BY <1>1, Invariance, PTL

\* A withdrawal key reserves at most once, however many requests carry it.
THEOREM ReservesOnce == Spec => []KeyReservesOnce
<1>1. IInv => KeyReservesOnce
  BY DEF IInv, DataInv
<1> QED
  BY <1>1, Invariance, PTL

-----------------------------------------------------------------------------
(* The promise *)

\* Steps that commit nothing are none of the promise's business.
LEMMA QuietStutters ==
  ASSUME NEW s \in Sessions,
         \/ Begin(s) \/ Fail(s) \/ LockAccount(s)
         \/ Lookup(s) \/ LockMarket(s) \/ InsertPosition(s)
         \/ ReadPosition(s) \/ UpdatePosition(s) \/ InsertSettlement(s)
         \/ LockIntent(s) \/ LockOutcome(s) \/ ScanPositions(s) \/ LockedAll(s) \/ NextPayout(s)
         \/ \E p \in Positions : LockPosition(s, p) \/ PostPayout(s, p)
         \/ InsertKey(s) \/ CheckFrozen(s) \/ CommitReserve(s)
  PROVE  UNCHANGED <<market, position, posted>>
  BY DEF Begin, Fail, LockAccount, Lookup, LockMarket, InsertPosition, ReadPosition,
         UpdatePosition, InsertSettlement, LockIntent, LockOutcome, ScanPositions, LockedAll,
         NextPayout, LockPosition, PostPayout, InsertKey, CheckFrozen, CommitReserve, Rollback,
         dataVars

\* Each commit is the step the promise has for it.
LEMMA CommitsKeepPromise ==
  ASSUME IInv, NEW s \in Sessions,
         CommitOpen(s) \/ CommitClose(s) \/ MarkSettling(s) \/ CommitSettle(s)
  PROVE  Promise!Next \/ UNCHANGED <<market, position, posted>>
<1> DEFINE on == Job[s].on
<1>1. TypeOK /\ DataInv /\ Sound(s)
  BY DEF IInv
<1>2. CASE CommitOpen(s)
  <2>1. /\ on \in Positions /\ market[MarketOf[on]] = "open"
        /\ position[on] = "none" /\ posted[on] = {}
    BY <1>2, OpenerKnows DEF CommitOpen, Posted
  <2>2. /\ position' = [position EXCEPT ![on] = "open"]
        /\ posted' = [posted EXCEPT ![on] = {"open"}]
        /\ UNCHANGED market
    BY <1>1, <1>2, <2>1 DEF CommitOpen, TypeOK
  <2>3. Promise!Open(on)
    BY <2>1, <2>2 DEF Promise!Open
  <2> QED
    BY <2>1, <2>3 DEF Promise!Next
<1>3. CASE CommitClose(s)
  <2> DEFINE how == IF Job[s].kind = "close" THEN "closed" ELSE "liquidated"
  <2>1. on \in Positions /\ position[on] = "open" /\ posted[on] = {"open"}
    BY <1>3, CloserKnows DEF CommitClose, Posted
  <2>2. /\ position' = [position EXCEPT ![on] = how]
        /\ posted' = [posted EXCEPT ![on] = {"open", "close"}]
        /\ UNCHANGED market
    BY <1>1, <1>3, <2>1 DEF CommitClose, TypeOK
  <2>3. how \in {"closed", "liquidated"}
    OBVIOUS
  <2>4. Promise!Leave(on, how)
    BY <2>1, <2>2 DEF Promise!Leave
  <2> HIDE DEF how
  <2> QED
    BY <2>1, <2>3, <2>4 DEF Promise!Next
<1>4. CASE MarkSettling(s)
  <2>1. CASE Rollback(s)
    BY <2>1 DEF Rollback, dataVars
  <2>2. CASE ~Rollback(s)
    <3>1. on \in Markets
      BY <1>1, <1>4, JobFacts DEF MarkSettling, Sound, Fits
    <3>2. Promise!Resolve(on)
      BY <1>4, <2>2 DEF MarkSettling, Promise!Resolve
    <3> QED
      BY <3>1, <3>2 DEF Promise!Next
  <2> QED
    BY <2>1, <2>2
<1>5. CASE CommitSettle(s)
  <2> DEFINE out == session[s].found
  <2>1. session[s].at = "payout" /\ Job[s].kind = "settle"
    BY <1>1, <1>5 DEF CommitSettle, Sound, Fits
  <2>2. on \in Markets /\ market[on] = "settling" /\ out = OpenOn(on)
    BY <2>1, SettlerKnows
  <2>3. \A p \in out : posted[p] = {"open"}
    BY <1>1, <2>2 DEF OpenOn, DataInv, CollateralReleasedOnce
  <2>4. Promise!Staying(on) = out
    BY <2>2 DEF Promise!Staying, OpenOn
  <2>5. /\ market' = [market EXCEPT ![on] = "settled"]
        /\ position' = [p \in Positions |-> IF p \in out THEN "closed" ELSE position[p]]
        /\ posted' = [p \in Positions |-> IF p \in out THEN posted[p] \union {"settle"} ELSE posted[p]]
    BY <1>5 DEF CommitSettle
  <2>6. posted' = [p \in Positions |-> IF p \in out THEN {"open", "settle"} ELSE posted[p]]
    BY <2>3, <2>5
  <2>7. Promise!Settle(on)
    BY <2>2, <2>4, <2>5, <2>6 DEF Promise!Settle
  <2> QED
    BY <2>2, <2>7 DEF Promise!Next
<1> QED
  BY <1>2, <1>3, <1>4, <1>5

\* The transactions implement the promise about positions: every commit is a
\* step it allows, every other step changes nothing it speaks of.
THEOREM ImplementsMarketPromise == Spec => KeepsMarketPromise
<1>1. Init => Promise!Init
  BY DEF Init, Promise!Init
<1>2. IInv /\ [Next]_vars => [Promise!Next]_<<market, position, posted>>
  <2>1. ASSUME IInv, Next
        PROVE  Promise!Next \/ UNCHANGED <<market, position, posted>>
    <3>1. PICK s \in Sessions :
            \/ Begin(s) \/ Fail(s) \/ LockAccount(s) \/ OpenStep(s) \/ CloseStep(s)
            \/ ResolveStep(s) \/ SettleStep(s) \/ WithdrawStep(s)
      BY <2>1 DEF Next
    <3> QED
      BY <2>1, <3>1, QuietStutters, CommitsKeepPromise
         DEF OpenStep, CloseStep, ResolveStep, SettleStep, WithdrawStep
  <2>2. ASSUME UNCHANGED vars
        PROVE  UNCHANGED <<market, position, posted>>
    BY <2>2 DEF vars, dataVars
  <2> QED
    BY <2>1, <2>2
<1> QED
  BY <1>1, <1>2, Invariance, PTL DEF Spec, KeepsMarketPromise, Promise!Spec, Promise!promiseVars

-----------------------------------------------------------------------------
(* Which rows a transaction can have locked *)

\* Posting a transfer, or between two of them.
Transferring == {"payout", "accounts"}

\* Its transfer moves the insurance account too.
Pays(s) == Job[s].kind \in {"close", "liquidate", "settle"}

\* The accounts a session has still to lock, and what it has locked before them.
Queues(s) ==
  LET wants == session[s].wants
  IN \E u \in Users :
       \/ wants = LockOrder(Job[s].kind, u)
       \/ wants = <<Available(u), Margin(u)>> /\ Pays(s) /\ lock[Insurance] = s
       \/ wants \in {<<Margin(u)>>, <<Pending(u)>>} /\ lock[Available(u)] = s
       \/ wants = <<>>

\* The rows a transaction can have locked, at each of its stages.
HoldsOnly(s) ==
  LET kind == Job[s].kind
      on == Job[s].on
      x == session[s]
  IN /\ \A m \in Markets : lock[SettlementRow(m)] = s =>
          \/ kind = "resolve" /\ x.at = "mark"
          \/ kind = "settle" /\ x.at \in {"market", "scan", "positions"} \union Transferring
     /\ \A m \in Markets : lock[MarketRow(m)] = s =>
          \/ kind = "open" /\ x.at \in {"insert", "accounts"}
          \/ kind = "settle" /\ x.at \in {"scan", "positions"} \union Transferring
     /\ \A p \in Positions : lock[PositionRow(p)] = s =>
          \/ x.at \in Transferring
          \/ kind = "settle" /\ x.at = "positions" /\ p \in x.found
     /\ \A w \in Withdrawals : lock[WithdrawalRow(w)] = s =>
          kind = "withdraw" /\ x.at \in {"frozen", "accounts"}
     /\ lock[Insurance] = s => Pays(s) /\ x.at \in Transferring
     /\ \A u \in Users : lock[Available(u)] = s =>
          /\ x.at \in Transferring
          /\ IF Pays(s) THEN lock[Insurance] = s ELSE Len(x.wants) < 2
     /\ \A u \in Users : s \in {lock[Margin(u)], lock[Pending(u)]} => lock[Available(u)] = s
     /\ x.at = "accounts" => kind # "resolve" /\ Queues(s)

\* The other sessions keep their places and their rows, and get no new ones.
Undisturbed(s) ==
  \A t \in Sessions \ {s} :
    /\ session'[t] = session[t]
    /\ \A r \in Rows : lock'[r] = t <=> lock[r] = t

\* What a step of s owes the locks.
Tidy(s) == Undisturbed(s) /\ HoldsOnly(s)'

\* A transaction that ends has no row left.
LEMMA EndTidies ==
  ASSUME TypeOK, NEW s \in Sessions, End(s)
  PROVE  Tidy(s)
<1>1. /\ session'[s] = Idle
      /\ \A t \in Sessions \ {s} : session'[t] = session[t]
  BY DEF End, TypeOK
<1>2. /\ \A r \in Rows : lock'[r] # s
      /\ \A r \in Rows, t \in Sessions \ {s} : lock'[r] = t <=> lock[r] = t
  BY NobodyAssumption DEF End, TypeOK
<1>3. HoldsOnly(s)'
  BY <1>1, <1>2, RowFacts DEF HoldsOnly, Idle
<1> QED
  BY <1>1, <1>2, <1>3 DEF Tidy, Undisturbed

\* A transaction that goes on takes a row that is free, or none.
LEMMA GoingOn ==
  ASSUME TypeOK, NEW s \in Sessions, NEW x \in SessionRecords,
         session' = [session EXCEPT ![s] = x],
         UNCHANGED lock \/ \E r \in Rows : Free(r, s) /\ Take(r, s)
  PROVE  Undisturbed(s) /\ session'[s] = x
<1>1. /\ session'[s] = x
      /\ \A t \in Sessions \ {s} : session'[t] = session[t]
  BY DEF TypeOK
<1>2. \A r \in Rows, t \in Sessions \ {s} : lock'[r] = t <=> lock[r] = t
  BY NobodyAssumption DEF Free, Take, TypeOK
<1> QED
  BY <1>1, <1>2 DEF Undisturbed

\* What a row says of a session that is not disturbed still holds.
LEMMA UndisturbedTidy ==
  ASSUME NEW s \in Sessions, NEW t \in Sessions \ {s}, Undisturbed(s), HoldsOnly(t)
  PROVE  HoldsOnly(t)'
<1>1. session'[t] = session[t] /\ \A r \in Rows : lock'[r] = t <=> lock[r] = t
  BY DEF Undisturbed
<1>2. Queues(t) => Queues(t)'
  BY <1>1, RowFacts DEF Queues
<1>3. session'[t].at = session[t].at /\ session'[t].found = session[t].found
      /\ session'[t].wants = session[t].wants
  BY <1>1
<1> QED
  BY <1>1, <1>2, <1>3, RowFacts DEF HoldsOnly

\* The rows of different kinds are different rows.
LEMMA RowKinds ==
  /\ \A m \in Markets : MarketRow(m)[1] = "market" /\ SettlementRow(m)[1] = "settlement"
  /\ \A p \in Positions : PositionRow(p)[1] = "position" /\ PositionRow(p)[2] = p
  /\ \A w \in Withdrawals : WithdrawalRow(w)[1] = "withdrawal"
  /\ \A u \in Users : /\ Available(u)[1] = "available" /\ Pending(u)[1] = "pending"
                      /\ Margin(u)[1] = "margin"
  /\ \A u \in Users : Available(u)[2] = u /\ Pending(u)[2] = u /\ Margin(u)[2] = u
  /\ Insurance[1] = "insurance"
  BY DEF MarketRow, SettlementRow, PositionRow, WithdrawalRow, Available, Pending, Margin, Insurance

\* And there are no others.
LEMMA RowIsOneOf ==
  ASSUME NEW r \in Rows
  PROVE  \/ \E m \in Markets : r = MarketRow(m) \/ r = SettlementRow(m)
         \/ \E p \in Positions : r = PositionRow(p)
         \/ \E w \in Withdrawals : r = WithdrawalRow(w)
         \/ r = Insurance
         \/ \E u \in Users : r = Available(u) \/ r = Pending(u) \/ r = Margin(u)
<1>1. CASE r \in {"market", "settlement"} \X Markets
  BY <1>1 DEF MarketRow, SettlementRow
<1>2. CASE r \in {"position"} \X Positions
  BY <1>2 DEF PositionRow
<1>3. CASE r \in {"withdrawal"} \X Withdrawals
  BY <1>3 DEF WithdrawalRow
<1>4. CASE r \in {"available", "pending", "margin"} \X Users
  BY <1>4 DEF Available, Pending, Margin
<1>5. CASE r = Insurance
  BY <1>5
<1> QED
  BY <1>1, <1>2, <1>3, <1>4, <1>5 DEF Rows

\* A transaction at its first statement has locked nothing.
NothingYet == {"idle", "lookup", "read", "update", "key", "intent"}

LEMMA HoldsNothing ==
  ASSUME TypeOK, NEW s \in Sessions, HoldsOnly(s),
         \/ session[s].at \in NothingYet
         \/ session[s].at = "market" /\ Job[s].kind = "open"
  PROVE  \A r \in Rows : lock[r] # s
<1>1. /\ \A m \in Markets : lock[SettlementRow(m)] # s /\ lock[MarketRow(m)] # s
      /\ \A p \in Positions : lock[PositionRow(p)] # s
      /\ \A w \in Withdrawals : lock[WithdrawalRow(w)] # s
      /\ lock[Insurance] # s
      /\ \A u \in Users : lock[Available(u)] # s
  BY DEF HoldsOnly, NothingYet, Transferring
<1>2. \A u \in Users : lock[Margin(u)] # s /\ lock[Pending(u)] # s
  BY <1>1 DEF HoldsOnly
<1> QED
  BY <1>1, <1>2, RowIsOneOf

\* Going on without a row from where nothing is locked.
LEMMA MoveTidies ==
  ASSUME IInv, NEW s \in Sessions, HoldsOnly(s), NEW stage \in Stages \ {"accounts"},
         \/ session[s].at \in NothingYet
         \/ session[s].at = "market" /\ Job[s].kind = "open",
         Goto(s, stage), UNCHANGED lock
  PROVE  Tidy(s)
<1> DEFINE x == [session[s] EXCEPT !.at = stage]
<1>1. TypeOK /\ x \in SessionRecords /\ session' = [session EXCEPT ![s] = x]
  BY DEF IInv, TypeOK, SessionRecords, Goto
<1>2. Undisturbed(s) /\ session'[s] = x
  BY <1>1, GoingOn
<1>3. \A r \in Rows : lock'[r] # s
  BY <1>1, HoldsNothing
<1>4. session'[s].at = stage
  BY <1>1, <1>2 DEF TypeOK, SessionRecords
<1> QED
  BY <1>2, <1>3, <1>4, RowFacts DEF Tidy, HoldsOnly

\* Taking the first row.
LEMMA FirstRowTidies ==
  ASSUME IInv, NEW s \in Sessions, HoldsOnly(s), NEW r \in Rows, NEW stage \in Stages,
         \/ session[s].at \in NothingYet
         \/ session[s].at = "market" /\ Job[s].kind = "open",
         Goto(s, stage), Free(r, s), Take(r, s),
         \/ stage = "insert" /\ Job[s].kind = "open" /\ \E m \in Markets : r = MarketRow(m)
         \/ stage = "mark" /\ Job[s].kind = "resolve" /\ \E m \in Markets : r = SettlementRow(m)
         \/ stage = "market" /\ Job[s].kind = "settle" /\ \E m \in Markets : r = SettlementRow(m)
         \/ stage = "frozen" /\ Job[s].kind = "withdraw" /\ \E w \in Withdrawals : r = WithdrawalRow(w)
  PROVE  Tidy(s)
<1> DEFINE x == [session[s] EXCEPT !.at = stage]
<1>1. TypeOK /\ x \in SessionRecords /\ session' = [session EXCEPT ![s] = x]
  BY DEF IInv, TypeOK, SessionRecords, Goto
<1>2. Undisturbed(s) /\ session'[s] = x
  BY <1>1, GoingOn
<1>3. \A q \in Rows : lock'[q] = s => q = r
  BY <1>1, HoldsNothing DEF Take, TypeOK
<1>4. session'[s].at = stage
  BY <1>1, <1>2 DEF TypeOK, SessionRecords
<1> HIDE DEF x
<1>5. r[1] \in {"market", "settlement", "withdrawal"}
  BY RowKinds
<1>6. /\ \A m \in Markets : lock'[SettlementRow(m)] = s => r[1] = "settlement"
      /\ \A m \in Markets : lock'[MarketRow(m)] = s => r[1] = "market"
      /\ \A p \in Positions : lock'[PositionRow(p)] # s
      /\ \A w \in Withdrawals : lock'[WithdrawalRow(w)] = s => r[1] = "withdrawal"
      /\ lock'[Insurance] # s
      /\ \A u \in Users : lock'[Available(u)] # s /\ lock'[Margin(u)] # s /\ lock'[Pending(u)] # s
  BY <1>3, <1>5, RowFacts, RowKinds
<1>7. /\ r[1] = "market" => stage = "insert" /\ Job[s].kind = "open"
      /\ r[1] = "settlement" => \/ stage = "mark" /\ Job[s].kind = "resolve"
                                \/ stage = "market" /\ Job[s].kind = "settle"
      /\ r[1] = "withdrawal" => stage = "frozen" /\ Job[s].kind = "withdraw"
      /\ stage # "accounts"
  BY RowKinds
<1> QED
  BY <1>2, <1>4, <1>6, <1>7 DEF Tidy, HoldsOnly

\* The queue of a transfer that begins.
LEMMA NewQueue ==
  ASSUME NEW s \in Sessions, NEW u \in Users, session'[s].wants = LockOrder(Job[s].kind, u)
  PROVE  Queues(s)'
  BY DEF Queues

\* Opening or closing: the position's row is taken and the transfer begins.
LEMMA TransferTidies ==
  ASSUME IInv, NEW s \in Sessions, HoldsOnly(s), NEW p \in Positions, NEW u \in Users,
         \/ session[s].at = "insert" /\ Job[s].kind = "open"
         \/ session[s].at = "update" /\ Job[s].kind \in {"close", "liquidate"},
         Free(PositionRow(p), s), Take(PositionRow(p), s), Post(s, u)
  PROVE  Tidy(s)
<1> DEFINE x == [session[s] EXCEPT !.at = "accounts", !.wants = LockOrder(Job[s].kind, u)]
           r == PositionRow(p)
<1>1. TypeOK /\ Job[s].kind \in Kinds /\ r \in Rows /\ r[1] = "position"
  BY JobFacts, RowFacts, RowKinds DEF IInv
<1>2. x \in SessionRecords /\ x.at = "accounts" /\ x.wants = LockOrder(Job[s].kind, u)
  BY <1>1, LockOrderRows DEF TypeOK, SessionRecords, Stages
<1>3. session' = [session EXCEPT ![s] = x]
  BY <1>1 DEF Post, TypeOK
<1> HIDE DEF x, r
<1>4. Free(r, s) /\ Take(r, s)
  BY DEF r
<1>5. Undisturbed(s) /\ session'[s] = x
  BY <1>1, <1>2, <1>3, <1>4, GoingOn
<1>6. \A q \in Rows : lock'[q] = s => q = r \/ lock[q] = s
  BY <1>1, <1>4 DEF Take, TypeOK
<1>7. /\ \A m \in Markets : lock[SettlementRow(m)] # s
      /\ \A m \in Markets : lock[MarketRow(m)] = s => Job[s].kind = "open"
      /\ \A w \in Withdrawals : lock[WithdrawalRow(w)] # s
      /\ lock[Insurance] # s
      /\ \A v \in Users : lock[Available(v)] # s
  BY DEF HoldsOnly, Transferring
<1>8. \A v \in Users : lock[Margin(v)] # s /\ lock[Pending(v)] # s
  BY <1>7 DEF HoldsOnly
<1>9. /\ \A m \in Markets : lock'[SettlementRow(m)] # s
      /\ \A m \in Markets : lock'[MarketRow(m)] = s => Job[s].kind = "open"
      /\ \A w \in Withdrawals : lock'[WithdrawalRow(w)] # s
      /\ lock'[Insurance] # s
      /\ \A v \in Users : lock'[Available(v)] # s /\ lock'[Margin(v)] # s /\ lock'[Pending(v)] # s
  BY <1>1, <1>6, <1>7, <1>8, RowFacts, RowKinds
<1>10. Queues(s)'
  BY <1>2, <1>5, NewQueue
<1> QED
  BY <1>2, <1>5, <1>9, <1>10 DEF Tidy, HoldsOnly, Transferring

\* A withdrawal that was not frozen posts its reserve.
LEMMA ReserveTidies ==
  ASSUME IInv, NEW s \in Sessions, HoldsOnly(s), NEW u \in Users,
         session[s].at = "frozen", Job[s].kind = "withdraw", Post(s, u), UNCHANGED lock
  PROVE  Tidy(s)
<1> DEFINE x == [session[s] EXCEPT !.at = "accounts", !.wants = LockOrder(Job[s].kind, u)]
<1>1. TypeOK /\ Job[s].kind \in Kinds
  BY JobFacts DEF IInv
<1>2. x \in SessionRecords /\ x.at = "accounts" /\ x.wants = LockOrder(Job[s].kind, u)
  BY <1>1, LockOrderRows DEF TypeOK, SessionRecords, Stages
<1>3. session' = [session EXCEPT ![s] = x]
  BY <1>1 DEF Post, TypeOK
<1> HIDE DEF x
<1>4. Undisturbed(s) /\ session'[s] = x
  BY <1>1, <1>2, <1>3, GoingOn
<1>5. /\ \A m \in Markets : lock[SettlementRow(m)] # s /\ lock[MarketRow(m)] # s
      /\ \A p \in Positions : lock[PositionRow(p)] # s
      /\ lock[Insurance] # s
      /\ \A v \in Users : lock[Available(v)] # s
  BY DEF HoldsOnly, Transferring
<1>6. \A v \in Users : lock[Margin(v)] # s /\ lock[Pending(v)] # s
  BY <1>5 DEF HoldsOnly
<1>7. Queues(s)'
  BY <1>2, <1>4, NewQueue
<1> QED
  BY <1>2, <1>4, <1>5, <1>6, <1>7 DEF Tidy, HoldsOnly, Transferring

\* A settlement takes its market's row.
LEMMA OutcomeTidies ==
  ASSUME IInv, NEW s \in Sessions, HoldsOnly(s), LockOutcome(s)
  PROVE  Tidy(s)
<1> DEFINE x == [session[s] EXCEPT !.at = "scan"]
           m == Job[s].on
           r == MarketRow(m)
<1>1. TypeOK /\ Job[s].kind = "settle" /\ m \in Markets
  BY JobFacts DEF IInv, LockOutcome
<1>2. x \in SessionRecords /\ x.at = "scan" /\ session' = [session EXCEPT ![s] = x]
  BY <1>1 DEF TypeOK, SessionRecords, Stages, LockOutcome, Goto
<1>3. r \in Rows /\ r[1] = "market" /\ Free(r, s) /\ Take(r, s)
  BY <1>1, RowFacts, RowKinds DEF LockOutcome
<1> HIDE DEF x, r
<1>4. Undisturbed(s) /\ session'[s] = x
  BY <1>1, <1>2, <1>3, GoingOn
<1>5. \A q \in Rows : lock'[q] = s => q = r \/ lock[q] = s
  BY <1>1, <1>3 DEF Take, TypeOK
<1>6. /\ \A p \in Positions : lock[PositionRow(p)] # s
      /\ \A w \in Withdrawals : lock[WithdrawalRow(w)] # s
      /\ lock[Insurance] # s
      /\ \A v \in Users : lock[Available(v)] # s
  BY <1>1 DEF HoldsOnly, Transferring, LockOutcome
<1>7. \A v \in Users : lock[Margin(v)] # s /\ lock[Pending(v)] # s
  BY <1>6 DEF HoldsOnly
<1>8. /\ \A p \in Positions : lock'[PositionRow(p)] # s
      /\ \A w \in Withdrawals : lock'[WithdrawalRow(w)] # s
      /\ lock'[Insurance] # s
      /\ \A v \in Users : lock'[Available(v)] # s /\ lock'[Margin(v)] # s /\ lock'[Pending(v)] # s
  BY <1>3, <1>5, <1>6, <1>7, RowFacts, RowKinds
<1> QED
  BY <1>1, <1>2, <1>4, <1>8 DEF Tidy, HoldsOnly, Transferring

\* A settlement goes on with the rows it has.
LEMMA SettlementTidies ==
  ASSUME IInv, NEW s \in Sessions, HoldsOnly(s), NEW x \in SessionRecords,
         session' = [session EXCEPT ![s] = x], UNCHANGED lock, Job[s].kind = "settle",
         \/ session[s].at = "scan" /\ x.at = "positions"
         \/ session[s].at = "positions" /\ x.at \in {"positions", "payout"} /\ x.found = session[s].found
         \/ session[s].at = "accounts" /\ x.at = "payout"
         \/ /\ session[s].at = "payout" /\ x.at = "accounts"
            /\ \E u \in Users : x.wants = LockOrder("settle", u)
  PROVE  Tidy(s)
<1>1. Undisturbed(s) /\ session'[s] = x
  BY GoingOn DEF IInv
<1>2. x.at = "accounts" => Queues(s)'
  BY <1>1, NewQueue
<1>3. \A u \in Users : lock[Available(u)] = s => lock[Insurance] = s
  BY DEF HoldsOnly, Pays
<1>4. session[s].at = "scan" => /\ \A p \in Positions : lock[PositionRow(p)] # s
                                /\ lock[Insurance] # s
                                /\ \A u \in Users : lock[Available(u)] # s
  BY DEF HoldsOnly, Transferring
<1>5. session[s].at = "positions" => /\ lock[Insurance] # s
                                     /\ \A u \in Users : lock[Available(u)] # s
  BY DEF HoldsOnly, Transferring
<1>6. Pays(s) /\ \A w \in Withdrawals : lock[WithdrawalRow(w)] # s
  BY DEF HoldsOnly, Pays
<1>7. /\ \A m \in Markets : lock'[SettlementRow(m)] = s => x.at \in {"positions"} \union Transferring
      /\ \A m \in Markets : lock'[MarketRow(m)] = s => x.at \in {"positions"} \union Transferring
  BY DEF Transferring
<1>8. \A p \in Positions : lock'[PositionRow(p)] = s =>
        x.at \in Transferring \/ (x.at = "positions" /\ p \in x.found)
  BY <1>4 DEF HoldsOnly, Transferring
<1>9. /\ lock'[Insurance] = s => x.at \in Transferring
      /\ \A u \in Users : lock'[Available(u)] = s => x.at \in Transferring /\ lock'[Insurance] = s
      /\ \A u \in Users : s \in {lock'[Margin(u)], lock'[Pending(u)]} => lock'[Available(u)] = s
  BY <1>3, <1>4, <1>5 DEF HoldsOnly, Transferring
<1> QED
  BY <1>1, <1>2, <1>6, <1>7, <1>8, <1>9 DEF Tidy, HoldsOnly, Pays

\* Short sequences.
LEMMA HeadAndTail ==
  ASSUME NEW a, NEW b, NEW c
  PROVE  /\ Head(<<a>>) = a /\ Tail(<<a>>) = <<>>
         /\ Head(<<a, b>>) = a /\ Tail(<<a, b>>) = <<b>>
         /\ Head(<<a, b, c>>) = a /\ Tail(<<a, b, c>>) = <<b, c>>
<1>1. Head(<<a>>) = a /\ Head(<<a, b>>) = a /\ Head(<<a, b, c>>) = a
  OBVIOUS
<1>2. Tail(<<a>>) = <<>>
  OBVIOUS
<1>3. Tail(<<a, b>>) = <<b>>
  OBVIOUS
<1>4. Tail(<<a, b, c>>) = <<b, c>>
  OBVIOUS
<1> QED
  BY <1>1, <1>2, <1>3, <1>4

\* What the next account of a transfer can be.
LEMMA NextAccount ==
  ASSUME NEW s \in Sessions, Queues(s), session[s].wants # <<>>, Job[s].kind # "resolve"
  PROVE  \E u \in Users :
           LET r == Head(session[s].wants)
               rest == Tail(session[s].wants)
           IN \/ r = Insurance /\ Pays(s) /\ rest = <<Available(u), Margin(u)>>
              \/ /\ r = Available(u) /\ rest \in {<<Margin(u)>>, <<Pending(u)>>}
                 /\ Pays(s) => lock[Insurance] = s
              \/ r \in {Margin(u), Pending(u)} /\ rest = <<>> /\ lock[Available(u)] = s
<1> DEFINE wants == session[s].wants
<1>1. PICK u \in Users :
        \/ wants = LockOrder(Job[s].kind, u)
        \/ wants = <<Available(u), Margin(u)>> /\ Pays(s) /\ lock[Insurance] = s
        \/ wants \in {<<Margin(u)>>, <<Pending(u)>>} /\ lock[Available(u)] = s
  BY DEF Queues
<1>2. Job[s].kind \in Kinds
  BY JobFacts
<1> HIDE DEF wants
<1>3. CASE wants = LockOrder(Job[s].kind, u)
  <2>1. CASE Job[s].kind = "open"
    <3>1. wants = <<Available(u), Margin(u)>> /\ ~Pays(s)
      BY <1>3, <2>1 DEF LockOrder, Pays
    <3> QED
      BY <3>1, HeadAndTail DEF wants
  <2>2. CASE Job[s].kind = "withdraw"
    <3>1. wants = <<Available(u), Pending(u)>> /\ ~Pays(s)
      BY <1>3, <2>2 DEF LockOrder, Pays
    <3> QED
      BY <3>1, HeadAndTail DEF wants
  <2>3. CASE Pays(s)
    <3>1. wants = <<Insurance, Available(u), Margin(u)>>
      BY <1>3, <2>3 DEF LockOrder, Pays
    <3> QED
      BY <2>3, <3>1, HeadAndTail DEF wants
  <2> QED
    BY <1>2, <2>1, <2>2, <2>3 DEF Kinds, Pays
<1>4. CASE wants = <<Available(u), Margin(u)>> /\ Pays(s) /\ lock[Insurance] = s
  BY <1>4, HeadAndTail DEF wants
<1>5. CASE wants \in {<<Margin(u)>>, <<Pending(u)>>} /\ lock[Available(u)] = s
  BY <1>5, HeadAndTail DEF wants
<1> QED
  BY <1>1, <1>3, <1>4, <1>5

\* Locking it.
LEMMA AccountTidies ==
  ASSUME IInv, NEW s \in Sessions, HoldsOnly(s), LockAccount(s)
  PROVE  Tidy(s)
<1> DEFINE r == Head(session[s].wants)
           rest == Tail(session[s].wants)
           x == [session[s] EXCEPT !.wants = rest]
<1>1. /\ TypeOK /\ session[s].at = "accounts" /\ session[s].wants # <<>>
      /\ Queues(s) /\ Job[s].kind # "resolve"
  BY DEF IInv, LockAccount, HoldsOnly
<1>2. r \in Rows /\ rest \in Seq(Rows) /\ x \in SessionRecords
  <2>1. session[s] \in SessionRecords /\ session[s].wants \in Seq(Rows)
    BY <1>1 DEF TypeOK, SessionRecords
  <2>2. r \in Rows /\ rest \in Seq(Rows)
    BY <1>1, <2>1
  <2> QED
    BY <2>1, <2>2 DEF SessionRecords
<1>3. x.at = "accounts" /\ x.wants = rest
  BY <1>1, <1>2 DEF TypeOK, SessionRecords
<1>4. session' = [session EXCEPT ![s] = x] /\ Free(r, s) /\ Take(r, s)
  BY <1>1 DEF LockAccount, TypeOK, SessionRecords
<1>5. PICK u \in Users :
        \/ r = Insurance /\ Pays(s) /\ rest = <<Available(u), Margin(u)>>
        \/ /\ r = Available(u) /\ rest \in {<<Margin(u)>>, <<Pending(u)>>}
           /\ Pays(s) => lock[Insurance] = s
        \/ r \in {Margin(u), Pending(u)} /\ rest = <<>> /\ lock[Available(u)] = s
  BY <1>1, NextAccount
<1> HIDE DEF r, rest, x
<1>6. Undisturbed(s) /\ session'[s] = x
  BY <1>1, <1>2, <1>4, GoingOn
<1>7. /\ lock'[r] = s
      /\ \A q \in Rows : lock[q] = s => lock'[q] = s
      /\ \A q \in Rows : lock'[q] = s => q = r \/ lock[q] = s
  BY <1>1, <1>2, <1>4 DEF Take, TypeOK
<1>8. r[1] \in {"insurance", "available", "margin", "pending"}
  BY <1>5, RowKinds
<1>9. /\ \A m \in Markets : lock'[SettlementRow(m)] = s => lock[SettlementRow(m)] = s
      /\ \A m \in Markets : lock'[MarketRow(m)] = s => lock[MarketRow(m)] = s
      /\ \A w \in Withdrawals : lock'[WithdrawalRow(w)] = s => lock[WithdrawalRow(w)] = s
  BY <1>7, <1>8, RowFacts, RowKinds
<1>10. lock'[Insurance] = s => Pays(s)
  <2>1. lock[Insurance] = s => Pays(s)
    BY DEF HoldsOnly
  <2>2. r = Insurance => Pays(s)
    BY <1>5, RowKinds
  <2> QED
    BY <1>7, <2>1, <2>2, RowFacts
<1>11. ASSUME NEW v \in Users, lock'[Available(v)] = s
       PROVE  IF Pays(s) THEN lock'[Insurance] = s ELSE Len(rest) < 2
  <2>1. lock[Available(v)] = s => IF Pays(s) THEN lock[Insurance] = s ELSE Len(session[s].wants) < 2
    BY DEF HoldsOnly
  <2>2. r = Available(v) => (Pays(s) => lock[Insurance] = s)
    BY <1>5, RowKinds
  <2>3. ~Pays(s) => Len(rest) < 2
    BY <1>5
  <2> QED
    BY <1>7, <1>11, <2>1, <2>2, <2>3, RowFacts
<1>12. ASSUME NEW v \in Users, s \in {lock'[Margin(v)], lock'[Pending(v)]}
       PROVE  lock'[Available(v)] = s
  <2>1. s \in {lock[Margin(v)], lock[Pending(v)]} => lock[Available(v)] = s
    BY DEF HoldsOnly
  <2>2. r \in {Margin(v), Pending(v)} => lock[Available(v)] = s
    BY <1>5, RowKinds
  <2> QED
    BY <1>7, <1>12, <2>1, <2>2, RowFacts
<1>13. Queues(s)'
  <2>1. CASE r = Insurance
    BY <1>3, <1>5, <1>6, <1>7, <2>1, RowKinds DEF Queues, Pays
  <2>2. CASE r = Available(u)
    BY <1>3, <1>5, <1>6, <1>7, <2>2, RowKinds DEF Queues
  <2>3. CASE rest = <<>>
    BY <1>3, <1>5, <1>6, <2>3 DEF Queues
  <2> QED
    BY <1>5, <2>1, <2>2, <2>3
<1> QED
  BY <1>1, <1>3, <1>6, <1>9, <1>10, <1>11, <1>12, <1>13 DEF Tidy, HoldsOnly, Transferring, Pays

\* A settlement locks the next position, unless it has closed meanwhile.
LEMMA PositionTidies ==
  ASSUME IInv, NEW s \in Sessions, HoldsOnly(s), NEW p \in Positions, LockPosition(s, p)
  PROVE  Tidy(s)
<1>1. TypeOK /\ session[s].at = "positions" /\ Job[s].kind = "settle"
  BY DEF IInv, Sound, Fits, LockPosition
<1>2. CASE position[p] # "open"
  <2> DEFINE x == [session[s] EXCEPT !.todo = @ \ {p}]
  <2>1. /\ x \in SessionRecords /\ x.at = "positions" /\ x.found = session[s].found
        /\ session' = [session EXCEPT ![s] = x] /\ UNCHANGED lock
    BY <1>1, <1>2 DEF LockPosition, TypeOK, SessionRecords
  <2> QED
    BY <1>1, <2>1, SettlementTidies
<1>3. CASE position[p] = "open"
  <2> DEFINE x == [session[s] EXCEPT !.todo = @ \ {p}, !.found = @ \union {p}]
             r == PositionRow(p)
  <2>1. /\ x \in SessionRecords /\ x.at = "positions" /\ x.found = session[s].found \union {p}
        /\ session' = [session EXCEPT ![s] = x]
    BY <1>1, <1>3 DEF LockPosition, TypeOK, SessionRecords
  <2>2. r \in Rows /\ r[1] = "position" /\ r[2] = p /\ Free(r, s) /\ Take(r, s)
    BY <1>3, RowFacts, RowKinds DEF LockPosition
  <2> HIDE DEF x, r
  <2>3. Undisturbed(s) /\ session'[s] = x
    BY <1>1, <2>1, <2>2, GoingOn
  <2>4. \A q \in Rows : lock'[q] = s => q = r \/ lock[q] = s
    BY <1>1, <2>2 DEF Take, TypeOK
  <2>5. /\ \A q \in Positions : lock[PositionRow(q)] = s => q \in session[s].found
        /\ \A w \in Withdrawals : lock[WithdrawalRow(w)] # s
        /\ lock[Insurance] # s
        /\ \A v \in Users : lock[Available(v)] # s
    BY <1>1 DEF HoldsOnly, Transferring
  <2>6. \A v \in Users : lock[Margin(v)] # s /\ lock[Pending(v)] # s
    BY <2>5 DEF HoldsOnly
  <2>7. /\ \A w \in Withdrawals : lock'[WithdrawalRow(w)] # s
        /\ lock'[Insurance] # s
        /\ \A v \in Users : lock'[Available(v)] # s /\ lock'[Margin(v)] # s /\ lock'[Pending(v)] # s
    BY <2>2, <2>4, <2>5, <2>6, RowFacts, RowKinds
  <2>8. \A q \in Positions : lock'[PositionRow(q)] = s => q \in x.found
    BY <2>1, <2>2, <2>4, <2>5, RowFacts, RowKinds
  <2> QED
    BY <1>1, <2>1, <2>3, <2>7, <2>8 DEF Tidy, HoldsOnly
<1> QED
  BY <1>2, <1>3

\* Every transaction has locked only what its stage may have locked.
LocksFitStages == \A s \in Sessions : HoldsOnly(s)

\* A transaction that begins.
LEMMA BeginTidies ==
  ASSUME IInv, NEW s \in Sessions, HoldsOnly(s), Begin(s)
  PROVE  Tidy(s)
<1> DEFINE stage == FirstStage(Job[s].kind)
<1>1. stage \in Stages \ {"accounts"}
  BY JobFacts DEF FirstStage, Kinds, Stages
<1>2. Goto(s, stage) /\ UNCHANGED lock /\ session[s].at \in NothingYet
  BY DEF Begin, NothingYet
<1> HIDE DEF stage
<1> QED
  BY <1>1, <1>2, MoveTidies

\* Opening a position.
LEMMA OpenTidies ==
  ASSUME IInv, NEW s \in Sessions, HoldsOnly(s), OpenStep(s)
  PROVE  Tidy(s)
<1> DEFINE p == Job[s].on
<1>1. TypeOK /\ Sound(s)
  BY DEF IInv
<1>2. CASE End(s)
  BY <1>1, <1>2, EndTidies
<1>3. CASE Lookup(s) /\ ~End(s)
  <2>1. /\ Goto(s, "market") /\ UNCHANGED lock /\ session[s].at \in NothingYet
        /\ "market" \in Stages \ {"accounts"}
    BY <1>3 DEF Lookup, Rollback, NothingYet, Stages
  <2> QED
    BY <2>1, MoveTidies
<1>4. CASE LockMarket(s) /\ ~End(s)
  <2>1. /\ Job[s].kind = "open" /\ session[s].at = "market"
        /\ Free(MarketRow(MarketOf[p]), s) /\ Take(MarketRow(MarketOf[p]), s) /\ Goto(s, "insert")
    BY <1>4 DEF LockMarket, Rollback
  <2>2. MarketOf[p] \in Markets /\ MarketRow(MarketOf[p]) \in Rows /\ "insert" \in Stages
    BY <2>1, JobFacts, RowFacts, ObjectsAssumption DEF Stages
  <2> QED
    BY <2>1, <2>2, FirstRowTidies
<1>5. CASE InsertPosition(s) /\ ~End(s)
  <2>1. /\ session[s].at = "insert" /\ Free(PositionRow(p), s) /\ Take(PositionRow(p), s)
        /\ Post(s, Owner[p])
    BY <1>5 DEF InsertPosition, Rollback
  <2>2. Job[s].kind = "open"
    BY <1>1, <2>1 DEF Sound, Fits
  <2>3. p \in Positions /\ Owner[p] \in Users
    BY <2>2, JobFacts, ObjectsAssumption
  <2> QED
    BY <2>1, <2>2, <2>3, TransferTidies
<1> QED
  BY <1>2, <1>3, <1>4, <1>5 DEF OpenStep, CommitOpen

\* Closing or liquidating one.
LEMMA CloseTidies ==
  ASSUME IInv, NEW s \in Sessions, HoldsOnly(s), CloseStep(s)
  PROVE  Tidy(s)
<1> DEFINE p == Job[s].on
<1>1. TypeOK /\ Sound(s)
  BY DEF IInv
<1>2. CASE End(s)
  BY <1>1, <1>2, EndTidies
<1>3. CASE ReadPosition(s) /\ ~End(s)
  <2>1. /\ Goto(s, "update") /\ UNCHANGED lock /\ session[s].at \in NothingYet
        /\ "update" \in Stages \ {"accounts"}
    BY <1>3 DEF ReadPosition, Rollback, NothingYet, Stages
  <2> QED
    BY <2>1, MoveTidies
<1>4. CASE UpdatePosition(s) /\ ~End(s)
  <2>1. /\ session[s].at = "update" /\ Free(PositionRow(p), s) /\ Take(PositionRow(p), s)
        /\ Post(s, Owner[p])
    BY <1>4 DEF UpdatePosition, Rollback
  <2>2. Job[s].kind \in {"close", "liquidate"}
    BY <1>1, <2>1 DEF Sound, Fits
  <2>3. p \in Positions /\ Owner[p] \in Users
    BY <2>2, JobFacts, ObjectsAssumption
  <2> QED
    BY <2>1, <2>2, <2>3, TransferTidies
<1> QED
  BY <1>2, <1>3, <1>4 DEF CloseStep, CommitClose

\* Settlement and withdrawal requests.
LEMMA RequestTidies ==
  ASSUME IInv, NEW s \in Sessions, HoldsOnly(s), ResolveStep(s) \/ WithdrawStep(s)
  PROVE  Tidy(s)
<1> DEFINE on == Job[s].on
<1>1. TypeOK /\ Sound(s)
  BY DEF IInv
<1>2. CASE End(s)
  BY <1>1, <1>2, EndTidies
<1>3. CASE InsertSettlement(s) /\ ~End(s)
  <2>1. /\ Job[s].kind = "resolve" /\ session[s].at \in NothingYet
        /\ Free(SettlementRow(on), s) /\ Take(SettlementRow(on), s) /\ Goto(s, "mark")
    BY <1>3 DEF InsertSettlement, Rollback, NothingYet
  <2>2. on \in Markets /\ SettlementRow(on) \in Rows /\ "mark" \in Stages
    BY <2>1, JobFacts, RowFacts DEF Stages
  <2> QED
    BY <2>1, <2>2, FirstRowTidies
<1>4. CASE InsertKey(s) /\ ~End(s)
  <2>1. /\ Job[s].kind = "withdraw" /\ session[s].at \in NothingYet
        /\ Free(WithdrawalRow(on), s) /\ Take(WithdrawalRow(on), s) /\ Goto(s, "frozen")
    BY <1>4 DEF InsertKey, Rollback, NothingYet
  <2>2. on \in Withdrawals /\ WithdrawalRow(on) \in Rows /\ "frozen" \in Stages
    BY <2>1, JobFacts, RowFacts DEF Stages
  <2> QED
    BY <2>1, <2>2, FirstRowTidies
<1>5. CASE CheckFrozen(s) /\ ~End(s)
  <2>1. session[s].at = "frozen" /\ Post(s, Payer[on]) /\ UNCHANGED lock
    BY <1>5 DEF CheckFrozen, Rollback
  <2>2. Job[s].kind = "withdraw"
    BY <1>1, <2>1 DEF Sound, Fits
  <2>3. Payer[on] \in Users
    BY <2>2, JobFacts, ObjectsAssumption
  <2> QED
    BY <2>1, <2>2, <2>3, ReserveTidies
<1> QED
  BY <1>2, <1>3, <1>4, <1>5 DEF ResolveStep, WithdrawStep, MarkSettling, CommitReserve, Rollback

\* Confirming a settlement.
LEMMA SettleTidies ==
  ASSUME IInv, NEW s \in Sessions, HoldsOnly(s), SettleStep(s)
  PROVE  Tidy(s)
<1> DEFINE m == Job[s].on
<1>1. TypeOK /\ Sound(s) /\ session[s] \in SessionRecords
  BY DEF IInv, TypeOK
<1>2. CASE End(s)
  BY <1>1, <1>2, EndTidies
<1>3. CASE LockIntent(s) /\ ~End(s)
  <2>1. /\ session[s].at = "intent" /\ session[s].at \in NothingYet
        /\ Free(SettlementRow(m), s) /\ Take(SettlementRow(m), s) /\ Goto(s, "market")
    BY <1>3 DEF LockIntent, Rollback, NothingYet
  <2>2. Job[s].kind = "settle"
    BY <1>1, <2>1 DEF Sound, Fits
  <2>3. m \in Markets /\ SettlementRow(m) \in Rows /\ "market" \in Stages
    BY <2>2, JobFacts, RowFacts DEF Stages
  <2> QED
    BY <2>1, <2>2, <2>3, FirstRowTidies
<1>4. CASE LockOutcome(s)
  BY <1>4, OutcomeTidies
<1>5. CASE ScanPositions(s)
  <2> DEFINE x == [session[s] EXCEPT !.at = "positions", !.todo = OpenOn(m), !.found = {}]
  <2>1. /\ x \in SessionRecords /\ x.at = "positions" /\ session' = [session EXCEPT ![s] = x]
        /\ session[s].at = "scan" /\ UNCHANGED lock /\ Job[s].kind = "settle"
    BY <1>1, <1>5 DEF ScanPositions, TypeOK, SessionRecords, Stages, OpenOn, Sound, Fits
  <2> HIDE DEF x
  <2> QED
    BY <2>1, SettlementTidies
<1>6. CASE LockedAll(s)
  <2> DEFINE x == [session[s] EXCEPT !.at = "payout", !.todo = session[s].found]
  <2>1. /\ x \in SessionRecords /\ x.at = "payout" /\ session' = [session EXCEPT ![s] = x]
        /\ session[s].at = "positions" /\ x.found = session[s].found
        /\ UNCHANGED lock /\ Job[s].kind = "settle"
    BY <1>1, <1>6 DEF LockedAll, TypeOK, SessionRecords, Stages, Sound, Fits
  <2> HIDE DEF x
  <2> QED
    BY <2>1, SettlementTidies
<1>7. ASSUME NEW p \in Positions, PostPayout(s, p)
      PROVE  Tidy(s)
  <2> DEFINE x == [session[s] EXCEPT !.at = "accounts", !.todo = @ \ {p},
                                     !.wants = LockOrder("settle", Owner[p])]
  <2>1. Job[s].kind = "settle" /\ Owner[p] \in Users /\ session[s].at = "payout" /\ UNCHANGED lock
    BY <1>1, <1>7, ObjectsAssumption DEF PostPayout, Sound, Fits
  <2>2. LockOrder("settle", Owner[p]) \in Seq(Rows)
    BY <2>1, LockOrderRows DEF Kinds
  <2>3. /\ x \in SessionRecords /\ x.at = "accounts" /\ x.wants = LockOrder("settle", Owner[p])
        /\ session' = [session EXCEPT ![s] = x]
    BY <1>1, <1>7, <2>2 DEF PostPayout, SessionRecords, Stages, TypeOK
  <2> HIDE DEF x
  <2> QED
    BY <2>1, <2>3, SettlementTidies
<1>8. CASE NextPayout(s)
  <2> DEFINE x == [session[s] EXCEPT !.at = "payout"]
  <2>1. /\ x \in SessionRecords /\ x.at = "payout" /\ session' = [session EXCEPT ![s] = x]
        /\ session[s].at = "accounts" /\ UNCHANGED lock /\ Job[s].kind = "settle"
    BY <1>1, <1>8 DEF NextPayout, Posted, Goto, TypeOK, SessionRecords, Stages
  <2> HIDE DEF x
  <2> QED
    BY <2>1, SettlementTidies
<1> QED
  BY <1>2, <1>3, <1>4, <1>5, <1>6, <1>7, <1>8, PositionTidies DEF SettleStep, CommitSettle

\* Every step keeps locks and stages together.
LEMMA StepTidies == IInv /\ LocksFitStages /\ [Next]_vars => LocksFitStages'
<1> SUFFICES ASSUME IInv, LocksFitStages, [Next]_vars
             PROVE  LocksFitStages'
  OBVIOUS
<1>1. ASSUME NEW s \in Sessions, Tidy(s)
      PROVE  LocksFitStages'
  BY <1>1, UndisturbedTidy DEF Tidy, LocksFitStages
<1>2. ASSUME NEW s \in Sessions,
             \/ Begin(s) \/ Fail(s) \/ LockAccount(s) \/ OpenStep(s) \/ CloseStep(s)
             \/ ResolveStep(s) \/ SettleStep(s) \/ WithdrawStep(s)
      PROVE  Tidy(s)
  <2>1. TypeOK /\ HoldsOnly(s)
    BY DEF IInv, LocksFitStages
  <2> QED
    BY <1>2, <2>1, BeginTidies, EndTidies, AccountTidies, OpenTidies, CloseTidies, RequestTidies,
       SettleTidies DEF Fail, Rollback
<1>3. CASE UNCHANGED vars
  <2>1. UNCHANGED <<lock, session>>
    BY <1>3 DEF vars
  <2>2. ASSUME NEW s \in Sessions
        PROVE  HoldsOnly(s)'
    <3>1. HoldsOnly(s) /\ (Queues(s) => Queues(s)')
      BY <2>1 DEF LocksFitStages, Queues
    <3> QED
      BY <2>1, <3>1 DEF HoldsOnly
  <2> QED
    BY <2>2 DEF LocksFitStages
<1> QED
  BY <1>1, <1>2, <1>3 DEF Next

\* Nobody has locked anything to begin with.
LEMMA InitTidy == Init => LocksFitStages
  BY NobodyAssumption, RowFacts DEF Init, LocksFitStages, HoldsOnly, Idle

\* A transaction only holds rows that it needs from its stage on.
THEOREM RowsFitStages == Spec => []LocksFitStages
  BY InitTidy, StepTidies, Invariance, PTL DEF Spec

-----------------------------------------------------------------------------
(* Who waits on whom *)

\* A row that s needs and a member of S has.
Blocked(s, S) == \E r \in Needs(s) : lock[r] \in S \ {s}

\* What a session can be waiting for, at each stage.
LEMMA NeedsOf ==
  ASSUME IInv, NEW s \in Sessions, NEW r \in Needs(s)
  PROVE  \/ session[s].at \in {"lookup", "insert", "update"} /\ \E p \in Positions : r = PositionRow(p)
         \/ /\ session[s].at = "positions" /\ Job[s].kind = "settle"
            /\ \E p \in session[s].todo : r = PositionRow(p)
         \/ session[s].at \in {"market", "mark"} /\ \E m \in Markets : r = MarketRow(m)
         \/ /\ session[s].at \in {"key", "intent"} /\ Job[s].kind \in {"resolve", "settle"}
            /\ \E m \in Markets : r = SettlementRow(m)
         \/ /\ session[s].at = "key" /\ Job[s].kind = "withdraw"
            /\ \E w \in Withdrawals : r = WithdrawalRow(w)
         \/ /\ session[s].at = "accounts" /\ session[s].wants # <<>>
            /\ r = Head(session[s].wants)
<1> DEFINE j == Job[s]
           at == session[s].at
<1>1. TypeOK /\ Fits(s) /\ session[s].todo \subseteq Positions
  BY DEF IInv, Sound, TypeOK, SessionRecords
<1>2. /\ j.kind \in {"open", "close", "liquidate"} => j.on \in Positions
      /\ j.kind \in {"resolve", "settle"} => j.on \in Markets
      /\ j.kind = "withdraw" => j.on \in Withdrawals
  BY JobFacts
<1>3. CASE at = "lookup"
  <2>1. j.kind = "open" /\ r = PositionRow(j.on)
    BY <1>1, <1>3 DEF Needs, Fits
  <2> QED
    BY <1>2, <1>3, <2>1
<1>4. CASE at = "market"
  <2>1. \/ j.kind = "open" /\ r = MarketRow(MarketOf[j.on])
        \/ j.kind = "settle" /\ r = MarketRow(j.on)
    BY <1>4 DEF Needs
  <2> QED
    BY <1>2, <1>4, <2>1, ObjectsAssumption
<1>5. CASE at = "insert"
  <2>1. r \in {PositionRow(q) : q \in Rivals(j.on) \union {j.on}} /\ j.kind = "open"
    BY <1>1, <1>5 DEF Needs, Fits
  <2>2. Rivals(j.on) \subseteq Positions
    BY DEF Rivals
  <2> QED
    BY <1>2, <1>5, <2>1, <2>2
<1>6. CASE at = "update"
  <2>1. r = PositionRow(j.on) /\ j.kind \in {"close", "liquidate"}
    BY <1>1, <1>6 DEF Needs, Fits
  <2> QED
    BY <1>2, <1>6, <2>1
<1>7. CASE at = "key"
  <2>1. \/ j.kind = "resolve" /\ r = SettlementRow(j.on)
        \/ j.kind = "withdraw" /\ r = WithdrawalRow(j.on)
    BY <1>7 DEF Needs
  <2> QED
    BY <1>2, <1>7, <2>1
<1>8. CASE at = "mark"
  <2>1. r = MarketRow(j.on) /\ j.kind = "resolve"
    BY <1>1, <1>8 DEF Needs, Fits
  <2> QED
    BY <1>2, <1>8, <2>1
<1>9. CASE at = "intent"
  <2>1. r = SettlementRow(j.on) /\ j.kind = "settle"
    BY <1>1, <1>9 DEF Needs, Fits
  <2> QED
    BY <1>2, <1>9, <2>1
<1>10. CASE at = "positions"
  <2>1. r \in {PositionRow(p) : p \in {q \in Positions : First(s, q)}} /\ j.kind = "settle"
    BY <1>1, <1>10 DEF Needs, Fits
  <2> QED
    BY <1>10, <2>1 DEF First
<1>11. CASE at = "accounts"
  <2>1. session[s].wants # <<>> /\ r = Head(session[s].wants)
    BY <1>11 DEF Needs
  <2> QED
    BY <1>11, <2>1
<1>12. at \in {"lookup", "market", "insert", "update", "key", "mark", "intent", "positions", "accounts"}
  BY DEF Needs
<1> QED
  BY <1>3, <1>4, <1>5, <1>6, <1>7, <1>8, <1>9, <1>10, <1>11, <1>12

\* Nobody waits for a margin or pending account: whoever has locked it has
\* locked the user's available account before.
LEMMA SecondAccountIsFree ==
  ASSUME IInv, LocksFitStages, NEW S \in SUBSET Sessions, NEW s \in S, NEW u \in Users,
         lock[Available(u)] = s, NEW r \in {Margin(u), Pending(u)}
  PROVE  lock[r] \notin S \ {s}
  BY DEF LocksFitStages, HoldsOnly

\* A transfer waits for the insurance account or, with that one locked if it
\* pays, for a user's available account.
LEMMA AccountWaits ==
  ASSUME IInv, LocksFitStages, NEW S \in SUBSET Sessions, NEW s \in S, session[s].at = "accounts",
         Blocked(s, S)
  PROVE  \E u \in Users :
           \/ lock[Insurance] \in S \ {s} /\ Pays(s)
           \/ /\ lock[Available(u)] \in S \ {s} /\ Len(session[s].wants) = 2
              /\ Pays(s) => lock[Insurance] = s
<1>1. PICK r \in Needs(s) : lock[r] \in S \ {s}
  BY DEF Blocked
<1>2. session[s].wants # <<>> /\ r = Head(session[s].wants)
  BY <1>1, NeedsOf
<1>3. Queues(s) /\ Job[s].kind # "resolve"
  BY DEF LocksFitStages, HoldsOnly
<1>4. PICK u \in Users :
        \/ r = Insurance /\ Pays(s)
        \/ /\ r = Available(u) /\ Tail(session[s].wants) \in {<<Margin(u)>>, <<Pending(u)>>}
           /\ Pays(s) => lock[Insurance] = s
        \/ r \in {Margin(u), Pending(u)} /\ lock[Available(u)] = s
  BY <1>2, <1>3, NextAccount
<1>5. r \notin {Margin(u), Pending(u)} \/ lock[Available(u)] # s
  BY <1>1, SecondAccountIsFree
<1>6. Len(Tail(session[s].wants)) = 1 => Len(session[s].wants) = 2
  BY <1>2 DEF IInv, TypeOK, SessionRecords
<1> QED
  BY <1>1, <1>2, <1>4, <1>5, <1>6

\* So no circle goes through a transfer.
LEMMA NoTransferWaits ==
  ASSUME IInv, LocksFitStages, NEW S \in SUBSET Sessions,
         \A s \in S : session[s].at = "accounts" => Blocked(s, S),
         \A s \in S : session[s].at # "payout"
  PROVE  \A s \in S : session[s].at # "accounts"
<1>1. \A s \in S : HoldsOnly(s)
  BY DEF LocksFitStages
<1>2. ASSUME NEW s \in S, session[s].at = "accounts", ~Pays(s)
      PROVE  /\ Len(session[s].wants) = 2
             /\ \E u \in Users : lock[Available(u)] \in S \ {s}
  BY <1>2, AccountWaits
<1>3. ASSUME NEW s \in S, NEW u \in Users, lock[Available(u)] = s
      PROVE  lock[Insurance] = s /\ session[s].at = "accounts" /\ Pays(s)
  <2>1. /\ session[s].at = "accounts"
        /\ IF Pays(s) THEN lock[Insurance] = s ELSE Len(session[s].wants) < 2
    BY <1>1, <1>3 DEF HoldsOnly, Transferring
  <2>2. Pays(s)
    <3>1. CASE ~Pays(s)
      <4>1. Len(session[s].wants) = 2 /\ Len(session[s].wants) < 2
        BY <1>2, <2>1, <3>1
      <4> QED
        BY <4>1
    <3> QED
      BY <3>1
  <2> QED
    BY <2>1, <2>2
<1>4. ASSUME NEW s \in S, lock[Insurance] = s
      PROVE  FALSE
  <2>1. session[s].at = "accounts" /\ Pays(s)
    BY <1>1, <1>4 DEF HoldsOnly, Transferring
  <2>2. PICK u \in Users : lock[Available(u)] \in S \ {s}
    BY <1>4, <2>1, AccountWaits
  <2>3. lock[Insurance] = lock[Available(u)]
    BY <1>3, <2>2
  <2> QED
    BY <1>4, <2>2, <2>3
<1>5. ASSUME NEW s \in S, session[s].at = "accounts"
      PROVE  FALSE
  <2>1. PICK u \in Users : lock[Insurance] \in S \ {s} \/ lock[Available(u)] \in S \ {s}
    BY <1>5, AccountWaits
  <2>2. lock[Insurance] \in S
    BY <1>3, <2>1
  <2> QED
    BY <1>4, <2>2
<1> QED
  BY <1>5

\* Sessions that wait for each other are withdrawal requests at the pool, or
\* behind one.
LEMMA CircleIsWithdrawals ==
  ASSUME IInv, LocksFitStages, NEW S \in SUBSET Active,
         \A s \in S : Blocked(s, S) \/ session[s].at = "frozen"
  PROVE  /\ \A s \in S : Job[s].kind = "withdraw" /\ session[s].at \in {"key", "frozen"}
         /\ \A s \in S : session[s].at = "key" => \E t \in S : session[t].at = "frozen"
<1>1. S \subseteq Sessions
  BY DEF Active
<1>2. \A s \in S : HoldsOnly(s)
  BY <1>1 DEF LocksFitStages
<1>3. ASSUME NEW s \in S
      PROVE  session[s].at \notin {"payout", "scan", "read"}
  <2>1. session[s].at \in {"payout", "scan", "read"} => Needs(s) = {}
    BY DEF Needs
  <2> QED
    BY <2>1 DEF Blocked
<1>4. ASSUME NEW s \in S
      PROVE  session[s].at # "accounts"
  BY <1>1, <1>3, <1>4, NoTransferWaits
<1>5. ASSUME NEW t \in S, NEW p \in Positions, lock[PositionRow(p)] = t
      PROVE  /\ session[t].at = "positions" /\ Job[t].kind = "settle"
             /\ MarketOf[p] = Job[t].on /\ lock[MarketRow(Job[t].on)] = t
  <2>1. session[t].at = "positions" /\ Job[t].kind = "settle" /\ p \in session[t].found
    BY <1>2, <1>3, <1>4, <1>5 DEF HoldsOnly, Transferring
  <2>2. /\ session[t].found \subseteq OpenOn(Job[t].on)
        /\ lock[MarketRow(Job[t].on)] = t
    BY <1>1, <2>1 DEF IInv, Sound, Believes, SettlerBelieves, Holds
  <2> QED
    BY <2>1, <2>2 DEF OpenOn
<1>6. ASSUME NEW s \in S
      PROVE  session[s].at # "positions"
  <2>1. SUFFICES ASSUME session[s].at = "positions"
                 PROVE  FALSE
    OBVIOUS
  <2>2. PICK r \in Needs(s) : lock[r] \in S \ {s}
    BY <2>1 DEF Blocked
  <2>3. PICK p \in session[s].todo : r = PositionRow(p)
    BY <1>1, <2>1, <2>2, NeedsOf
  <2>4. /\ p \in Positions /\ MarketOf[p] = Job[s].on /\ Job[s].kind = "settle"
        /\ lock[MarketRow(Job[s].on)] = s
    BY <1>1, <2>1 DEF IInv, TypeOK, SessionRecords, Sound, Fits, Holds
  <2>5. lock[MarketRow(MarketOf[p])] = lock[r]
    BY <1>5, <2>2, <2>3, <2>4
  <2> QED
    BY <2>2, <2>4, <2>5
<1>7. ASSUME NEW s \in S
      PROVE  session[s].at \notin {"lookup", "insert", "update"}
  <2>1. SUFFICES ASSUME session[s].at \in {"lookup", "insert", "update"}
                 PROVE  FALSE
    OBVIOUS
  <2>2. PICK r \in Needs(s) : lock[r] \in S \ {s}
    BY <2>1 DEF Blocked
  <2>3. PICK p \in Positions : r = PositionRow(p)
    BY <1>1, <2>1, <2>2, NeedsOf
  <2> QED
    BY <1>5, <1>6, <2>2, <2>3
<1>8. ASSUME NEW s \in S
      PROVE  session[s].at \notin {"market", "mark"}
  <2>1. SUFFICES ASSUME session[s].at \in {"market", "mark"}
                 PROVE  FALSE
    OBVIOUS
  <2>2. PICK r \in Needs(s) : lock[r] \in S \ {s}
    BY <2>1 DEF Blocked
  <2>3. PICK m \in Markets : r = MarketRow(m)
    BY <1>1, <2>1, <2>2, NeedsOf
  <2>4. session[lock[r]].at \in {"insert", "scan", "positions", "payout", "accounts"}
    BY <1>2, <2>2, <2>3 DEF HoldsOnly, Transferring
  <2> QED
    BY <1>3, <1>4, <1>6, <1>7, <2>2, <2>4
<1>9. ASSUME NEW s \in S, session[s].at \in {"key", "intent"}
      PROVE  /\ session[s].at = "key" /\ Job[s].kind = "withdraw"
             /\ \E t \in S : session[t].at = "frozen"
  <2>1. PICK r \in Needs(s) : lock[r] \in S \ {s}
    BY <1>9 DEF Blocked
  <2>2. CASE \E m \in Markets : r = SettlementRow(m)
    <3>1. session[lock[r]].at \in {"mark", "market", "scan", "positions", "payout", "accounts"}
      BY <1>2, <2>1, <2>2 DEF HoldsOnly, Transferring
    <3> QED
      BY <1>3, <1>4, <1>6, <1>8, <2>1, <3>1
  <2>3. CASE session[s].at = "key" /\ Job[s].kind = "withdraw" /\ \E w \in Withdrawals : r = WithdrawalRow(w)
    <3>1. session[lock[r]].at \in {"frozen", "accounts"}
      BY <1>2, <2>1, <2>3 DEF HoldsOnly
    <3> QED
      BY <1>4, <2>1, <2>3, <3>1
  <2> QED
    BY <1>1, <1>9, <2>1, <2>2, <2>3, NeedsOf
<1>10. ASSUME NEW s \in S
       PROVE  session[s].at \in {"key", "intent", "frozen"}
  BY <1>1, <1>3, <1>4, <1>6, <1>7, <1>8 DEF IInv, TypeOK, SessionRecords, Stages, Active
<1>11. ASSUME NEW s \in S, session[s].at = "frozen"
       PROVE  Job[s].kind = "withdraw"
  BY <1>1, <1>11 DEF IInv, Sound, Fits
<1> QED
  BY <1>9, <1>10, <1>11

\* Row locks alone never make a circle; every way to wait for ever needs the
\* pool, with every connection held by a withdrawal request (ledger.go: `can
\* never deadlock').
THEOREM PoolOnly == Spec => []OnlyThePoolWedges
<1>1. IInv /\ LocksFitStages => OnlyThePoolWedges
  <2> SUFFICES ASSUME IInv, LocksFitStages, NEW S \in SUBSET Active, Deadlocked(S)
               PROVE  /\ ~FreeConn
                      /\ \A s \in Active : Job[s].kind = "withdraw" /\ session[s].at \in {"key", "frozen"}
    BY DEF OnlyThePoolWedges
  <2>1. \A s \in S : Blocked(s, S) \/ session[s].at = "frozen"
    BY DEF Deadlocked, WaitsWithin, Blocked
  <2>2. PICK s \in S : session[s].at = "frozen"
    BY <2>1, CircleIsWithdrawals DEF Deadlocked
  <2>3. Needs(s) = {}
    BY <2>2 DEF Needs
  <2>4. ~FreeConn /\ Active \subseteq S
    BY <2>3 DEF Deadlocked, WaitsWithin
  <2> QED
    BY <2>1, <2>4, CircleIsWithdrawals
<1> QED
  BY <1>1, Invariance, RowsFitStages, PTL
=============================================================================
