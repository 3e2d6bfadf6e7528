------------------------- MODULE TradingProperties --------------------------
(***************************************************************************)
(* What the trading side must guarantee, whoever races whom.               *)
(***************************************************************************)
EXTENDS Trading

\* Collateral is paid back exactly once: the ledger holds one posting and, once
\* the position has left `open', one release, by close, liquidation or
\* settlement and never by two of them (verify.go I4: the margin accounts hold
\* the collateral of the open positions; app.go: `makes a double-liquidation
\* impossible').
CollateralReleasedOnce ==
  \A p \in Positions :
    /\ position[p] = "none" => posted[p] = {}
    /\ position[p] = "open" => posted[p] = {"open"}
    /\ position[p] = "liquidated" => posted[p] = {"open", "close"}
    /\ position[p] = "closed" => posted[p] \in {{"open", "close"}, {"open", "settle"}}

\* A market flips to `settled' with nobody left in it, however late a position
\* was opened on it (market.go settleMarketTx: `atomically -- or not at all').
SettledMarketIsEmpty ==
  \A p \in Positions : market[MarketOf[p]] = "settled" => position[p] # "open"

\* A withdrawal request and its retries reserve once, also when they run at the
\* same time (intent.go RequestWithdraw, ledger.go: `a concurrent duplicate
\* blocks here until the winner commits').
KeyReservesOnce == \A w \in Withdrawals : reserves[w] <= 1

-----------------------------------------------------------------------------
(* What a transaction believes *)

OpenerBelieves(s) ==
  LET p == Job[s].on
  IN /\ session[s].at \in {"insert", "accounts"} => market[MarketOf[p]] = "open"
     /\ session[s].at = "accounts" => position[p] = "none" /\ Rivals(p) = {}

CloserBelieves(s) == session[s].at = "accounts" => position[Job[s].on] = "open"

JudgeBelieves(s) == session[s].at = "mark" => settlement[Job[s].on] = "none"

SettlerBelieves(s) ==
  LET m == Job[s].on
      x == session[s]
  IN /\ x.at \in {"market", "scan", "positions", "payout", "accounts"} =>
          settlement[m] = "inflight" /\ market[m] = "settling"
     /\ x.at = "positions" => x.found \subseteq OpenOn(m) /\ OpenOn(m) \subseteq x.found \union x.todo
     /\ x.at \in {"payout", "accounts"} => x.found = OpenOn(m)

PayerBelieves(s) == session[s].at \in {"frozen", "accounts"} => reserves[Job[s].on] = 0

\* What a transaction has read and acts on later still stands when it acts:
\* nobody opens the position or the user's other one, closes it, settles its
\* market or opens another position on the market meanwhile (market.go: `SELECT
\* FOR UPDATE' of the market, `version = version + 1' on the position, the
\* unique indexes of schema.sql).
ReadsStand ==
  \A s \in Sessions :
    /\ Job[s].kind = "open" => OpenerBelieves(s)
    /\ Job[s].kind \in {"close", "liquidate"} => CloserBelieves(s)
    /\ Job[s].kind = "resolve" => JudgeBelieves(s)
    /\ Job[s].kind = "settle" => SettlerBelieves(s)
    /\ Job[s].kind = "withdraw" => PayerBelieves(s)

-----------------------------------------------------------------------------
(* Waiting *)

\* The row a session's next statement needs.
Needs(s) ==
  LET j == Job[s]
  IN CASE session[s].at = "lookup" /\ position[j.on] # "none" -> {PositionRow(j.on)}
       [] session[s].at = "market" /\ j.kind = "open" -> {MarketRow(MarketOf[j.on])}
       [] session[s].at = "market" /\ j.kind = "settle" -> {MarketRow(j.on)}
       [] session[s].at = "insert" -> {PositionRow(q) : q \in Rivals(j.on) \union {j.on}}
       [] session[s].at = "update" -> {PositionRow(j.on)}
       [] session[s].at = "key" /\ j.kind = "resolve" -> {SettlementRow(j.on)}
       [] session[s].at = "key" /\ j.kind = "withdraw" -> {WithdrawalRow(j.on)}
       [] session[s].at = "mark" -> {MarketRow(j.on)}
       [] session[s].at = "intent" -> {SettlementRow(j.on)}
       [] session[s].at = "positions" -> {PositionRow(p) : p \in {q \in Positions : First(s, q)}}
       [] session[s].at = "accounts" /\ session[s].wants # <<>> -> {Head(session[s].wants)}
       [] OTHER -> {}

\* What s waits for is held by members of S, all of which wait themselves.
WaitsWithin(s, S) ==
  \/ \E r \in Needs(s) : lock[r] \in S \ {s}
  \/ session[s].at = "frozen" /\ ~FreeConn /\ Active \subseteq S

Deadlocked(S) == S # {} /\ \A s \in S : WaitsWithin(s, S)

\* Row locks alone never make transactions wait on each other in a circle
\* (ledger.go: `can never deadlock'): the one way everybody waits for ever is a
\* pool whose every connection a withdrawal request holds while it, or the
\* request with the same key before it, asks for a second one.
OnlyThePoolWedges ==
  \A S \in SUBSET Active : Deadlocked(S) =>
    /\ ~FreeConn
    /\ \A s \in Active : Job[s].kind = "withdraw" /\ session[s].at \in {"key", "frozen"}

-----------------------------------------------------------------------------

(***************************************************************************)
(* The promise about positions, with the committed rows read as its state. *)
(***************************************************************************)
Promise == INSTANCE MarketPromise WITH
  phase <- market, holding <- position, paid <- posted

\* Every commit is a step the promise allows and every other step is none of
\* its business: no position is opened against a decided outcome, none is
\* paid while it is being settled, and a settlement pays all or nothing.
KeepsMarketPromise == Promise!Spec
=============================================================================
