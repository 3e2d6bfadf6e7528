--------------------------- MODULE MarketPromise ----------------------------
(***************************************************************************)
(* What the engine promises about positions, with no transactions, locks   *)
(* or sessions: collateral is posted while the market trades, it is paid   *)
(* back exactly once, and a market that settles pays everyone who is still *)
(* in it in one stroke.                                                    *)
(***************************************************************************)

CONSTANTS
  Markets,
  Positions,
  MarketOf,   \* the market of each position
  Opened,     \* positions that are open to begin with
  Resolved    \* markets whose outcome is decided to begin with

VARIABLES
  phase,      \* of each market: open, settling, settled
  holding,    \* of each position: none, open, closed, liquidated
  paid        \* the transfers of each position: open, close, settle

promiseVars == <<phase, holding, paid>>

Init ==
  /\ phase = [m \in Markets |-> IF m \in Resolved THEN "settling" ELSE "open"]
  /\ holding = [p \in Positions |-> IF p \in Opened THEN "open" ELSE "none"]
  /\ paid = [p \in Positions |-> IF p \in Opened THEN {"open"} ELSE {}]

\* Collateral can be posted only against an outcome nobody knows yet.
Open(p) ==
  /\ phase[MarketOf[p]] = "open"
  /\ holding[p] = "none"
  /\ holding' = [holding EXCEPT ![p] = "open"]
  /\ paid' = [paid EXCEPT ![p] = {"open"}]
  /\ UNCHANGED phase

Leave(p, how) ==
  /\ holding[p] = "open"
  /\ holding' = [holding EXCEPT ![p] = how]
  /\ paid' = [paid EXCEPT ![p] = {"open", "close"}]
  /\ UNCHANGED phase

Resolve(m) ==
  /\ phase[m] = "open"
  /\ phase' = [phase EXCEPT ![m] = "settling"]
  /\ UNCHANGED <<holding, paid>>

Staying(m) == {p \in Positions : MarketOf[p] = m /\ holding[p] = "open"}

Settle(m) ==
  /\ phase[m] = "settling"
  /\ phase' = [phase EXCEPT ![m] = "settled"]
  /\ holding' = [p \in Positions |-> IF p \in Staying(m) THEN "closed" ELSE holding[p]]
  /\ paid' = [p \in Positions |-> IF p \in Staying(m) THEN {"open", "settle"} ELSE paid[p]]

Next ==
  \/ \E p \in Positions : Open(p)
  \/ \E p \in Positions, how \in {"closed", "liquidated"} : Leave(p, how)
  \/ \E m \in Markets : Resolve(m) \/ Settle(m)

Spec == Init /\ [][Next]_promiseVars
=============================================================================
