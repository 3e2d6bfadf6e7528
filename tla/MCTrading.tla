----------------------------- MODULE MCTrading ------------------------------
(* A small instance of the trading side for TLC: two users with positions on   *)
(* two markets, whose ids put the users in opposite orders; one of the markets *)
(* is already settling.  Every kind of transaction, in races that matter: two  *)
(* replicas confirm the settlement that another request starts, and meanwhile  *)
(* a position is closed by its user and liquidated, while two requests of that *)
(* user each open another one on the same market.                              *)
EXTENDS TradingProperties, TLC

CONSTANTS m1, m2, k1, k2, opener, opener2, closer, liquidator, judge, replica1, replica2,
          settler, payer1, payer2, payer3

TheOwners == (1 :> 2) @@ (2 :> 1) @@ (3 :> 1) @@ (4 :> 2) @@ (5 :> 2) @@ (6 :> 2)
TheMarkets == (1 :> m1) @@ (2 :> m1) @@ (3 :> m2) @@ (4 :> m2) @@ (5 :> m1) @@ (6 :> m1)
ThePayers == (k1 :> 1) @@ (k2 :> 2)

TheJobs ==
  LET job(kind, on) == [kind |-> kind, on |-> on]
  IN (opener :> job("open", 5)) @@ (opener2 :> job("open", 6)) @@ (closer :> job("close", 1))
     @@ (liquidator :> job("liquidate", 1)) @@ (judge :> job("resolve", m1))
     @@ (replica1 :> job("settle", m1)) @@ (replica2 :> job("settle", m1))
     @@ (settler :> job("settle", m2))
     @@ (payer1 :> job("withdraw", k1)) @@ (payer2 :> job("withdraw", k1))
     @@ (payer3 :> job("withdraw", k2))

\* The two confirmations of one settlement do the same job, and so do the two
\* requests with one key.
Symmetry == Permutations({replica1, replica2}) \union Permutations({payer1, payer2})
=============================================================================
