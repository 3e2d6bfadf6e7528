----------------------------- MODULE MCChainSim -----------------------------
(* A small instance of the simulated chain for TLC: a deposit that funds any   *)
(* two of the withdrawal and the two escrows; a raise and a release of one     *)
(* market's escrow, its settlement, and a market that never settles; a call    *)
(* that expires early enough for its cancellation to become final within the   *)
(* height bound.                                                               *)
EXTENDS ChainSimProperties

CONSTANTS d1, w1, e1, e2, e3, s1, m1, m2

Tx(n, k, m, a, x) == [nonce |-> n, kind |-> k, market |-> m, amount |-> a, expiry |-> x]

AllRequests ==
  {Tx(d1, "deposit", m1, 2, 0), Tx(w1, "withdraw", m1, 1, 1),
   Tx(e1, "escrow_set", m1, 1, 2), Tx(e2, "escrow_set", m2, 1, 2),
   Tx(e3, "escrow_set", m1, 0, 3), Tx(s1, "settle_market", m1, 0, 0)}
=============================================================================
