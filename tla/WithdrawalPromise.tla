------------------------- MODULE WithdrawalPromise --------------------------
(***************************************************************************)
(* What the engine promises about a withdrawal, with no chain heights, no  *)
(* outbox and no workers: the funds are reserved, then either the vault    *)
(* pays and the ledger recognises it, or the vault never pays and the      *)
(* ledger refunds; and one of the two happens.                             *)
(***************************************************************************)

CONSTANT Nonces

VARIABLES
  book,   \* what the ledger did with the funds
  paid    \* whether the vault has irrevocably paid them out

promiseVars == <<book, paid>>

Init ==
  /\ book = [n \in Nonces |-> "none"]
  /\ paid = [n \in Nonces |-> FALSE]

Reserve(n) ==
  /\ book[n] = "none"
  /\ book' = [book EXCEPT ![n] = "reserved"]
  /\ UNCHANGED paid

\* The vault pays only money that is set aside for it.
PayOut(S) ==
  /\ \A n \in S : book[n] = "reserved"
  /\ paid' = [n \in Nonces |-> paid[n] \/ n \in S]
  /\ UNCHANGED book

Recognise(n) ==
  /\ book[n] = "reserved" /\ paid[n]
  /\ book' = [book EXCEPT ![n] = "settled"]
  /\ UNCHANGED paid

Refund(n) ==
  /\ book[n] = "reserved" /\ ~paid[n]
  /\ book' = [book EXCEPT ![n] = "refunded"]
  /\ UNCHANGED paid

Next ==
  \/ \E n \in Nonces : Reserve(n) \/ Recognise(n) \/ Refund(n)
  \/ \E S \in SUBSET Nonces : PayOut(S)

Spec == Init /\ [][Next]_promiseVars

\* Every reservation ends.
Fairness == \A n \in Nonces : WF_promiseVars(Recognise(n) \/ Refund(n))

FairSpec == Spec /\ Fairness
=============================================================================
