-------------------------- MODULE InboxProperties ---------------------------
(***************************************************************************)
(* What the deposit inbox must guarantee.                                  *)
(***************************************************************************)
EXTENDS Inbox

\* The event stands in a block that is final.
IsFinal(s) == s \in Seqs /\ log[s].live /\ log[s].height <= finalHeight

\* Promotion blesses only real money: a fact is final only if the very block it
\* was credited from is final, whatever reorgs the pass that promoted it
\* overlapped with (settleFacts re-asks per fact, never in bulk by height).
FinalFactsAreReal == \A s \in EventIds : facts[s] = "final" => IsFinal(s)

\* Compensation never takes back a valid credit: a reverted fact's block is gone
\* for good, although the pass that condemned it acted on earlier answers.
OnlyOrphansAreReverted == \A s \in EventIds : facts[s] = "reverted" => ~log[s].live

\* The ledger and chain_facts agree to the unit, after any interleaving of
\* credits, replays, reversals and spending: what the user has had is what the
\* unreverted facts say, less what insurance covered; and never below zero.
\* Reconcile's terms are computed from chain_facts and rely on it.
LedgerMatchesFacts ==
  /\ available + spent + insurance = Amount * Cardinality(Unreverted)
  /\ available >= 0

\* The cursor never passes an event whose effect is not in the database
\* (AdvanceCursor: `or its effect would be lost forever').
CursorSkipsNothing == \A s \in 1..cursor : events[s] # "none"

\* A promoted or reverted fact is decided: no pass with an old list of facts
\* reverts final money or brings a reverted credit back.
FactsStayDecided ==
  [][\A s \in EventIds : facts[s] \in {"final", "reverted"} => facts'[s] = facts[s]]_vars

\* Every deposit that is final on chain becomes final in the ledger, whatever
\* the stream loses.
DepositsLand ==
  \A s \in EventIds : IsFinal(s) ~> facts[s] = "final"

\* Every credit on an orphaned block is taken back, whatever fails on the way.
OrphansAreCompensated ==
  \A s \in EventIds : (facts[s] = "provisional" /\ ~log[s].live) ~> facts[s] = "reverted"

\* An account is frozen only if a deposit of it was orphaned after it had been
\* spent, so that insurance had to absorb a shortfall (RevertBlock).
FrozenOnlyForAShortfall == frozen => insurance < 0

\* A gap in the sequence numbers means that the stream withheld an event, so
\* once gaps are over the cursor passes every final event (InboxTick).
StreamCatchesUp ==
  \A s \in EventIds : IsFinal(s) ~> cursor >= s
=============================================================================
