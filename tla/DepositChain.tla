---------------------------- MODULE DepositChain ----------------------------
(***************************************************************************)
(* The chain as the deposit inbox sees it (internal/chain/sim.go): deposits *)
(* made straight to the vault, the numbered event log the engine polls, and *)
(* the truthful reads TxStatus, CanonicalHash and FinalizedFacts.           *)
(*                                                                         *)
(* A block hash is drawn afresh for every block, so a block that carries a *)
(* deposit is named by the sequence number of its first event; a block     *)
(* without one is only a height.  A deposit's receipt exists exactly while *)
(* an event of it is not orphaned, so it is read off the log.              *)
(***************************************************************************)
EXTENDS Integers, SequencesExt

CONSTANTS
  Deposits,      \* deposits the user may make; the id is the fact id
  Confirms,      \* blocks until finality (Faults.Confirms)
  Reorgs,        \* whether Mine may reorg first (Faults.Reorg > 0)
  MaxHeight,     \* bound: no block above this height
  MaxEvents,     \* bound: no more events than this are ever logged
  QuietHeight    \* bound: from here on, no block that makes nothing happen

ASSUME DepositsAssumption == IsFiniteSet(Deposits)
ASSUME ConfirmsAssumption == Confirms \in Nat \ {0}
ASSUME ReorgsAssumption == Reorgs \in BOOLEAN
ASSUME BoundsAssumption == MaxHeight \in Nat /\ MaxEvents \in Nat /\ QuietHeight \in Nat

VARIABLES
  head,          \* height of the newest block
  finalHeight,   \* height of the newest finalised block
  pool,          \* deposits waiting for a block
  log            \* every deposit event, by sequence number

chainVars == <<head, finalHeight, pool, log>>

Heights == 0..MaxHeight

\* live: the event's Kind has not been overwritten with "orphaned".
Events == [fact : Deposits, height : Heights, block : 1..MaxEvents, live : BOOLEAN]

Seqs == DOMAIN log

ChainTypeOK ==
  /\ head \in Heights
  /\ finalHeight \in Heights
  /\ pool \subseteq Deposits
  /\ log \in Seq(Events) /\ Len(log) <= MaxEvents

ChainInit ==
  /\ head = 0
  /\ finalHeight = 0
  /\ pool = {}
  /\ log = <<>>

-----------------------------------------------------------------------------
(* Reads *)

\* TxStatus names this event's block as the one that processed its deposit.
Processed(s) == log[s].live

\* ... and that block is final.
Finalized(s) == log[s].live /\ log[s].height <= finalHeight

\* CanonicalHash still maps the event's height to its block.
Canonical(s) == log[s].live

\* PollEvents(since) may withhold events, duplicate and reorder them, and skips
\* orphaned ones.  The consumer keeps the contiguous prefix, which ends
\* anywhere before the first event that is withheld or orphaned.
Delivers(since, upTo) ==
  /\ upTo \in since..Len(log)
  /\ \A s \in (since + 1)..upTo : log[s].live

-----------------------------------------------------------------------------
(* Steps *)

\* Deposit: the user sends funds straight to the vault.
Deposit(d) ==
  /\ d \notin pool
  /\ \A s \in Seqs : log[s].fact # d
  /\ pool' = pool \union {d}
  /\ UNCHANGED <<head, finalHeight, log>>

\* Events and deposits of the unfinalised blocks above base.
Orphans(base) == {s \in Seqs : log[s].live /\ log[s].height > base}
Queue(base) == pool \union {log[s].fact : s \in Orphans(base)}

\* fault: the oldest pending block is final even before Confirms are on top
FinalAfterUnguarded(h) == h - Confirms

\* The newest block that has Confirms blocks on top.
FinalAfter(h) == IF h - finalHeight > Confirms THEN h - Confirms ELSE finalHeight

WithinBounds(base) ==
  /\ base < MaxHeight
  /\ Len(log) + Cardinality(Queue(base)) <= MaxEvents
  /\ base >= QuietHeight =>
       Queue(base) # {} \/ \E s \in Seqs : log[s].live /\ log[s].height > finalHeight

\* Mine: a reorg drops depth unfinalised blocks, their events are orphaned and
\* their deposits queue again; then one block takes the whole queue, each
\* deposit under a new sequence number, in an order the reorg may shuffle.
Mine(depth, order) ==
  LET base == head - depth
      hash == Len(log) + 1
  IN /\ depth > 0 => Reorgs
     /\ WithinBounds(base)
     /\ order \in SetToSeqs(Queue(base))
     /\ head' = base + 1
     /\ finalHeight' = FinalAfter(base + 1)
     /\ pool' = {}
     /\ log' = [s \in Seqs |-> [log[s] EXCEPT !.live = @ /\ s \notin Orphans(base)]]
                 \o [i \in 1..Len(order) |->
                       [fact |-> order[i], height |-> base + 1, block |-> hash, live |-> TRUE]]
=============================================================================
