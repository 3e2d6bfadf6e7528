------------------------------- MODULE Inbox --------------------------------
(***************************************************************************)
(* Deposits in the ledger: InboxTick ingests the event stream, settleFacts *)
(* re-checks every provisional credit, RevertBlock compensates the orphans *)
(* and Reconcile heals finalised deposits the stream lost                  *)
(* (internal/app/app.go, internal/app/reconcile.go, internal/core/inbox.go).*)
(*                                                                         *)
(* One user's account; users share nothing here.  A database statement     *)
(* outside a transaction is one step, a transaction is one step from the   *)
(* moment it takes its locks, a call to the chain is one step.             *)
(***************************************************************************)
EXTENDS DepositChain

CONSTANTS
  Inboxes,       \* loops that run InboxTick
  Reconcilers,   \* loops and requests that run Reconcile
  Amount,        \* what one deposit is worth
  MaxCrashes     \* bound on crashes and database errors

ASSUME WorkersAssumption == Inboxes \intersect Reconcilers = {}
ASSUME AmountAssumption == Amount \in Nat \ {0}
ASSUME CrashesAssumption == MaxCrashes \in Nat

VARIABLES
  cursor,        \* chain_cursor.last_seq
  events,        \* chain_events.status by sequence number, "none" if no row
  facts,         \* chain_facts by sequence number
  available,     \* the user's available balance
  spent,         \* what the user moved on to margin or pending_withdraw
  insurance,     \* what the insurance fund gained from this user's reversals
  frozen,        \* the user is in freezes
  worker,        \* what each loop holds in memory
  crashes

dbVars == <<cursor, events, facts, available, spent, insurance, frozen>>
vars == <<chainVars, dbVars, worker, crashes>>

Workers == Inboxes \union Reconcilers
EventIds == 1..MaxEvents

\* A fact is unreverted while provisional or final; the transfer that credits
\* it commits with its row, the one that reverts it with its reversal.
FactStates == {"none", "provisional", "final", "reverted"}
EventStates == {"none", "received", "applied", "orphaned"}
Unreverted == {s \in EventIds : facts[s] \in {"provisional", "final"}}

Steps == {"idle", "check", "canonical", "mark", "revert", "balance", "post",
          "cursor", "poll", "record", "advance", "pending", "apply",
          "applied", "missing", "heal", "healApply", "healMark"}

\* todo: rows or events in hand; bad: blocks found orphaned; ev: the event, or
\* the sequence number, in hand; avail: the balance RevertBlock read; final:
\* whether TxStatus said so.
Memory == [at : Steps, todo : SUBSET EventIds, bad : SUBSET EventIds,
           ev : 0..MaxEvents, avail : 0..(Amount * MaxEvents), final : BOOLEAN]

At(step, todo) ==
  [at |-> step, todo |-> todo, bad |-> {}, ev |-> 0, avail |-> 0, final |-> FALSE]
Idle == At("idle", {})

TypeOK ==
  /\ ChainTypeOK
  /\ cursor \in 0..MaxEvents
  /\ events \in [EventIds -> EventStates]
  /\ facts \in [EventIds -> FactStates]
  /\ available \in 0..(Amount * MaxEvents)
  /\ spent \in 0..(Amount * MaxEvents)
  /\ insurance \in -(Amount * MaxEvents)..0
  /\ frozen \in BOOLEAN
  /\ worker \in [Workers -> Memory]
  /\ crashes \in 0..MaxCrashes

Init ==
  /\ ChainInit
  /\ cursor = 0
  /\ events = [s \in EventIds |-> "none"]
  /\ facts = [s \in EventIds |-> "none"]
  /\ available = 0
  /\ spent = 0
  /\ insurance = 0
  /\ frozen = FALSE
  /\ worker = [p \in Workers |-> Idle]
  /\ crashes = 0

Become(p, w) == worker' = [worker EXCEPT ![p] = w]
Only(p, w) == Become(p, w) /\ UNCHANGED <<chainVars, dbVars, crashes>>

-----------------------------------------------------------------------------
(* Transactions.  Definitions commented `fault:' are broken variants used in *)
(* mutation tests.                                                          *)

\* RecordEvent: on conflict do nothing.
RecordEvent(s) ==
  /\ events' = [events EXCEPT ![s] = IF @ = "none" THEN "received" ELSE @]
  /\ UNCHANGED <<cursor, facts, available, spent, insurance, frozen>>

\* fault: the transfer has no idempotency key
ApplyDepositAgain(s) ==
  /\ events' = [events EXCEPT ![s] = "applied"]
  /\ facts' = [facts EXCEPT ![s] = "provisional"]
  /\ available' = available + Amount
  /\ UNCHANGED <<cursor, spent, insurance, frozen>>

\* ApplyDeposit: keyed on the event, so a second application credits nothing.
ApplyDeposit(s) ==
  /\ events' = [events EXCEPT ![s] = "applied"]
  /\ IF facts[s] = "none"
     THEN /\ facts' = [facts EXCEPT ![s] = "provisional"]
          /\ available' = available + Amount
     ELSE UNCHANGED <<facts, available>>
  /\ UNCHANGED <<cursor, spent, insurance, frozen>>

\* fault: every provisional fact of a final height, in bulk
MarkFactsFinalized(s) ==
  /\ facts' = [t \in EventIds |-> IF facts[t] = "provisional" /\ log[t].height <= finalHeight
                                  THEN "final" ELSE facts[t]]
  /\ UNCHANGED <<cursor, events, available, spent, insurance, frozen>>

\* MarkFactFinalized: where reverted = false.
MarkFactFinalized(s) ==
  /\ facts' = [facts EXCEPT ![s] = IF @ = "provisional" THEN "final" ELSE @]
  /\ UNCHANGED <<cursor, events, available, spent, insurance, frozen>>

\* fault: the whole deposit is taken back, spent or not
ClawbackAll(avail) == Amount

\* The rest of RevertBlock's transaction, for a balance read earlier in it
\* without a lock.  The reversal is keyed on the event: when another pass has
\* posted it, no money moves, but the shortfall is still acted on.
Clawback(avail) == IF avail < Amount THEN avail ELSE Amount
Shortfall(avail) == Amount - Clawback(avail)

\* fault: the balance may go negative
RevertAnyway(s, avail) == TRUE

RevertPossible(s, avail) == facts[s] = "reverted" \/ available >= Clawback(avail)

\* fault: the reversal has no idempotency key
RevertFactAgain(s, avail) ==
  /\ facts' = [facts EXCEPT ![s] = "reverted"]
  /\ available' = available - Clawback(avail)
  /\ insurance' = insurance - Shortfall(avail)
  /\ events' = [events EXCEPT ![s] = "orphaned"]
  /\ frozen' = (frozen \/ Shortfall(avail) > 0)
  /\ UNCHANGED <<cursor, spent>>

RevertFact(s, avail) ==
  /\ IF facts[s] = "reverted"
     THEN UNCHANGED <<facts, available, insurance>>
     ELSE /\ facts' = [facts EXCEPT ![s] = "reverted"]
          /\ available' = available - Clawback(avail)
          /\ insurance' = insurance - Shortfall(avail)
  /\ events' = [events EXCEPT ![s] = "orphaned"]
  /\ frozen' = (frozen \/ Shortfall(avail) > 0)
  /\ UNCHANGED <<cursor, spent>>

-----------------------------------------------------------------------------
(* settleFacts, the first thing both passes do *)

\* What a pass does once every provisional fact is dealt with.
Settled(p) == IF p \in Reconcilers THEN At("applied", {}) ELSE At("cursor", {})

\* The next row of todo at this step, then the next orphaned block, then on.
Continue(p, step, todo, bad) ==
  IF todo # {} THEN [At(step, todo) EXCEPT !.bad = bad]
  ELSE IF bad # {} THEN [At("revert", {}) EXCEPT !.bad = bad]
  ELSE Settled(p)

ListProvisional(p) ==
  /\ worker[p].at = "idle"
  /\ Only(p, Continue(p, "check", {s \in EventIds : facts[s] = "provisional"}, {}))

\* TxStatus, then CanonicalHash, of the block the credit was derived from.
CheckStatus(p, s) ==
  LET w == worker[p]
  IN /\ w.at = "check" /\ s \in w.todo
     /\ Only(p, IF Processed(s)
                THEN [w EXCEPT !.at = "canonical", !.ev = s, !.final = Finalized(s)]
                ELSE Continue(p, "check", w.todo \ {s}, w.bad \union {log[s].block}))

CheckCanonical(p) ==
  LET w == worker[p]
      s == w.ev
      rest == w.todo \ {s}
  IN /\ w.at = "canonical"
     /\ Only(p, IF ~Canonical(s)
                THEN Continue(p, "check", rest, w.bad \union {log[s].block})
                ELSE IF w.final THEN [w EXCEPT !.at = "mark"]
                ELSE Continue(p, "check", rest, w.bad))

Promote(p) ==
  LET w == worker[p]
  IN /\ w.at = "mark"
     /\ MarkFactFinalized(w.ev)
     /\ Become(p, Continue(p, "check", w.todo \ {w.ev}, w.bad))
     /\ UNCHANGED <<chainVars, crashes>>

\* fault: the facts of that height, not of that block
ListHeight(p, b) ==
  LET w == worker[p]
  IN /\ w.at = "revert" /\ b \in w.bad
     /\ Only(p, Continue(p, "balance",
                         {s \in Unreverted : log[s].height = log[b].height}, w.bad \ {b}))

\* RevertBlock lists the unreverted facts of the block ...
ListBlock(p, b) ==
  LET w == worker[p]
  IN /\ w.at = "revert" /\ b \in w.bad
     /\ Only(p, Continue(p, "balance", {s \in Unreverted : log[s].block = b}, w.bad \ {b}))

\* ... and for each one reads the balance and posts the reversal.
ReadBalance(p, s) ==
  LET w == worker[p]
  IN /\ w.at = "balance" /\ s \in w.todo
     /\ Only(p, [w EXCEPT !.at = "post", !.ev = s, !.avail = available])

PostReversal(p) ==
  LET w == worker[p]
  IN /\ w.at = "post"
     /\ RevertPossible(w.ev, w.avail)
     /\ RevertFact(w.ev, w.avail)
     /\ Become(p, Continue(p, "balance", w.todo \ {w.ev}, w.bad))
     /\ UNCHANGED <<chainVars, crashes>>

\* ErrInsufficientFunds: the balance has dropped since it was read.  The
\* transaction rolls back and the error ends the tick.
ReversalFails(p) ==
  /\ worker[p].at = "post"
  /\ ~RevertPossible(worker[p].ev, worker[p].avail)
  /\ Only(p, Idle)

-----------------------------------------------------------------------------
(* InboxTick, after settleFacts *)

ReadCursor(p) ==
  /\ worker[p].at = "cursor"
  /\ Only(p, [At("poll", {}) EXCEPT !.ev = cursor])

\* fault: the cursor moves before the events are recorded
PollAndAdvance(p, upTo) ==
  LET since == worker[p].ev
  IN /\ worker[p].at = "poll"
     /\ Delivers(since, upTo)
     /\ cursor' = IF upTo > cursor THEN upTo ELSE cursor
     /\ Become(p, IF upTo = since THEN At("pending", {})
                  ELSE [At("record", (since + 1)..upTo) EXCEPT !.ev = upTo])
     /\ UNCHANGED <<chainVars, events, facts, available, spent, insurance, frozen, crashes>>

PollEvents(p, upTo) ==
  LET since == worker[p].ev
  IN /\ worker[p].at = "poll"
     /\ Delivers(since, upTo)
     /\ Only(p, IF upTo = since THEN At("pending", {})
                ELSE [At("record", (since + 1)..upTo) EXCEPT !.ev = upTo])

Record(p, s) ==
  LET w    == worker[p]
      rest == w.todo \ {s}
  IN /\ w.at = "record" /\ s \in w.todo
     /\ RecordEvent(s)
     /\ Become(p, [w EXCEPT !.at = IF rest = {} THEN "advance" ELSE "record", !.todo = rest])
     /\ UNCHANGED <<chainVars, crashes>>

\* AdvanceCursor: greatest(last_seq, $1).
AdvanceCursor(p) ==
  LET upTo == worker[p].ev
  IN /\ worker[p].at = "advance"
     /\ cursor' = IF upTo > cursor THEN upTo ELSE cursor
     /\ Become(p, At("pending", {}))
     /\ UNCHANGED <<chainVars, events, facts, available, spent, insurance, frozen, crashes>>

ListPending(p) ==
  LET pending == {s \in EventIds : events[s] = "received"}
  IN /\ worker[p].at = "pending"
     /\ Only(p, IF pending = {} THEN Idle ELSE At("apply", pending))

\* In chain_seq order.
Apply(p, s) ==
  LET rest == worker[p].todo \ {s}
  IN /\ worker[p].at = "apply" /\ s \in worker[p].todo
     /\ \A t \in rest : s < t
     /\ ApplyDeposit(s)
     /\ Become(p, IF rest = {} THEN Idle ELSE At("apply", rest))
     /\ UNCHANGED <<chainVars, crashes>>

-----------------------------------------------------------------------------
(* Reconcile, after settleFacts: the part that changes the ledger *)

\* fault: reverted facts count as applied
ReadEverApplied(p) ==
  /\ worker[p].at = "applied"
  /\ Only(p, At("missing", {s \in EventIds : facts[s] # "none"}))

ReadApplied(p) ==
  /\ worker[p].at = "applied"
  /\ Only(p, At("missing", Unreverted))

\* Finalised deposits none of whose events is among the applied facts.
FindMissing(p) ==
  LET known   == {log[s].fact : s \in worker[p].todo}
      missing == {s \in Seqs : Finalized(s) /\ log[s].fact \notin known}
  IN /\ worker[p].at = "missing"
     /\ Only(p, IF missing = {} THEN Idle ELSE At("heal", missing))

HealRecord(p, s) ==
  LET w == worker[p]
  IN /\ w.at = "heal" /\ s \in w.todo
     /\ RecordEvent(s)
     /\ Become(p, [w EXCEPT !.at = "healApply", !.ev = s])
     /\ UNCHANGED <<chainVars, crashes>>

HealApply(p) ==
  LET w == worker[p]
  IN /\ w.at = "healApply"
     /\ ApplyDeposit(w.ev)
     /\ Become(p, [w EXCEPT !.at = "healMark"])
     /\ UNCHANGED <<chainVars, crashes>>

HealMark(p) ==
  LET rest == worker[p].todo \ {worker[p].ev}
  IN /\ worker[p].at = "healMark"
     /\ MarkFactFinalized(worker[p].ev)
     /\ Become(p, IF rest = {} THEN Idle ELSE At("heal", rest))
     /\ UNCHANGED <<chainVars, crashes>>

-----------------------------------------------------------------------------
(* The user, the chain and failures *)

MakeDeposit(d) ==
  /\ Deposit(d)
  /\ UNCHANGED <<dbVars, worker, crashes>>

\* The user trades or withdraws with what is available, credited at one
\* confirmation or not.
Spend ==
  /\ available > 0
  /\ available' = available - 1
  /\ spent' = spent + 1
  /\ UNCHANGED <<chainVars, cursor, events, facts, insurance, frozen, worker, crashes>>

\* A position is closed or a withdrawal refunded.
Return ==
  /\ spent > 0
  /\ available' = available + 1
  /\ spent' = spent - 1
  /\ UNCHANGED <<chainVars, cursor, events, facts, insurance, frozen, worker, crashes>>

MineBlock(depth, order) ==
  /\ Mine(depth, order)
  /\ UNCHANGED <<dbVars, worker, crashes>>

\* SIGKILL or a database error, between any two steps.
Crash(p) ==
  /\ crashes < MaxCrashes
  /\ worker[p].at # "idle"
  /\ crashes' = crashes + 1
  /\ Become(p, Idle)
  /\ UNCHANGED <<chainVars, dbVars>>

-----------------------------------------------------------------------------

SettleFacts(p) ==
  \/ ListProvisional(p)
  \/ \E s \in EventIds : CheckStatus(p, s)
  \/ CheckCanonical(p)
  \/ Promote(p)
  \/ \E b \in EventIds : ListBlock(p, b)
  \/ \E s \in EventIds : ReadBalance(p, s)
  \/ PostReversal(p)
  \/ ReversalFails(p)

InboxTick(p) ==
  \/ SettleFacts(p)
  \/ ReadCursor(p)
  \/ \E upTo \in 0..MaxEvents : PollEvents(p, upTo)
  \/ \E s \in EventIds : Record(p, s)
  \/ AdvanceCursor(p)
  \/ ListPending(p)
  \/ \E s \in EventIds : Apply(p, s)

Reconcile(p) ==
  \/ SettleFacts(p)
  \/ ReadApplied(p)
  \/ FindMissing(p)
  \/ \E s \in EventIds : HealRecord(p, s)
  \/ HealApply(p)
  \/ HealMark(p)

MineStep ==
  \E depth \in 0..(head - finalHeight) :
    \E order \in SetToSeqs(Queue(head - depth)) : MineBlock(depth, order)

Next ==
  \/ \E d \in Deposits : MakeDeposit(d)
  \/ Spend
  \/ Return
  \/ MineStep
  \/ \E p \in Inboxes : InboxTick(p)
  \/ \E p \in Reconcilers : Reconcile(p)
  \/ \E p \in Workers : Crash(p)

Spec == Init /\ [][Next]_vars

\* Every loop is on a ticker and blocks keep coming without a reorg; the user
\* does not for ever spend just between a reversal's read and its transfer.  No
\* fairness for deposits, spending, crashes, and none for the event stream.
Fairness ==
  /\ \A p \in Inboxes : WF_vars(InboxTick(p)) /\ SF_vars(PostReversal(p))
  /\ \A p \in Reconcilers : WF_vars(Reconcile(p)) /\ SF_vars(PostReversal(p))
  /\ WF_vars(\E order \in SetToSeqs(Queue(head)) : MineBlock(0, order))

FairSpec == Spec /\ Fairness

\* Gaps are transient: a poll that is repeated for ever delivers, again and
\* again, all that the stream can deliver.
PollAll(p) ==
  \E upTo \in 0..MaxEvents : /\ PollEvents(p, upTo)
                             /\ upTo = Len(log) \/ ~Delivers(upTo, upTo + 1)

StreamSpec == FairSpec /\ \A p \in Inboxes : SF_vars(PollAll(p))
=============================================================================
