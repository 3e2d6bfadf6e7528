--------------------------- MODULE Reconciliation ---------------------------
(***************************************************************************)
(* The reconciliation invariant (internal/app/reconcile.go): the ledger's  *)
(* total may differ from the vault's finalised balance by exactly what is  *)
(* in flight, and any shortfall beyond that halts all withdrawals.         *)
(*                                                                         *)
(* Deposits are those of Inbox, whose reconcile pass here also does the    *)
(* arithmetic; withdrawals are those of WithdrawalPromise, each of one     *)
(* unit.  The terms are read one after the other, from the database and    *)
(* from the chain, while both move.                                        *)
(***************************************************************************)
EXTENDS Inbox

CONSTANTS
  Nonces,        \* the user's withdrawals
  Concurrent     \* loops and blocks overlap (pmr serve), or take turns (the
                 \* chaos harness, the demo and Quiesce)

ASSUME NoncesAssumption == IsFiniteSet(Nonces)
ASSUME ConcurrentAssumption == Concurrent \in BOOLEAN

VARIABLES
  book, paid,    \* the withdrawals, as WithdrawalPromise has them
  audit,         \* what each reconcile pass has read so far
  halted         \* "*" is in freezes

auditVars == <<book, paid, audit, halted>>
allVars == <<vars, auditVars>>

Withdrawal == INSTANCE WithdrawalPromise

\* residue: Unexplained, as far as its terms are read; final: the finalised
\* height VaultState gave; todo: in-flight intents not yet looked up.
Audits == [at : {"start", "vault", "inflight", "status", "facts", "provisional", "report"},
           residue : Int, final : Heights, todo : SUBSET Nonces]

NoAudit == [at |-> "start", residue |-> 0, final |-> 0, todo |-> {}]

AuditTypeOK ==
  /\ TypeOK
  /\ book \in [Nonces -> {"none", "reserved", "settled", "refunded"}]
  /\ paid \in [Nonces -> BOOLEAN]
  /\ audit \in [Workers -> Audits]
  /\ halted \in BOOLEAN

AuditInit ==
  /\ Init
  /\ Withdrawal!Init
  /\ audit = [p \in Workers |-> NoAudit]
  /\ halted = FALSE

-----------------------------------------------------------------------------
(* The terms *)

\* fault: what insurance covered is left out
CustomerTotal == available + spent - Cardinality({n \in Nonces : book[n] = "settled"})

\* InternalTotal: every account but `external'.
InternalTotal ==
  available + spent + insurance - Cardinality({n \in Nonces : book[n] = "settled"})

\* VaultState().FinalizedBalance.
FinalizedBalance ==
  Amount * Cardinality({s \in Seqs : Finalized(s)}) - Cardinality({n \in Nonces : paid[n]})

\* InFlight.
InFlight == {n \in Nonces : book[n] = "reserved"}

\* UnfinalizedApplied, for a finalised height that was read earlier.
ProvisionalCredits(final) ==
  Amount * Cardinality({s \in Unreverted : log[s].height > final})

-----------------------------------------------------------------------------
(* The reconcile pass *)

Resting(p) == worker[p].at = "idle" /\ audit[p].at = "start"

\* A loop may take a step: the others are between ticks, or overlap with it.
Turn(p) == Concurrent \/ \A q \in Workers \ {p} : Resting(q)

Read(p, next) ==
  /\ audit' = [audit EXCEPT ![p] = next]
  /\ UNCHANGED <<book, paid, halted>>

\* InternalTotal, right after settleFacts.
ReadLedger(p) ==
  /\ worker[p].at = "applied" /\ audit[p].at = "start"
  /\ Read(p, [audit[p] EXCEPT !.at = "vault", !.residue = InternalTotal])
  /\ UNCHANGED vars

ReadVault(p) ==
  /\ audit[p].at = "vault"
  /\ Read(p, [audit[p] EXCEPT !.at = "inflight", !.residue = @ - FinalizedBalance,
                              !.final = finalHeight])
  /\ UNCHANGED vars

ReadInFlight(p) ==
  /\ audit[p].at = "inflight"
  /\ Read(p, [audit[p] EXCEPT !.at = IF InFlight = {} THEN "facts" ELSE "status",
                              !.todo = InFlight])
  /\ UNCHANGED vars

\* fault: a payout the ledger has not recognised is no explanation
ReadStatusOnly(p, n) ==
  LET rest == audit[p].todo \ {n}
  IN /\ audit[p].at = "status" /\ n \in audit[p].todo
     /\ Read(p, [audit[p] EXCEPT !.at = IF rest = {} THEN "facts" ELSE "status", !.todo = rest])
     /\ UNCHANGED vars

\* TxStatus of an in-flight withdrawal: WithdrawnNotRecognised.
ReadStatus(p, n) ==
  LET rest == audit[p].todo \ {n}
  IN /\ audit[p].at = "status" /\ n \in audit[p].todo
     /\ Read(p, [audit[p] EXCEPT !.at = IF rest = {} THEN "facts" ELSE "status", !.todo = rest,
                                 !.residue = IF paid[n] THEN @ - 1 ELSE @])
     /\ UNCHANGED vars

ReadFacts(p) ==
  /\ audit[p].at = "facts"
  /\ ReadApplied(p)
  /\ UNCHANGED auditVars

\* FinalizedFacts less the applied ones: DepositsNotIngested.
ReadMissing(p) ==
  /\ audit[p].at = "facts"
  /\ FindMissing(p)
  /\ Read(p, [audit[p] EXCEPT !.at = "provisional",
                              !.residue = @ + Amount * Cardinality(worker'[p].todo)])

ReadProvisional(p) ==
  /\ audit[p].at = "provisional"
  /\ Read(p, [audit[p] EXCEPT !.at = "report", !.residue = @ - ProvisionalCredits(audit[p].final)])
  /\ UNCHANGED vars

Heal(p) ==
  /\ audit[p].at = "report"
  /\ (\E s \in EventIds : HealRecord(p, s)) \/ HealApply(p) \/ HealMark(p)
  /\ UNCHANGED auditVars

\* The report: unsafe_shortfall freezes "*".
Report(p) ==
  /\ audit[p].at = "report" /\ worker[p].at = "idle"
  /\ halted' = (halted \/ audit[p].residue > 0)
  /\ audit' = [audit EXCEPT ![p] = NoAudit]
  /\ UNCHANGED <<vars, book, paid>>

ReconcilePass(p) ==
  /\ Turn(p)
  /\ \/ audit[p].at = "start" /\ SettleFacts(p) /\ UNCHANGED auditVars
     \/ ReadLedger(p)
     \/ ReadVault(p)
     \/ ReadInFlight(p)
     \/ \E n \in Nonces : ReadStatus(p, n)
     \/ ReadFacts(p)
     \/ ReadMissing(p)
     \/ ReadProvisional(p)
     \/ Heal(p)
     \/ Report(p)

-----------------------------------------------------------------------------
(* Everything else *)

InboxPass(p) == Turn(p) /\ InboxTick(p) /\ UNCHANGED auditVars

BetweenTicks == Concurrent \/ \A p \in Workers : Resting(p)

\* A withdrawal is reserved unless the account or everything is frozen.
Reserve(n) ==
  /\ ~halted /\ ~frozen
  /\ Withdrawal!Reserve(n)
  /\ Spend
  /\ UNCHANGED <<audit, halted>>

\* The resolver confirms or expires the intent.
Recognise(n) ==
  /\ Withdrawal!Recognise(n)
  /\ UNCHANGED <<vars, audit, halted>>

Refund(n) ==
  /\ Withdrawal!Refund(n)
  /\ Return
  /\ UNCHANGED <<audit, halted>>

\* Positions move money between available and margin.
Margin == spent - Cardinality({n \in Nonces : book[n] \in {"reserved", "settled"}})
Trade == (Spend \/ (Margin > 0 /\ Return)) /\ UNCHANGED auditVars

\* A block, which may make payouts final that the vault has the funds for.
Block ==
  /\ MineStep
  /\ \E S \in SUBSET Nonces :
       /\ S # {} => finalHeight' > finalHeight
       /\ Withdrawal!PayOut(S)
  /\ FinalizedBalance' >= 0
  /\ UNCHANGED <<audit, halted>>

\* SIGKILL or a database error, anywhere in a pass.
Restart(p) ==
  /\ crashes < MaxCrashes
  /\ ~Resting(p)
  /\ crashes' = crashes + 1
  /\ Become(p, Idle)
  /\ Read(p, NoAudit)
  /\ UNCHANGED <<chainVars, dbVars>>

AuditNext ==
  \/ \E p \in Inboxes : InboxPass(p)
  \/ \E p \in Reconcilers : ReconcilePass(p)
  \/ \E d \in Deposits : BetweenTicks /\ MakeDeposit(d) /\ UNCHANGED auditVars
  \/ BetweenTicks /\ \E n \in Nonces : Reserve(n) \/ Recognise(n) \/ Refund(n)
  \/ BetweenTicks /\ Trade
  \/ BetweenTicks /\ Block
  \/ \E p \in Workers : Restart(p)

AuditSpec == AuditInit /\ [][AuditNext]_allVars
=============================================================================
