------------------------ MODULE ReconciliationProofs ------------------------
(***************************************************************************)
(* Proofs about the reconciliation invariant, for any deposits, loops,     *)
(* withdrawals and amounts.                                                *)
(***************************************************************************)
EXTENDS ReconciliationProperties, InboxProofs

-----------------------------------------------------------------------------
(* Withdrawals and reports *)

\* Only reserved funds are paid out, and only what was paid out is settled.
PayoutsAreBooked ==
  \A n \in Nonces : /\ book[n] = "settled" => paid[n]
                    /\ paid[n] => book[n] \in {"reserved", "settled"}

ReportTypeOK ==
  /\ book \in [Nonces -> {"none", "reserved", "settled", "refunded"}]
  /\ paid \in [Nonces -> BOOLEAN]
  /\ audit \in [Workers -> Audits]
  /\ halted \in BOOLEAN

ReportInv == IInv /\ ReportTypeOK /\ PayoutsAreBooked

-----------------------------------------------------------------------------
(* Counting *)

\* Counting a set by what is in another one and what is not.
LEMMA SplitCount ==
  ASSUME NEW S, NEW T, IsFiniteSet(S)
  PROVE  /\ Cardinality(S) \in Nat /\ Cardinality(S \intersect T) \in Nat
         /\ Cardinality(S \ T) \in Nat
         /\ Cardinality(S) = Cardinality(S \intersect T) + Cardinality(S \ T)
<1>1. S \intersect T \in SUBSET S /\ S \ T \in SUBSET S
  OBVIOUS
<1>2. IsFiniteSet(S \intersect T) /\ IsFiniteSet(S \ T)
  BY <1>1, FS_Subset
<1>3. /\ Cardinality(S) \in Nat /\ Cardinality(S \intersect T) \in Nat
      /\ Cardinality(S \ T) \in Nat
  BY <1>2, FS_CardinalityType
<1>4. Cardinality(S \ T) = Cardinality(S) - Cardinality(S \intersect T)
  BY FS_Difference
<1> QED
  BY <1>3, <1>4

\* What two lots of deposits are worth together.
LEMMA WorthTogether ==
  ASSUME NEW i \in Nat, NEW j \in Nat
  PROVE  /\ Amount * i \in Nat /\ Amount * j \in Nat
         /\ Amount * (i + j) = Amount * i + Amount * j
<1>1. Amount \in Nat
  BY AmountAssumption
<1> QED
  BY <1>1

FinalEvents == {s \in Seqs : Finalized(s)}
MissingEvents == {s \in Seqs : Finalized(s) /\ \A t \in Unreverted : log[t].fact # log[s].fact}
YoungCredits(final) == {s \in Unreverted : log[s].height > final}
SettledNonces == {n \in Nonces : book[n] = "settled"}
PaidNonces == {n \in Nonces : paid[n]}
UnrecognisedNonces == {n \in InFlight : paid[n]}

LEMMA SetsAreFinite ==
  ASSUME ReportInv
  PROVE  /\ IsFiniteSet(FinalEvents) /\ IsFiniteSet(MissingEvents) /\ IsFiniteSet(Unreverted)
         /\ \A final : IsFiniteSet(YoungCredits(final))
         /\ IsFiniteSet(SettledNonces) /\ IsFiniteSet(PaidNonces) /\ IsFiniteSet(UnrecognisedNonces)
<1>1. IsFiniteSet(EventIds)
  BY FS_Interval, BoundsAssumption DEF EventIds
<1>2. Seqs \subseteq EventIds
  BY SeqsFacts DEF ReportInv, IInv
<1>3. /\ FinalEvents \in SUBSET EventIds /\ MissingEvents \in SUBSET EventIds
      /\ Unreverted \in SUBSET EventIds
      /\ \A final : YoungCredits(final) \in SUBSET EventIds
  BY <1>2 DEF FinalEvents, MissingEvents, YoungCredits, Unreverted
<1>4. /\ SettledNonces \in SUBSET Nonces /\ PaidNonces \in SUBSET Nonces
      /\ UnrecognisedNonces \in SUBSET Nonces
  BY DEF SettledNonces, PaidNonces, UnrecognisedNonces, InFlight
<1> QED
  BY <1>1, <1>3, <1>4, NoncesAssumption, FS_Subset

\* Each term of the identity is an integer.
LEMMA TermsAreIntegers ==
  ASSUME ReportInv
  PROVE  /\ InternalTotal = Amount * Cardinality(Unreverted) - Cardinality(SettledNonces)
         /\ FinalizedBalance = Amount * Cardinality(FinalEvents) - Cardinality(PaidNonces)
         /\ InternalTotal \in Int /\ FinalizedBalance \in Int
         /\ WithdrawnNotRecognised = Cardinality(UnrecognisedNonces)
         /\ WithdrawnNotRecognised \in Int
         /\ DepositsNotIngested = Amount * Cardinality(MissingEvents)
         /\ DepositsNotIngested \in Int
         /\ \A final : /\ ProvisionalCredits(final) = Amount * Cardinality(YoungCredits(final))
                       /\ ProvisionalCredits(final) \in Int
<1>1. /\ Cardinality(FinalEvents) \in Nat /\ Cardinality(MissingEvents) \in Nat
      /\ Cardinality(Unreverted) \in Nat
      /\ \A final : Cardinality(YoungCredits(final)) \in Nat
      /\ Cardinality(SettledNonces) \in Nat /\ Cardinality(PaidNonces) \in Nat
      /\ Cardinality(UnrecognisedNonces) \in Nat
  BY SetsAreFinite, FS_CardinalityType
<1>2. /\ Amount * Cardinality(Unreverted) \in Nat /\ Amount * Cardinality(FinalEvents) \in Nat
      /\ Amount * Cardinality(MissingEvents) \in Nat
      /\ \A final : Amount * Cardinality(YoungCredits(final)) \in Nat
  BY <1>1, Worth
<1>3. available + spent + insurance = Amount * Cardinality(Unreverted)
  BY DEF ReportInv, IInv, BooksInv, LedgerMatchesFacts
<1>4. InternalTotal = Amount * Cardinality(Unreverted) - Cardinality(SettledNonces)
  <2>1. available \in Int /\ spent \in Int /\ insurance \in Int
    BY AmountAssumption, BoundsAssumption DEF ReportInv, IInv, BooksInv, BooksTypeOK
  <2>2. PICK x \in Nat, k \in Nat :
          x = Amount * Cardinality(Unreverted) /\ k = Cardinality(SettledNonces)
    BY <1>1, <1>2
  <2>3. InternalTotal = available + spent + insurance - k
    BY <2>2 DEF InternalTotal, SettledNonces
  <2>4. InternalTotal = x - k
    BY <1>3, <2>1, <2>2, <2>3
  <2> QED
    BY <2>2, <2>4
<1>5. FinalizedBalance = Amount * Cardinality(FinalEvents) - Cardinality(PaidNonces)
  BY DEF FinalizedBalance, FinalEvents, PaidNonces
<1>6. WithdrawnNotRecognised = Cardinality(UnrecognisedNonces)
  BY DEF WithdrawnNotRecognised, UnrecognisedNonces
<1>7. DepositsNotIngested = Amount * Cardinality(MissingEvents)
  BY DEF DepositsNotIngested, MissingEvents
<1>8. \A final : ProvisionalCredits(final) = Amount * Cardinality(YoungCredits(final))
  BY DEF ProvisionalCredits, YoungCredits
<1> QED
  BY <1>1, <1>2, <1>4, <1>5, <1>6, <1>7, <1>8

\* A credit is on a final block or on a younger one, and a final deposit is
\* credited or missing.
LEMMA DepositsBalance ==
  ASSUME ReportInv, \A s \in Unreverted : log[s].live
  PROVE  Amount * Cardinality(Unreverted) - Amount * Cardinality(FinalEvents)
           = Amount * Cardinality(YoungCredits(finalHeight)) - Amount * Cardinality(MissingEvents)
<1> DEFINE Old == Unreverted \intersect FinalEvents
<1>1. /\ Unreverted \subseteq Seqs /\ finalHeight \in Nat
      /\ \A s \in Seqs : log[s].height \in Nat
  BY SeqsFacts DEF ReportInv, IInv, BooksInv, RowsAreLogged, Unreverted, Events, Heights
<1>2. Unreverted \ FinalEvents = YoungCredits(finalHeight)
  BY <1>1 DEF FinalEvents, Finalized, YoungCredits
<1>3. FinalEvents \ Unreverted = MissingEvents
  <2>1. ASSUME NEW s \in FinalEvents, s \notin Unreverted, NEW t \in Unreverted
        PROVE  log[t].fact # log[s].fact
    BY <1>1, <2>1 DEF ReportInv, IInv, ChainInv, OneEventPerDeposit, FinalEvents, Finalized
  <2> QED
    BY <2>1 DEF FinalEvents, MissingEvents
<1>4. FinalEvents \intersect Unreverted = Old
  OBVIOUS
<1>5. PICK o \in Nat, y \in Nat, m \in Nat :
        /\ Cardinality(YoungCredits(finalHeight)) = y /\ Cardinality(MissingEvents) = m
        /\ Cardinality(Unreverted) = o + y /\ Cardinality(FinalEvents) = o + m
  <2>1. /\ Cardinality(Old) \in Nat /\ Cardinality(YoungCredits(finalHeight)) \in Nat
        /\ Cardinality(Unreverted) = Cardinality(Old) + Cardinality(YoungCredits(finalHeight))
    BY <1>2, SetsAreFinite, SplitCount
  <2>2. /\ Cardinality(MissingEvents) \in Nat
        /\ Cardinality(FinalEvents) = Cardinality(Old) + Cardinality(MissingEvents)
    BY <1>3, <1>4, SetsAreFinite, SplitCount
  <2> QED
    BY <2>1, <2>2
<1>6. /\ Amount * (o + y) = Amount * o + Amount * y /\ Amount * (o + m) = Amount * o + Amount * m
      /\ Amount * o \in Nat /\ Amount * y \in Nat /\ Amount * m \in Nat
  BY WorthTogether
<1> QED
  BY <1>5, <1>6

\* A payout is recognised or still in flight.
LEMMA PayoutsBalance ==
  ASSUME ReportInv
  PROVE  Cardinality(PaidNonces) = Cardinality(SettledNonces) + Cardinality(UnrecognisedNonces)
<1>1. PaidNonces \intersect SettledNonces = SettledNonces
  BY DEF ReportInv, PayoutsAreBooked, PaidNonces, SettledNonces
<1>2. PaidNonces \ SettledNonces = UnrecognisedNonces
  BY DEF ReportInv, PayoutsAreBooked, PaidNonces, SettledNonces, UnrecognisedNonces, InFlight
<1> QED
  BY <1>1, <1>2, SetsAreFinite, SplitCount

\* The reconciliation identity of one snapshot.
LEMMA Identity ==
  ASSUME ReportInv
  PROVE  SnapshotIsExplained
<1> SUFFICES ASSUME \A s \in Unreverted : log[s].live
             PROVE  InternalTotal - FinalizedBalance =
                      WithdrawnNotRecognised - DepositsNotIngested + ProvisionalCredits(finalHeight)
  BY DEF SnapshotIsExplained
<1> DEFINE u == Amount * Cardinality(Unreverted)
           f == Amount * Cardinality(FinalEvents)
           y == Amount * Cardinality(YoungCredits(finalHeight))
           m == Amount * Cardinality(MissingEvents)
           a == Cardinality(SettledNonces)
           b == Cardinality(PaidNonces)
           c == Cardinality(UnrecognisedNonces)
<1>1. u - f = y - m /\ b = a + c
  BY DepositsBalance, PayoutsBalance
<1>2. /\ InternalTotal = u - a /\ FinalizedBalance = f - b /\ WithdrawnNotRecognised = c
      /\ DepositsNotIngested = m /\ ProvisionalCredits(finalHeight) = y
  BY TermsAreIntegers
<1>3. /\ u \in Nat /\ f \in Nat /\ y \in Nat /\ m \in Nat /\ a \in Nat /\ b \in Nat /\ c \in Nat
  BY SetsAreFinite, FS_CardinalityType, Worth
<1> HIDE DEF u, f, y, m, a, b, c
<1> QED
  BY <1>1, <1>2, <1>3

-----------------------------------------------------------------------------
(* Every step *)

\* Seen from the inbox, a step of the reconciler's model is one of Inbox, a
\* stutter, or a crash.
LEMMA InboxStandsFirm ==
  ASSUME IInv, AuditNext
  PROVE  IInv'
<1>1. ASSUME [Next]_vars
      PROVE  IInv'
  BY <1>1, StepHolds
<1>2. ASSUME NEW p \in Inboxes, InboxPass(p)
      PROVE  IInv'
  BY <1>1, <1>2 DEF InboxPass, Next
<1>3. ASSUME NEW p \in Reconcilers, ReconcilePass(p)
      PROVE  IInv'
  <2>1. Reconcile(p) \/ UNCHANGED vars
    BY <1>3 DEF ReconcilePass, ReadLedger, ReadVault, ReadInFlight, ReadStatus, ReadFacts,
           ReadMissing, ReadProvisional, Heal, Report, Reconcile
  <2> QED
    BY <1>1, <2>1 DEF Next
<1>4. ASSUME NEW p \in Workers, Restart(p)
      PROVE  IInv'
  BY <1>4, CrashKeeps DEF Restart
<1>5. CASE \E d \in Deposits : BetweenTicks /\ MakeDeposit(d) /\ UNCHANGED auditVars
  BY <1>1, <1>5 DEF Next
<1>6. CASE BetweenTicks /\ \E n \in Nonces : Reserve(n) \/ Recognise(n) \/ Refund(n)
  BY <1>1, <1>6 DEF Reserve, Recognise, Refund, Next
<1>7. CASE BetweenTicks /\ Trade
  BY <1>1, <1>7 DEF Trade, Next
<1>8. CASE BetweenTicks /\ Block
  BY <1>1, <1>8 DEF Block, Next
<1> QED
  BY <1>2, <1>3, <1>4, <1>5, <1>6, <1>7, <1>8 DEF AuditNext

\* The steps that touch withdrawals.
LEMMA BooksAndPayouts ==
  ASSUME ReportInv, AuditNext
  PROVE  /\ book' \in [Nonces -> {"none", "reserved", "settled", "refunded"}]
         /\ paid' \in [Nonces -> BOOLEAN]
         /\ PayoutsAreBooked'
<1>1. ReportTypeOK /\ PayoutsAreBooked
  BY DEF ReportInv
<1>2. CASE UNCHANGED <<book, paid>>
  BY <1>1, <1>2 DEF ReportTypeOK, PayoutsAreBooked
<1>3. ASSUME NEW n \in Nonces, Reserve(n)
      PROVE  /\ book' \in [Nonces -> {"none", "reserved", "settled", "refunded"}]
             /\ paid' \in [Nonces -> BOOLEAN]
             /\ PayoutsAreBooked'
  BY <1>1, <1>3 DEF Reserve, Withdrawal!Reserve, ReportTypeOK, PayoutsAreBooked
<1>4. ASSUME NEW n \in Nonces, Recognise(n)
      PROVE  /\ book' \in [Nonces -> {"none", "reserved", "settled", "refunded"}]
             /\ paid' \in [Nonces -> BOOLEAN]
             /\ PayoutsAreBooked'
  BY <1>1, <1>4 DEF Recognise, Withdrawal!Recognise, ReportTypeOK, PayoutsAreBooked
<1>5. ASSUME NEW n \in Nonces, Refund(n)
      PROVE  /\ book' \in [Nonces -> {"none", "reserved", "settled", "refunded"}]
             /\ paid' \in [Nonces -> BOOLEAN]
             /\ PayoutsAreBooked'
  BY <1>1, <1>5 DEF Refund, Withdrawal!Refund, ReportTypeOK, PayoutsAreBooked
<1>6. CASE Block
  <2>1. PICK S \in SUBSET Nonces : Withdrawal!PayOut(S)
    BY <1>6 DEF Block
  <2> QED
    BY <1>1, <2>1 DEF Withdrawal!PayOut, ReportTypeOK, PayoutsAreBooked
<1>7. CASE (\E p \in Inboxes : InboxPass(p)) \/ (\E p \in Reconcilers : ReconcilePass(p))
  BY <1>2, <1>7 DEF InboxPass, ReconcilePass, ReadLedger, ReadVault, ReadInFlight, ReadStatus,
         ReadFacts, ReadMissing, ReadProvisional, Heal, Report, Read, auditVars
<1>8. CASE \/ \E d \in Deposits : BetweenTicks /\ MakeDeposit(d) /\ UNCHANGED auditVars
           \/ BetweenTicks /\ Trade
           \/ \E p \in Workers : Restart(p)
  BY <1>2, <1>8 DEF Trade, Restart, Read, auditVars
<1> QED
  BY <1>3, <1>4, <1>5, <1>6, <1>7, <1>8 DEF AuditNext

\* A pass's next record of what it has read.
LEMMA AuditUpdates ==
  ASSUME NEW p \in Workers, NEW a \in Audits, audit \in [Workers -> Audits],
         audit' = [audit EXCEPT ![p] = a]
  PROVE  /\ audit' \in [Workers -> Audits] /\ audit'[p] = a
         /\ \A q \in Workers \ {p} : audit'[q] = audit[q]
  OBVIOUS

\* A pass that has not begun has read nothing.
LEMMA NoAuditIsOne == NoAudit \in Audits
  BY BoundsAssumption DEF NoAudit, Audits, Heights

\* What a pass holds after FindMissing.
LEMMA FoundMissing ==
  ASSUME IInv, NEW p \in Workers, FindMissing(p)
  PROVE  /\ worker'[p].todo = {s \in Seqs : /\ Finalized(s)
                                            /\ \A t \in worker[p].todo : log[t].fact # log[s].fact}
         /\ worker'[p].at \in {"idle", "heal"}
<1> DEFINE known == {log[s].fact : s \in worker[p].todo}
           missing == {s \in Seqs : Finalized(s) /\ log[s].fact \notin known}
<1>1. missing = {s \in Seqs : Finalized(s) /\ \A t \in worker[p].todo : log[t].fact # log[s].fact}
  OBVIOUS
<1>2. worker \in [Workers -> Memory] /\ missing \in SUBSET EventIds
  BY SeqsFacts DEF IInv, PassesInv
<1>3. worker' = [worker EXCEPT ![p] = IF missing = {} THEN Idle ELSE At("heal", missing)]
  BY DEF FindMissing, Only, Become
<1>4. CASE missing = {}
  <2>1. worker'[p] = Idle
    BY <1>2, <1>3, <1>4
  <2> QED
    BY <1>1, <1>4, <2>1 DEF Idle, At
<1>5. CASE missing # {}
  <2>1. worker'[p] = At("heal", missing)
    BY <1>2, <1>3, <1>5
  <2> QED
    BY <1>1, <2>1 DEF At
<1> QED
  BY <1>4, <1>5

\* What one read adds to a pass's record leaves it a record.
LEMMA RecordsStay ==
  ASSUME NEW a \in Audits,
         NEW at \in {"vault", "inflight", "status", "facts", "provisional", "report"}
  PROVE  /\ \A r \in Int : [a EXCEPT !.at = at, !.residue = r] \in Audits
         /\ \A r \in Int, f \in Heights :
              [a EXCEPT !.at = at, !.residue = r, !.final = f] \in Audits
         /\ \A todo \in SUBSET Nonces : [a EXCEPT !.at = at, !.todo = todo] \in Audits
         /\ \A todo \in SUBSET Nonces, r \in Int :
              [a EXCEPT !.at = at, !.todo = todo, !.residue = r] \in Audits
BY DEF Audits

\* Every pass's record stays one.
LEMMA AuditsKeepType ==
  ASSUME ReportInv, AuditNext
  PROVE  audit' \in [Workers -> Audits]
<1>1. /\ audit \in [Workers -> Audits] /\ finalHeight \in Heights
      /\ InternalTotal \in Int /\ FinalizedBalance \in Int
      /\ \A final : ProvisionalCredits(final) \in Int
  BY TermsAreIntegers DEF ReportInv, ReportTypeOK, IInv, ChainInv, ChainTypeOK
<1>2. InFlight \in SUBSET Nonces
  BY DEF InFlight
<1>3. ASSUME NEW p \in Workers, NEW a \in Audits, audit' = [audit EXCEPT ![p] = a]
      PROVE  audit' \in [Workers -> Audits]
  BY <1>1, <1>3
<1>4. ASSUME NEW p \in Reconcilers, ReconcilePass(p)
      PROVE  audit' \in [Workers -> Audits]
  <2> DEFINE a == audit[p]
  <2>1. p \in Workers /\ a \in Audits
    BY <1>1 DEF Workers
  <2>2. /\ a.residue \in Int /\ a.todo \in SUBSET Nonces /\ a.final \in Heights
    BY <2>1 DEF Audits
  <2>3. CASE UNCHANGED audit
    BY <1>1, <2>3
  <2>4. CASE ReadLedger(p)
    <3>1. PICK r \in Int : r = InternalTotal
      BY <1>1
    <3>2. audit' = [audit EXCEPT ![p] = [a EXCEPT !.at = "vault", !.residue = r]]
      BY <2>4, <3>1 DEF ReadLedger, Read
    <3>3. [a EXCEPT !.at = "vault", !.residue = r] \in Audits
      BY <2>1, RecordsStay
    <3> QED
      BY <1>3, <2>1, <3>2, <3>3
  <2>5. CASE ReadVault(p)
    <3>1. PICK r \in Int : r = a.residue - FinalizedBalance
      BY <1>1, <2>2
    <3>2. audit' = [audit EXCEPT ![p] =
                     [a EXCEPT !.at = "inflight", !.residue = r, !.final = finalHeight]]
      BY <1>1, <2>1, <2>5, <3>1 DEF ReadVault, Read
    <3>3. [a EXCEPT !.at = "inflight", !.residue = r, !.final = finalHeight] \in Audits
      BY <1>1, <2>1, RecordsStay
    <3> QED
      BY <1>3, <2>1, <3>2, <3>3
  <2>6. CASE ReadInFlight(p)
    <3>1. PICK at \in {"facts", "status"} : at = IF InFlight = {} THEN "facts" ELSE "status"
      OBVIOUS
    <3>2. audit' = [audit EXCEPT ![p] = [a EXCEPT !.at = at, !.todo = InFlight]]
      BY <2>6, <3>1 DEF ReadInFlight, Read
    <3>3. [a EXCEPT !.at = at, !.todo = InFlight] \in Audits
      BY <1>2, <2>1, RecordsStay
    <3> QED
      BY <1>3, <2>1, <3>2, <3>3
  <2>7. CASE \E n \in Nonces : ReadStatus(p, n)
    <3>1. PICK n \in Nonces : ReadStatus(p, n)
      BY <2>7
    <3> DEFINE rest == a.todo \ {n}
    <3>2. PICK at \in {"facts", "status"} : at = IF rest = {} THEN "facts" ELSE "status"
      OBVIOUS
    <3>3. PICK r \in Int : r = IF paid[n] THEN a.residue - 1 ELSE a.residue
      BY <2>2
    <3>4. audit' = [audit EXCEPT ![p] = [a EXCEPT !.at = at, !.todo = rest, !.residue = r]]
      BY <1>1, <2>1, <3>1, <3>2, <3>3 DEF ReadStatus, Read
    <3>5. [a EXCEPT !.at = at, !.todo = rest, !.residue = r] \in Audits
      BY <2>1, <2>2, RecordsStay
    <3> QED
      BY <1>3, <2>1, <3>4, <3>5
  <2>8. CASE ReadMissing(p)
    <3>1. PICK k \in Nat : k = Cardinality(worker'[p].todo)
      <4>1. IInv /\ FindMissing(p)
        BY <2>8 DEF ReportInv, ReadMissing
      <4>2. worker'[p].todo \in SUBSET Seqs
        BY <2>1, <4>1, FoundMissing
      <4>3. IsFiniteSet(Seqs)
        <5>1. Seqs = 1..Len(log) /\ Len(log) \in Nat
          BY <4>1, SeqsFacts DEF IInv
        <5> QED
          BY <5>1, FS_Interval
      <4> QED
        BY <4>2, <4>3, FS_Subset, FS_CardinalityType
    <3>2. PICK x \in Nat : x = Amount * Cardinality(worker'[p].todo)
      BY <3>1, Worth
    <3>3. PICK r \in Int : r = a.residue + x
      BY <2>2, <3>2
    <3>4. audit' = [audit EXCEPT ![p] = [a EXCEPT !.at = "provisional", !.residue = r]]
      BY <1>1, <2>1, <2>8, <3>2, <3>3 DEF ReadMissing, Read
    <3>5. [a EXCEPT !.at = "provisional", !.residue = r] \in Audits
      BY <2>1, RecordsStay
    <3> QED
      BY <1>3, <2>1, <3>4, <3>5
  <2>9. CASE ReadProvisional(p)
    <3>1. PICK r \in Int : r = a.residue - ProvisionalCredits(a.final)
      BY <1>1, <2>2
    <3>2. audit' = [audit EXCEPT ![p] = [a EXCEPT !.at = "report", !.residue = r]]
      BY <1>1, <2>1, <2>9, <3>1 DEF ReadProvisional, Read
    <3>3. [a EXCEPT !.at = "report", !.residue = r] \in Audits
      BY <2>1, RecordsStay
    <3> QED
      BY <1>3, <2>1, <3>2, <3>3
  <2>10. CASE Report(p)
    BY <1>3, <2>1, <2>10, NoAuditIsOne DEF Report
  <2> QED
    BY <1>4, <2>3, <2>4, <2>5, <2>6, <2>7, <2>8, <2>9, <2>10
       DEF ReconcilePass, ReadFacts, Heal, auditVars
<1>5. ASSUME NEW p \in Workers, Restart(p)
      PROVE  audit' \in [Workers -> Audits]
  BY <1>3, <1>5, NoAuditIsOne DEF Restart, Read
<1>6. CASE UNCHANGED audit
  BY <1>1, <1>6
<1> QED
  BY <1>4, <1>5, <1>6 DEF AuditNext, InboxPass, Reserve, Recognise, Refund, Trade, Block, auditVars

\* Every step of the reconciler's model keeps the invariant.
LEMMA ReportStep ==
  ASSUME ReportInv, [AuditNext]_allVars
  PROVE  ReportInv'
<1>1. CASE UNCHANGED allVars
  <2>1. IInv'
    BY <1>1, StepHolds DEF ReportInv, allVars
  <2> QED
    BY <1>1, <2>1 DEF ReportInv, ReportTypeOK, PayoutsAreBooked, allVars, auditVars
<1>2. CASE AuditNext
  <2>1. halted' \in BOOLEAN
    BY <1>2 DEF ReportInv, ReportTypeOK, AuditNext, InboxPass, ReconcilePass, ReadLedger, ReadVault,
           ReadInFlight, ReadStatus, ReadFacts, ReadMissing, ReadProvisional, Heal, Report, Read,
           Reserve, Recognise, Refund, Trade, Block, Restart, auditVars
  <2>2. IInv'
    BY <1>2, InboxStandsFirm DEF ReportInv
  <2> QED
    BY <1>2, <2>1, <2>2, BooksAndPayouts, AuditsKeepType DEF ReportInv, ReportTypeOK
<1> QED
  BY <1>1, <1>2

\* It holds at first.
LEMMA ReportInit == AuditInit => ReportInv
<1> SUFFICES ASSUME AuditInit
             PROVE  ReportInv
  OBVIOUS
<1>1. IInv
  BY InitHolds DEF AuditInit
<1> QED
  BY <1>1, NoAuditIsOne DEF AuditInit, Withdrawal!Init, ReportInv, ReportTypeOK, PayoutsAreBooked

-----------------------------------------------------------------------------
(* The theorems *)

\* Whatever the loops, users, blocks, reorgs and crashes do, the inbox keeps
\* its invariant and only reserved funds are paid out.
THEOREM AuditInvariance == AuditSpec => []ReportInv
<1>1. AuditInit => ReportInv
  BY ReportInit
<1>2. ReportInv /\ [AuditNext]_allVars => ReportInv'
  BY ReportStep
<1> QED
  BY <1>1, <1>2, PTL DEF AuditSpec

\* The types of the reconciler's reads, its flag and the books
\* (internal/app/reconcile.go).
THEOREM AuditTypeCorrect == AuditSpec => []AuditTypeOK
<1>1. ReportInv => AuditTypeOK
  BY DEF IInv, ChainInv, BooksInv, BooksTypeOK, PassesInv, TypeOK, ReportInv, ReportTypeOK,
         AuditTypeOK
<1> QED
  BY <1>1, AuditInvariance, PTL

\* The reconciliation identity of internal/app/reconcile.go: in every state
\* whose credits are all on canonical blocks, ledger and vault differ by
\* exactly what was paid and not recognised, deposited and not ingested, and
\* credited before it was final.
THEOREM IdentityHolds == AuditSpec => []SnapshotIsExplained
<1>1. ReportInv => SnapshotIsExplained
  BY Identity
<1> QED
  BY <1>1, AuditInvariance, PTL
=============================================================================
