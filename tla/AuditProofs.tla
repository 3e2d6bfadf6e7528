---------------------------- MODULE AuditProofs -----------------------------
(***************************************************************************)
(* The reconciler's arithmetic is exact when loops and blocks take turns,  *)
(* for any deposits, withdrawals, loops, amounts and bounds.               *)
(***************************************************************************)
EXTENDS ReconciliationProofs

-----------------------------------------------------------------------------
(* The inductive invariant *)

\* Credits on orphaned blocks.
Loose == {s \in Unreverted : ~log[s].live}

\* What settleFacts remembers leads it to every such credit.
Covers(w, loose) ==
  /\ w.at \in {"check", "canonical", "mark", "balance", "post"} =>
       \A s \in loose : s \in w.todo \/ log[s].block \in w.bad
  /\ w.at = "revert" => \A s \in loose : log[s].block \in w.bad
  /\ w.at = "applied" => loose = {}

\* The in-flight payouts a pass has looked up.
LookedUp(a) == {n \in InFlight : n \notin a.todo /\ paid[n]}

\* The terms a pass has read are those of now, and the step it is at says
\* which ones.
Explains(w, a) ==
  /\ a.at \in {"vault", "inflight", "status"} => w.at = "applied"
  /\ a.at = "facts" => w.at = "applied" \/ (w.at = "missing" /\ w.todo = Unreverted)
  /\ a.at \in {"vault", "inflight", "status", "facts", "provisional"} => Loose = {}
  /\ a.at \in {"inflight", "status", "facts", "provisional"} => a.final = finalHeight
  /\ a.at = "status" => a.todo \subseteq InFlight
  /\ a.at = "vault" => a.residue = InternalTotal
  /\ a.at = "inflight" => a.residue = InternalTotal - FinalizedBalance
  /\ a.at = "status" => a.residue = InternalTotal - FinalizedBalance - Cardinality(LookedUp(a))
  /\ a.at = "facts" => a.residue = InternalTotal - FinalizedBalance - WithdrawnNotRecognised
  /\ a.at = "provisional" =>
       a.residue = InternalTotal - FinalizedBalance - WithdrawnNotRecognised + DepositsNotIngested
  /\ a.at = "report" => a.residue = 0

Exclusive == \A p, q \in Workers : p = q \/ Resting(p) \/ Resting(q)

TurnInv ==
  /\ Exclusive
  /\ \A p \in Inboxes : audit[p].at = "start"
  /\ \A p \in Workers : Covers(worker[p], Loose) /\ Explains(worker[p], audit[p])

-----------------------------------------------------------------------------
(* settleFacts leaves no credit on an orphaned block *)

\* Whatever settleFacts goes on with, it keeps what it has to remember.
LEMMA ContinueCovers ==
  ASSUME NEW p, NEW step \in {"check", "balance"}, NEW todo, NEW bad, NEW loose,
         \A s \in loose : s \in todo \/ log[s].block \in bad
  PROVE  Covers(Continue(p, step, todo, bad), loose)
<1>1. CASE todo # {}
  <2> DEFINE w == [At(step, todo) EXCEPT !.bad = bad]
  <2>1. w.at = step /\ w.todo = todo /\ w.bad = bad
    BY DEF At
  <2>2. Covers(w, loose)
    BY <2>1 DEF Covers
  <2> QED
    BY <1>1, <2>2 DEF Continue
<1>2. CASE todo = {} /\ bad # {}
  <2> DEFINE w == [At("revert", {}) EXCEPT !.bad = bad]
  <2>1. w.at = "revert" /\ w.bad = bad
    BY DEF At
  <2>2. Covers(w, loose)
    BY <1>2, <2>1 DEF Covers
  <2> QED
    BY <1>2, <2>2 DEF Continue
<1>3. CASE todo = {} /\ bad = {}
  <2>1. loose = {}
    BY <1>3
  <2>2. Settled(p).at \in {"applied", "cursor"}
    BY DEF Settled, At
  <2> QED
    BY <1>3, <2>1, <2>2 DEF Continue, Covers
<1> QED
  BY <1>1, <1>2, <1>3

\* A step of settleFacts.
LEMMA SettleCovers ==
  ASSUME IInv, NEW p \in Workers, Covers(worker[p], Loose), SettleFacts(p)
  PROVE  Covers(worker[p], Loose)'
<1> DEFINE m == worker[p]
<1>1. /\ ChainInv /\ BooksInv /\ worker \in [Workers -> Memory] /\ Sound(m)
      /\ \A s \in Unreverted : s \in Seqs /\ log[s].live \in BOOLEAN
  BY SeqsFacts DEF IInv, PassesInv, BooksInv, RowsAreLogged, Unreverted, Events
<1>2. log' = log
  BY DEF SettleFacts, ListProvisional, CheckStatus, CheckCanonical, Promote, ListBlock, ReadBalance,
         PostReversal, ReversalFails, Only, chainVars
<1>3. ASSUME NEW w, NEW loose, worker' = [worker EXCEPT ![p] = w], Loose' = loose, Covers(w, loose)
      PROVE  Covers(worker[p], Loose)'
  BY <1>1, <1>2, <1>3 DEF Covers
<1>4. ASSUME NEW w, Only(p, w), Covers(w, Loose)
      PROVE  Covers(worker[p], Loose)'
  <2>1. Loose' = Loose
    BY <1>4 DEF Only, Loose, Unreverted, chainVars, dbVars
  <2> QED
    BY <1>3, <1>4, <2>1 DEF Only, Become
<1>5. CASE ListProvisional(p)
  <2> DEFINE todo == {s \in EventIds : facts[s] = "provisional"}
  <2>1. Loose \subseteq todo
    BY <1>1 DEF Loose, Unreverted, BooksInv, FinalFactsAreReal, IsFinal
  <2>2. Covers(Continue(p, "check", todo, {}), Loose)
    BY <2>1, ContinueCovers
  <2> QED
    BY <1>4, <1>5, <2>2 DEF ListProvisional
<1>6. ASSUME NEW s \in EventIds, CheckStatus(p, s)
      PROVE  Covers(worker[p], Loose)'
  <2>1. m.at = "check" /\ \A t \in Loose : t \in m.todo \/ log[t].block \in m.bad
    BY <1>6 DEF CheckStatus, Covers
  <2>2. CASE Processed(s)
    <3> DEFINE w == [m EXCEPT !.at = "canonical", !.ev = s, !.final = Finalized(s)]
    <3>1. m \in Memory
      BY <1>1
    <3>2. w.at = "canonical" /\ w.todo = m.todo /\ w.bad = m.bad
      BY <3>1 DEF Memory
    <3>3. Covers(w, Loose)
      BY <2>1, <3>2 DEF Covers
    <3> QED
      BY <1>4, <1>6, <2>2, <3>3 DEF CheckStatus
  <2>3. CASE ~Processed(s)
    <3> DEFINE w == Continue(p, "check", m.todo \ {s}, m.bad \union {log[s].block})
    <3>1. Covers(w, Loose)
      BY <2>1, ContinueCovers
    <3>2. Only(p, w)
      BY <1>6, <2>3 DEF CheckStatus
    <3> QED
      BY <1>4, <3>1, <3>2
  <2> QED
    BY <2>2, <2>3
<1>7. CASE CheckCanonical(p)
  <2> DEFINE s == m.ev
             rest == m.todo \ {s}
  <2>1. m.at = "canonical" /\ \A t \in Loose : t \in m.todo \/ log[t].block \in m.bad
    BY <1>7 DEF CheckCanonical, Covers
  <2>2. CASE ~Canonical(s)
    <3> DEFINE w == Continue(p, "check", rest, m.bad \union {log[s].block})
    <3>1. Covers(w, Loose)
      BY <2>1, ContinueCovers
    <3>2. Only(p, w)
      BY <1>7, <2>2 DEF CheckCanonical
    <3> QED
      BY <1>4, <3>1, <3>2
  <2>3. CASE Canonical(s) /\ m.final
    <3> DEFINE w == [m EXCEPT !.at = "mark"]
    <3>1. m \in Memory
      BY <1>1
    <3>2. w.at = "mark" /\ w.todo = m.todo /\ w.bad = m.bad
      BY <3>1 DEF Memory
    <3>3. Covers(w, Loose)
      BY <2>1, <3>2 DEF Covers
    <3> QED
      BY <1>4, <1>7, <2>3, <3>3 DEF CheckCanonical
  <2>4. CASE Canonical(s) /\ ~m.final
    <3> DEFINE w == Continue(p, "check", rest, m.bad)
    <3>1. s \notin Loose
      BY <2>4 DEF Canonical, Loose
    <3>2. \A t \in Loose : t \in rest \/ log[t].block \in m.bad
      BY <2>1, <3>1
    <3>3. Covers(w, Loose)
      BY <3>2, ContinueCovers
    <3>4. Only(p, w)
      BY <1>7, <2>4 DEF CheckCanonical
    <3> QED
      BY <1>4, <3>3, <3>4
  <2> QED
    BY <2>2, <2>3, <2>4
<1>8. CASE Promote(p)
  <2> DEFINE w == Continue(p, "check", m.todo \ {m.ev}, m.bad)
  <2>1. /\ m.at = "mark" /\ IsFinal(m.ev)
        /\ \A t \in Loose : t \in m.todo \/ log[t].block \in m.bad
    BY <1>1, <1>8 DEF Promote, Covers, Sound
  <2>2. m.ev \notin Loose
    BY <2>1 DEF IsFinal, Loose
  <2>3. Covers(w, Loose)
    BY <2>1, <2>2, ContinueCovers
  <2>4. Loose' = Loose
    <3>1. facts' = [facts EXCEPT ![m.ev] = IF @ = "provisional" THEN "final" ELSE @]
      BY <1>8 DEF Promote, MarkFactFinalized
    <3>2. \A s \in EventIds : facts'[s] \in {"provisional", "final"}
                              <=> facts[s] \in {"provisional", "final"}
      BY <1>1, <3>1 DEF BooksInv, BooksTypeOK
    <3> QED
      BY <1>2, <3>2 DEF Loose, Unreverted
  <2> QED
    BY <1>3, <1>8, <2>3, <2>4 DEF Promote, Become
<1>9. ASSUME NEW b \in EventIds, ListBlock(p, b)
      PROVE  Covers(worker[p], Loose)'
  <2> DEFINE todo == {s \in Unreverted : log[s].block = b}
             w == Continue(p, "balance", todo, m.bad \ {b})
  <2>1. m.at = "revert" /\ \A t \in Loose : log[t].block \in m.bad
    BY <1>9 DEF ListBlock, Covers
  <2>2. \A t \in Loose : t \in todo \/ log[t].block \in m.bad \ {b}
    BY <2>1 DEF Loose
  <2>3. Covers(w, Loose)
    BY <2>2, ContinueCovers
  <2> QED
    BY <1>4, <1>9, <2>3 DEF ListBlock
<1>10. ASSUME NEW s \in EventIds, ReadBalance(p, s)
       PROVE  Covers(worker[p], Loose)'
  <2> DEFINE w == [m EXCEPT !.at = "post", !.ev = s, !.avail = available]
  <2>1. m.at = "balance" /\ \A t \in Loose : t \in m.todo \/ log[t].block \in m.bad
    BY <1>10 DEF ReadBalance, Covers
  <2>2. w.at = "post" /\ w.todo = m.todo /\ w.bad = m.bad
    <3>1. m \in Memory
      BY <1>1
    <3> QED
      BY <3>1 DEF Memory
  <2>3. Covers(w, Loose)
    BY <2>1, <2>2 DEF Covers
  <2> QED
    BY <1>4, <1>10, <2>3 DEF ReadBalance
<1>11. CASE PostReversal(p)
  <2> DEFINE w == Continue(p, "balance", m.todo \ {m.ev}, m.bad)
  <2>1. /\ m.at = "post" /\ m.ev \in EventIds
        /\ \A t \in Loose : t \in m.todo \/ log[t].block \in m.bad
    BY <1>1, <1>11, SeqsFacts DEF PostReversal, Covers, Sound, Compensable
  <2>2. /\ facts'[m.ev] = "reverted"
        /\ \A s \in EventIds : facts'[s] = facts[s] \/ facts'[s] = "reverted"
    <3>1. facts \in [EventIds -> FactStates]
      BY <1>1 DEF BooksInv, BooksTypeOK
    <3> QED
      BY <1>11, <2>1, <3>1 DEF PostReversal, RevertFact
  <2>3. PICK loose : loose = Loose'
    OBVIOUS
  <2>4. loose \subseteq Loose \ {m.ev}
    BY <1>2, <2>2, <2>3 DEF Loose, Unreverted
  <2>5. Covers(w, loose)
    BY <2>1, <2>4, ContinueCovers
  <2> QED
    BY <1>3, <1>11, <2>3, <2>5 DEF PostReversal, Become
<1>12. CASE ReversalFails(p)
  <2>1. Covers(Idle, Loose)
    BY DEF Covers, Idle, At
  <2> QED
    BY <1>4, <1>12, <2>1 DEF ReversalFails
<1> QED
  BY <1>5, <1>6, <1>7, <1>8, <1>9, <1>10, <1>11, <1>12 DEF SettleFacts

-----------------------------------------------------------------------------
(* The terms *)

\* The terms are functions of the ledger, the facts, the log and the payouts.
LEMMA TermsStand ==
  ASSUME UNCHANGED <<log, finalHeight, facts, available, spent, insurance, book, paid>>
  PROVE  /\ InternalTotal' = InternalTotal /\ FinalizedBalance' = FinalizedBalance
         /\ WithdrawnNotRecognised' = WithdrawnNotRecognised
         /\ DepositsNotIngested' = DepositsNotIngested
         /\ Unreverted' = Unreverted /\ Loose' = Loose /\ InFlight' = InFlight
         /\ \A a : LookedUp(a)' = LookedUp(a)
<1>1. Unreverted' = Unreverted /\ InFlight' = InFlight /\ Seqs' = Seqs
  BY DEF Unreverted, InFlight, Seqs
<1>2. \A s \in Seqs : Finalized(s)' <=> Finalized(s)
  BY DEF Finalized
<1>3. InternalTotal' = InternalTotal
  BY DEF InternalTotal
<1>4. FinalizedBalance' = FinalizedBalance
  BY <1>1, <1>2 DEF FinalizedBalance, Finalized
<1>5. WithdrawnNotRecognised' = WithdrawnNotRecognised
  BY <1>1 DEF WithdrawnNotRecognised
<1>6. DepositsNotIngested' = DepositsNotIngested
  BY <1>1 DEF DepositsNotIngested, Finalized
<1>7. Loose' = Loose /\ \A a : LookedUp(a)' = LookedUp(a)
  BY <1>1 DEF Loose, LookedUp
<1> QED
  BY <1>1, <1>3, <1>4, <1>5, <1>6, <1>7

\* One more status looked up.
LEMMA OneLookedUp ==
  ASSUME ReportInv, NEW a, NEW b, NEW n \in InFlight, n \in a.todo, b.todo = a.todo \ {n}
  PROVE  /\ Cardinality(LookedUp(a)) \in Nat
         /\ Cardinality(LookedUp(b)) = Cardinality(LookedUp(a)) + IF paid[n] THEN 1 ELSE 0
<1>1. IsFiniteSet(LookedUp(a))
  <2>1. LookedUp(a) \in SUBSET UnrecognisedNonces
    BY DEF LookedUp, UnrecognisedNonces
  <2> QED
    BY <2>1, SetsAreFinite, FS_Subset
<1>2. Cardinality(LookedUp(a)) \in Nat
  BY <1>1, FS_CardinalityType
<1>3. CASE paid[n]
  <2>1. LookedUp(b) = LookedUp(a) \union {n} /\ n \notin LookedUp(a)
    BY <1>3 DEF LookedUp
  <2> QED
    BY <1>1, <1>2, <1>3, <2>1, FS_AddElement
<1>4. CASE ~paid[n]
  <2>1. LookedUp(b) = LookedUp(a)
    BY <1>4 DEF LookedUp
  <2> QED
    BY <1>2, <1>4, <2>1
<1> QED
  BY <1>3, <1>4

\* All or none of the statuses looked up.
LEMMA AllOrNoneLookedUp ==
  ASSUME NEW a
  PROVE  /\ a.todo = {} => Cardinality(LookedUp(a)) = WithdrawnNotRecognised
         /\ a.todo = InFlight => Cardinality(LookedUp(a)) = 0
<1>1. ASSUME a.todo = {}
      PROVE  LookedUp(a) = {n \in InFlight : paid[n]}
  BY <1>1 DEF LookedUp
<1>2. ASSUME a.todo = InFlight
      PROVE  LookedUp(a) = {}
  BY <1>2 DEF LookedUp
<1> QED
  BY <1>1, <1>2, FS_EmptySet DEF WithdrawnNotRecognised

-----------------------------------------------------------------------------
(* The steps of a pass *)

\* What a pass has read is still so while ledger and chain stand still.
LEMMA ExplainsStands ==
  ASSUME NEW w, NEW a, Explains(w, a), NEW p, worker'[p] = w, audit'[p] = a,
         UNCHANGED <<log, finalHeight, facts, available, spent, insurance, book, paid>>
  PROVE  Explains(worker[p], audit[p])'
<1>1. /\ InternalTotal' = InternalTotal /\ FinalizedBalance' = FinalizedBalance
      /\ WithdrawnNotRecognised' = WithdrawnNotRecognised
      /\ DepositsNotIngested' = DepositsNotIngested
      /\ Unreverted' = Unreverted /\ Loose' = Loose /\ InFlight' = InFlight
      /\ finalHeight' = finalHeight
  BY TermsStand
<1>2. LookedUp(audit[p])' = LookedUp(a)
  <2>1. LookedUp(a)' = LookedUp(a)
    BY TermsStand
  <2>2. LookedUp(audit[p])' = LookedUp(a)'
    BY DEF LookedUp
  <2> QED
    BY <2>1, <2>2
<1> QED
  BY <1>1, <1>2 DEF Explains

\* A read that leaves the loop's memory and the database alone.
LEMMA ReadKeeps ==
  ASSUME ReportInv, NEW p \in Workers, NEW a, Covers(worker[p], Loose),
         Explains(worker[p], a), Read(p, a), UNCHANGED vars
  PROVE  Covers(worker[p], Loose)' /\ Explains(worker[p], audit[p])'
<1>1. /\ worker'[p] = worker[p] /\ audit'[p] = a
      /\ UNCHANGED <<log, finalHeight, facts, available, spent, insurance, book, paid>>
  BY DEF Read, vars, chainVars, dbVars, ReportInv, ReportTypeOK
<1>2. PICK w : w = worker[p]
  OBVIOUS
<1>3. Explains(worker[p], audit[p])'
  BY <1>1, <1>2, ExplainsStands
<1>4. Loose' = Loose
  BY <1>1, TermsStand
<1> QED
  BY <1>1, <1>3, <1>4 DEF Covers

\* The ledger's total, the vault's balance and the in-flight withdrawals.
LEMMA ReadingKeeps ==
  ASSUME ReportInv, NEW p \in Workers, Covers(worker[p], Loose), Explains(worker[p], audit[p]),
         ReadLedger(p) \/ ReadVault(p) \/ ReadInFlight(p)
  PROVE  Covers(worker[p], Loose)' /\ Explains(worker[p], audit[p])'
<1>1. PICK w : w = worker[p]
  OBVIOUS
<1>2. PICK x \in Audits : x = audit[p]
  BY DEF ReportInv, ReportTypeOK
<1>3. Covers(w, Loose) /\ Explains(w, x)
  BY <1>1, <1>2
<1>4. InternalTotal \in Int /\ FinalizedBalance \in Int
  BY TermsAreIntegers
<1>5. CASE ReadLedger(p)
  <2> DEFINE a == [x EXCEPT !.at = "vault", !.residue = InternalTotal]
  <2>1. w.at = "applied" /\ Read(p, a) /\ UNCHANGED vars
    BY <1>1, <1>2, <1>5 DEF ReadLedger
  <2>2. a.at = "vault" /\ a.residue = InternalTotal
    BY <1>2 DEF Audits
  <2>3. Explains(w, a)
    BY <1>3, <2>1, <2>2 DEF Explains, Covers
  <2> QED
    BY <1>1, <1>3, <2>1, <2>3, ReadKeeps
<1>6. CASE ReadVault(p)
  <2> DEFINE a == [x EXCEPT !.at = "inflight", !.residue = @ - FinalizedBalance,
                            !.final = finalHeight]
  <2>1. x.at = "vault" /\ Read(p, a) /\ UNCHANGED vars
    BY <1>1, <1>2, <1>6 DEF ReadVault
  <2>2. /\ a.at = "inflight" /\ a.residue = x.residue - FinalizedBalance
        /\ a.final = finalHeight
    BY <1>2 DEF Audits
  <2>3. Explains(w, a)
    BY <1>3, <2>1, <2>2 DEF Explains
  <2> QED
    BY <1>1, <1>3, <2>1, <2>3, ReadKeeps
<1>7. CASE ReadInFlight(p)
  <2> DEFINE a == [x EXCEPT !.at = IF InFlight = {} THEN "facts" ELSE "status", !.todo = InFlight]
  <2>1. x.at = "inflight" /\ Read(p, a) /\ UNCHANGED vars
    BY <1>1, <1>2, <1>7 DEF ReadInFlight
  <2>2. /\ a.at = IF InFlight = {} THEN "facts" ELSE "status"
        /\ a.residue = x.residue /\ a.final = x.final /\ a.todo = InFlight
    BY <1>2 DEF Audits
  <2>3. /\ Cardinality(LookedUp(a)) = 0
        /\ InFlight = {} => WithdrawnNotRecognised = 0
    BY <2>2, AllOrNoneLookedUp
  <2> HIDE DEF a
  <2>4. Explains(w, a)
    BY <1>3, <1>4, <2>1, <2>2, <2>3 DEF Explains
  <2> QED
    BY <1>1, <1>3, <2>1, <2>4, ReadKeeps
<1> QED
  BY <1>5, <1>6, <1>7

\* The status of one in-flight withdrawal.
LEMMA StatusKeeps ==
  ASSUME ReportInv, NEW p \in Workers, Covers(worker[p], Loose), Explains(worker[p], audit[p]),
         NEW n \in Nonces, ReadStatus(p, n)
  PROVE  Covers(worker[p], Loose)' /\ Explains(worker[p], audit[p])'
<1>1. PICK w : w = worker[p]
  OBVIOUS
<1>2. PICK x \in Audits : x = audit[p]
  BY DEF ReportInv, ReportTypeOK
<1>3. Covers(w, Loose) /\ Explains(w, x)
  BY <1>1, <1>2
<1>4. InternalTotal \in Int /\ FinalizedBalance \in Int /\ WithdrawnNotRecognised \in Int
  BY TermsAreIntegers
<1> DEFINE rest == x.todo \ {n}
           a == [x EXCEPT !.at = IF rest = {} THEN "facts" ELSE "status", !.todo = rest,
                          !.residue = IF paid[n] THEN @ - 1 ELSE @]
<1>5. x.at = "status" /\ n \in x.todo /\ Read(p, a) /\ UNCHANGED vars
  BY <1>2 DEF ReadStatus
<1>6. /\ a.at = IF rest = {} THEN "facts" ELSE "status"
      /\ a.residue = IF paid[n] THEN x.residue - 1 ELSE x.residue
      /\ a.final = x.final /\ a.todo = rest
  BY <1>2 DEF Audits
<1> HIDE DEF a
<1>7. n \in InFlight
  BY <1>3, <1>5 DEF Explains
<1>8. /\ Cardinality(LookedUp(x)) \in Nat
      /\ Cardinality(LookedUp(a)) = Cardinality(LookedUp(x)) + IF paid[n] THEN 1 ELSE 0
  BY <1>5, <1>6, <1>7, OneLookedUp
<1>9. rest = {} => Cardinality(LookedUp(a)) = WithdrawnNotRecognised
  BY <1>6, AllOrNoneLookedUp
<1>10. x.residue = InternalTotal - FinalizedBalance - Cardinality(LookedUp(x))
  BY <1>3, <1>5 DEF Explains
<1>11. a.residue = InternalTotal - FinalizedBalance - Cardinality(LookedUp(a))
  BY <1>4, <1>6, <1>8, <1>10
<1>12. Explains(w, a)
  BY <1>3, <1>5, <1>6, <1>9, <1>11 DEF Explains
<1> QED
  BY <1>1, <1>3, <1>5, <1>12, ReadKeeps

\* The applied facts, and the final deposits missing among them.
LEMMA FactsKeep ==
  ASSUME ReportInv, NEW p \in Workers, Covers(worker[p], Loose), Explains(worker[p], audit[p]),
         ReadFacts(p) \/ ReadMissing(p)
  PROVE  Covers(worker[p], Loose)' /\ Explains(worker[p], audit[p])'
<1>1. PICK w : w = worker[p]
  OBVIOUS
<1>2. PICK x \in Audits : x = audit[p]
  BY DEF ReportInv, ReportTypeOK
<1>3. Covers(w, Loose) /\ Explains(w, x) /\ worker \in [Workers -> Memory]
      /\ audit \in [Workers -> Audits]
  BY <1>1, <1>2 DEF ReportInv, ReportTypeOK, IInv, PassesInv
<1>4. /\ InternalTotal \in Int /\ FinalizedBalance \in Int /\ WithdrawnNotRecognised \in Int
      /\ DepositsNotIngested \in Int
  BY TermsAreIntegers
<1>5. CASE ReadFacts(p)
  <2> DEFINE v == At("missing", Unreverted)
  <2>1. x.at = "facts" /\ worker' = [worker EXCEPT ![p] = v] /\ UNCHANGED auditVars
        /\ UNCHANGED <<log, finalHeight, facts, available, spent, insurance>>
    BY <1>2, <1>5 DEF ReadFacts, ReadApplied, Only, Become, chainVars, dbVars
  <2>2. v.at = "missing" /\ v.todo = Unreverted
    BY DEF At
  <2> HIDE DEF v
  <2>3. Explains(v, x)
    BY <1>3, <2>1, <2>2 DEF Explains
  <2>4. worker'[p] = v /\ audit'[p] = x /\ UNCHANGED <<book, paid>>
    BY <1>2, <1>3, <2>1 DEF auditVars
  <2>5. Explains(worker[p], audit[p])'
    BY <2>1, <2>3, <2>4, ExplainsStands
  <2> QED
    BY <2>2, <2>4, <2>5 DEF Covers
<1>6. CASE ReadMissing(p)
  <2>1. x.at = "facts" /\ FindMissing(p) /\ w.at = "missing" /\ IInv
        /\ UNCHANGED <<log, finalHeight, facts, available, spent, insurance, book, paid>>
    BY <1>1, <1>2, <1>6
       DEF ReadMissing, FindMissing, Only, Read, chainVars, dbVars, ReportInv
  <2>2. w.todo = Unreverted
    BY <1>3, <2>1 DEF Explains
  <2>3. /\ worker'[p].todo = MissingEvents
        /\ worker'[p].at \in {"idle", "heal"}
    BY <1>1, <2>1, <2>2, FoundMissing DEF MissingEvents
  <2> DEFINE a == [x EXCEPT !.at = "provisional", !.residue = @ + DepositsNotIngested]
  <2>4. audit'[p] = a
    <3>1. Amount * Cardinality(worker'[p].todo) = DepositsNotIngested
      BY <2>3, TermsAreIntegers
    <3> QED
      BY <1>2, <1>3, <1>6, <3>1 DEF ReadMissing, Read
  <2>5. /\ a.at = "provisional" /\ a.residue = x.residue + DepositsNotIngested
        /\ a.final = x.final
    BY <1>2 DEF Audits
  <2> HIDE DEF a
  <2>6. PICK v : v = worker'[p]
    OBVIOUS
  <2>7. Explains(v, a)
    BY <1>3, <1>4, <2>1, <2>5 DEF Explains
  <2>8. Explains(worker[p], audit[p])'
    BY <2>1, <2>4, <2>6, <2>7, ExplainsStands
  <2> QED
    BY <2>3, <2>8 DEF Covers
<1> QED
  BY <1>5, <1>6

\* The provisional credits: what is left is nothing, by the identity.
LEMMA ProvisionalKeeps ==
  ASSUME ReportInv, NEW p \in Workers, Covers(worker[p], Loose), Explains(worker[p], audit[p]),
         ReadProvisional(p)
  PROVE  Covers(worker[p], Loose)' /\ Explains(worker[p], audit[p])'
<1>1. PICK w : w = worker[p]
  OBVIOUS
<1>2. PICK x \in Audits : x = audit[p]
  BY DEF ReportInv, ReportTypeOK
<1>3. Covers(w, Loose) /\ Explains(w, x) /\ x.at = "provisional"
  BY <1>1, <1>2 DEF ReadProvisional
<1> DEFINE a == [x EXCEPT !.at = "report", !.residue = @ - ProvisionalCredits(x.final)]
<1>4. Read(p, a) /\ UNCHANGED vars
  BY <1>2 DEF ReadProvisional
<1>5. a.at = "report" /\ a.residue = x.residue - ProvisionalCredits(x.final)
  BY <1>2 DEF Audits
<1> HIDE DEF a
<1>6. /\ InternalTotal - FinalizedBalance =
            WithdrawnNotRecognised - DepositsNotIngested + ProvisionalCredits(finalHeight)
      /\ x.final = finalHeight
  <2>1. \A s \in Unreverted : log[s].live
    BY <1>3 DEF Explains, Loose
  <2> QED
    BY <1>3, <2>1, Identity DEF SnapshotIsExplained, Explains
<1>7. /\ InternalTotal \in Int /\ FinalizedBalance \in Int /\ WithdrawnNotRecognised \in Int
      /\ DepositsNotIngested \in Int /\ ProvisionalCredits(finalHeight) \in Int
  BY TermsAreIntegers
<1>8. x.residue = InternalTotal - FinalizedBalance - WithdrawnNotRecognised + DepositsNotIngested
  BY <1>3 DEF Explains
<1>9. a.residue = 0
  BY <1>5, <1>6, <1>7, <1>8
<1>10. Explains(w, a)
  BY <1>5, <1>9 DEF Explains
<1> QED
  BY <1>1, <1>3, <1>4, <1>10, ReadKeeps

\* Healing and the report: the arithmetic is done.
LEMMA ReportingKeeps ==
  ASSUME ReportInv, NEW p \in Workers, Explains(worker[p], audit[p]),
         audit[p].at = "report", Heal(p) \/ Report(p)
  PROVE  Covers(worker[p], Loose)' /\ Explains(worker[p], audit[p])'
<1>1. worker \in [Workers -> Memory] /\ audit \in [Workers -> Audits]
  BY DEF ReportInv, ReportTypeOK, IInv, PassesInv
<1>2. CASE Heal(p)
  <2>1. /\ audit' = audit
        /\ worker'[p].at \in {"idle", "heal", "healApply", "healMark"}
    <3> DEFINE m == worker[p]
    <3>1. m \in Memory /\ audit' = audit
      BY <1>1, <1>2 DEF Heal, auditVars
    <3>2. ASSUME NEW s \in EventIds, HealRecord(p, s)
          PROVE  worker'[p].at = "healApply"
      BY <1>1, <3>1, <3>2 DEF HealRecord, Become, Memory
    <3>3. ASSUME HealApply(p)
          PROVE  worker'[p].at = "healMark"
      BY <1>1, <3>1, <3>3 DEF HealApply, Become, Memory
    <3>4. ASSUME HealMark(p)
          PROVE  worker'[p].at \in {"idle", "heal"}
      <4>1. PICK w : worker' = [worker EXCEPT ![p] = w] /\ w.at \in {"idle", "heal"}
        <5>1. Idle.at = "idle" /\ \A rest : At("heal", rest).at = "heal"
          BY DEF Idle, At
        <5> QED
          BY <3>4, <5>1 DEF HealMark, Become
      <4> QED
        BY <1>1, <4>1
    <3> QED
      BY <1>2, <3>1, <3>2, <3>3, <3>4 DEF Heal
  <2> QED
    BY <2>1 DEF Explains, Covers
<1>3. CASE Report(p)
  <2>1. audit'[p] = NoAudit /\ worker'[p].at = "idle"
    BY <1>1, <1>3 DEF Report, vars
  <2> QED
    BY <2>1 DEF Explains, Covers, NoAudit
<1> QED
  BY <1>2, <1>3

\* Every step of a reconcile pass.
LEMMA PassKeeps ==
  ASSUME ReportInv, NEW p \in Reconcilers, Covers(worker[p], Loose),
         Explains(worker[p], audit[p]), ReconcilePass(p)
  PROVE  Covers(worker[p], Loose)' /\ Explains(worker[p], audit[p])'
<1>1. p \in Workers
  BY DEF Workers
<1>2. CASE audit[p].at = "start" /\ SettleFacts(p) /\ UNCHANGED auditVars
  <2>1. Covers(worker[p], Loose)'
    BY <1>1, <1>2, SettleCovers DEF ReportInv
  <2>2. Explains(worker[p], audit[p])'
    BY <1>2 DEF Explains, auditVars
  <2> QED
    BY <2>1, <2>2
<1>3. CASE ReadLedger(p) \/ ReadVault(p) \/ ReadInFlight(p)
  BY <1>1, <1>3, ReadingKeeps
<1>4. CASE \E n \in Nonces : ReadStatus(p, n)
  BY <1>1, <1>4, StatusKeeps
<1>5. CASE ReadFacts(p) \/ ReadMissing(p)
  BY <1>1, <1>5, FactsKeep
<1>6. CASE ReadProvisional(p)
  BY <1>1, <1>6, ProvisionalKeeps
<1>7. CASE Heal(p) \/ Report(p)
  BY <1>1, <1>7, ReportingKeeps DEF Heal, Report
<1> QED
  BY <1>2, <1>3, <1>4, <1>5, <1>6, <1>7 DEF ReconcilePass

\* Every step of an inbox tick.
LEMMA TickKeeps ==
  ASSUME ReportInv, NEW p \in Inboxes, Covers(worker[p], Loose),
         audit[p].at = "start", InboxPass(p)
  PROVE  Covers(worker[p], Loose)' /\ audit'[p].at = "start"
<1>1. p \in Workers /\ worker \in [Workers -> Memory] /\ IInv /\ audit' = audit
  BY DEF Workers, ReportInv, IInv, PassesInv, InboxPass, auditVars
<1>2. CASE SettleFacts(p)
  BY <1>1, <1>2, SettleCovers
<1>3. CASE InboxTick(p) /\ ~SettleFacts(p)
  <2>1. worker'[p].at \in {"poll", "pending", "record", "advance", "idle", "apply"}
    <3> DEFINE m == worker[p]
               Later == {"poll", "pending", "record", "advance", "idle", "apply"}
    <3>1. m \in Memory
      BY <1>1
    <3>2. /\ Idle.at = "idle" /\ \A todo : /\ At("pending", todo).at = "pending"
                                           /\ At("apply", todo).at = "apply"
          /\ \A ev : [At("poll", {}) EXCEPT !.ev = ev].at = "poll"
          /\ \A todo, ev : [At("record", todo) EXCEPT !.ev = ev].at = "record"
      BY DEF Idle, At
    <3>3. ASSUME NEW w, Become(p, w), w.at \in Later
          PROVE  worker'[p].at \in Later
      BY <1>1, <3>3 DEF Become
    <3>4. CASE ReadCursor(p)
      BY <3>2, <3>3, <3>4 DEF ReadCursor, Only
    <3>5. ASSUME NEW upTo \in 0..MaxEvents, PollEvents(p, upTo)
          PROVE  worker'[p].at \in Later
      <4> DEFINE w == IF upTo = m.ev THEN At("pending", {})
                      ELSE [At("record", (m.ev + 1)..upTo) EXCEPT !.ev = upTo]
      <4>1. Become(p, w)
        BY <3>5 DEF PollEvents, Only
      <4>2. w.at \in Later
        BY <3>2
      <4> QED
        BY <3>3, <4>1, <4>2
    <3>6. ASSUME NEW s \in EventIds, Record(p, s)
          PROVE  worker'[p].at \in Later
      <4> DEFINE rest == m.todo \ {s}
                 w == [m EXCEPT !.at = IF rest = {} THEN "advance" ELSE "record", !.todo = rest]
      <4>1. Become(p, w)
        BY <3>6 DEF Record
      <4>2. w.at \in Later
        BY <3>1 DEF Memory
      <4> QED
        BY <3>3, <4>1, <4>2
    <3>7. CASE AdvanceCursor(p)
      BY <3>2, <3>3, <3>7 DEF AdvanceCursor
    <3>8. CASE ListPending(p)
      BY <3>2, <3>3, <3>8 DEF ListPending, Only
    <3>9. ASSUME NEW s \in EventIds, Apply(p, s)
          PROVE  worker'[p].at \in Later
      BY <3>2, <3>3, <3>9 DEF Apply
    <3> QED
      BY <1>3, <3>4, <3>5, <3>6, <3>7, <3>8, <3>9 DEF InboxTick
  <2> QED
    BY <1>1, <2>1 DEF Covers
<1> QED
  BY <1>2, <1>3 DEF InboxPass

-----------------------------------------------------------------------------
(* Turns *)

\* The others rest while one loop takes a step, and go on resting.
LEMMA OthersRest ==
  ASSUME NEW p \in Workers,
         \A q \in Workers \ {p} : /\ Resting(q)
                                   /\ worker'[q] = worker[q] /\ audit'[q] = audit[q],
         Covers(worker[p], Loose)', Explains(worker[p], audit[p])',
         p \in Inboxes => audit'[p].at = "start"
  PROVE  TurnInv'
<1>1. ASSUME NEW q \in Workers \ {p}
      PROVE  worker'[q].at = "idle" /\ audit'[q].at = "start"
  BY DEF Resting
<1>2. Exclusive'
  BY <1>1 DEF Exclusive, Resting
<1>3. \A q \in Inboxes : audit'[q].at = "start"
  BY <1>1 DEF Workers
<1>4. ASSUME NEW q \in Workers
      PROVE  Covers(worker[q], Loose)' /\ Explains(worker[q], audit[q])'
  <2>1. CASE q = p
    BY <2>1 DEF Covers, Explains, LookedUp
  <2>2. CASE q # p
    BY <1>1, <2>2 DEF Covers, Explains
  <2> QED
    BY <2>1, <2>2
<1> QED
  BY <1>2, <1>3, <1>4 DEF TurnInv

\* Whatever happens between ticks.
LEMMA AllRest ==
  ASSUME \A q \in Workers : Resting(q), UNCHANGED <<worker, audit>>
  PROVE  TurnInv'
  BY DEF TurnInv, Exclusive, Covers, Explains, Resting, Workers

\* Every step keeps the invariant when loops and blocks take turns.
LEMMA TurnStep ==
  ASSUME ~Concurrent, ReportInv, TurnInv, [AuditNext]_allVars
  PROVE  TurnInv'
<1>1. /\ worker \in [Workers -> Memory] /\ audit \in [Workers -> Audits]
  BY DEF ReportInv, ReportTypeOK, IInv, PassesInv
<1>2. ASSUME NEW p \in Inboxes, InboxPass(p)
      PROVE  TurnInv'
  <2>1. p \in Workers /\ Covers(worker[p], Loose) /\ audit[p].at = "start"
    BY DEF TurnInv, Workers
  <2>2. Covers(worker[p], Loose)' /\ audit'[p].at = "start"
    BY <1>2, <2>1, TickKeeps
  <2>3. Explains(worker[p], audit[p])'
    BY <2>2 DEF Explains
  <2>4. \A q \in Workers \ {p} : /\ Resting(q)
                                  /\ worker'[q] = worker[q] /\ audit'[q] = audit[q]
    <3>1. /\ \A q \in Workers \ {p} : Resting(q)
          /\ audit' = audit
      BY <1>2 DEF InboxPass, Turn, auditVars
    <3>2. \E w : worker' = [worker EXCEPT ![p] = w]
      BY <1>2 DEF InboxPass, InboxTick, SettleFacts, ListProvisional, CheckStatus, CheckCanonical,
             Promote, ListBlock, ReadBalance, PostReversal, ReversalFails, ReadCursor, PollEvents,
             Record, AdvanceCursor, ListPending, Apply, Only, Become
    <3> QED
      BY <1>1, <3>1, <3>2
  <2> QED
    BY <2>1, <2>2, <2>3, <2>4, OthersRest
<1>3. ASSUME NEW p \in Reconcilers, ReconcilePass(p)
      PROVE  TurnInv'
  <2>1. p \in Workers /\ Covers(worker[p], Loose) /\ Explains(worker[p], audit[p])
    BY DEF TurnInv, Workers
  <2>2. Covers(worker[p], Loose)' /\ Explains(worker[p], audit[p])'
    BY <1>3, <2>1, PassKeeps
  <2>3. \A q \in Workers \ {p} : /\ Resting(q)
                                  /\ worker'[q] = worker[q] /\ audit'[q] = audit[q]
    <3>1. \A q \in Workers \ {p} : Resting(q)
      BY <1>3 DEF ReconcilePass, Turn
    <3>2. worker' = worker \/ \E w : worker' = [worker EXCEPT ![p] = w]
      BY <1>3 DEF ReconcilePass, SettleFacts, ListProvisional, CheckStatus, CheckCanonical,
             Promote, ListBlock, ReadBalance, PostReversal, ReversalFails, ReadLedger, ReadVault,
             ReadInFlight, ReadStatus, ReadFacts, ReadApplied, ReadMissing, FindMissing,
             ReadProvisional, Heal, HealRecord, HealApply, HealMark, Report, Only, Become, vars
    <3>3. audit' = audit \/ \E a : audit' = [audit EXCEPT ![p] = a]
      BY <1>3 DEF ReconcilePass, ReadLedger, ReadVault, ReadInFlight, ReadStatus, ReadFacts,
             ReadMissing, ReadProvisional, Heal, Report, Read, auditVars
    <3> QED
      BY <1>1, <3>1, <3>2, <3>3
  <2>4. p \notin Inboxes
    BY WorkersAssumption
  <2> QED
    BY <2>1, <2>2, <2>3, <2>4, OthersRest
<1>4. ASSUME NEW p \in Workers, Restart(p)
      PROVE  TurnInv'
  <2>1. /\ ~Resting(p) /\ worker' = [worker EXCEPT ![p] = Idle]
        /\ audit' = [audit EXCEPT ![p] = NoAudit]
    BY <1>4 DEF Restart, Become, Read
  <2>2. \A q \in Workers \ {p} : /\ Resting(q)
                                  /\ worker'[q] = worker[q] /\ audit'[q] = audit[q]
    BY <1>1, <2>1 DEF TurnInv, Exclusive
  <2>3. worker'[p].at = "idle" /\ audit'[p].at = "start"
    BY <1>1, <2>1 DEF Idle, At, NoAudit
  <2>4. Covers(worker[p], Loose)' /\ Explains(worker[p], audit[p])'
    BY <2>3 DEF Covers, Explains
  <2> QED
    BY <2>2, <2>3, <2>4, OthersRest
<1>5. CASE \/ \E d \in Deposits : BetweenTicks /\ MakeDeposit(d) /\ UNCHANGED auditVars
           \/ BetweenTicks /\ \E n \in Nonces : Reserve(n) \/ Recognise(n) \/ Refund(n)
           \/ BetweenTicks /\ Trade
           \/ BetweenTicks /\ Block
  <2>1. \A q \in Workers : Resting(q)
    BY <1>5 DEF BetweenTicks
  <2>2. UNCHANGED <<worker, audit>>
    BY <1>5 DEF MakeDeposit, Reserve, Recognise, Refund, Trade, Block, MineStep, MineBlock, Spend,
           Return, auditVars, vars
  <2> QED
    BY <2>1, <2>2, AllRest
<1>6. CASE UNCHANGED allVars
  <2>1. UNCHANGED <<log, finalHeight, facts, available, spent, insurance, book, paid, worker, audit>>
    BY <1>6 DEF allVars, vars, auditVars, chainVars, dbVars
  <2>2. Exclusive' /\ \A p \in Inboxes : audit'[p].at = "start"
    BY <2>1 DEF TurnInv, Exclusive, Resting
  <2>3. ASSUME NEW p \in Workers
        PROVE  Covers(worker[p], Loose)' /\ Explains(worker[p], audit[p])'
    <3>1. PICK w, a : w = worker[p] /\ a = audit[p] /\ Explains(w, a)
      BY DEF TurnInv
    <3>2. Explains(worker[p], audit[p])'
      BY <2>1, <3>1, ExplainsStands
    <3>3. Loose' = Loose
      BY <2>1, TermsStand
    <3> QED
      BY <2>1, <3>2, <3>3 DEF TurnInv, Covers
  <2> QED
    BY <2>2, <2>3 DEF TurnInv
<1> QED
  BY <1>2, <1>3, <1>4, <1>5, <1>6 DEF AuditNext

-----------------------------------------------------------------------------
(* The theorem *)

\* When loops and blocks take turns, a reconcile pass of
\* internal/app/reconcile.go that reaches its report has found no unexplained
\* unit, whatever was reorged, credited, spent, compensated, healed, paid or
\* refunded before and wherever an earlier pass was killed.
THEOREM AuditExact ==
  ASSUME ~Concurrent
  PROVE  AuditSpec => []AuditIsExact
<1>1. AuditInit => TurnInv
  BY DEF AuditInit, Init, Idle, At, NoAudit, TurnInv, Exclusive, Resting, Covers, Explains, Workers
<1>2. ReportInv /\ TurnInv /\ [AuditNext]_allVars => TurnInv'
  BY TurnStep
<1>3. TurnInv => AuditIsExact
  BY DEF TurnInv, AuditIsExact, Explains, Workers
<1>4. AuditSpec => []ReportInv
  BY AuditInvariance
<1> QED
  BY <1>1, <1>2, <1>3, <1>4, PTL DEF AuditSpec
=============================================================================
