---------------------------- MODULE InboxProofs -----------------------------
(***************************************************************************)
(* Proofs about the deposit inbox, for any deposits, loops, amounts and    *)
(* bounds.                                                                 *)
(***************************************************************************)
EXTENDS InboxProperties, FiniteSetTheorems, TLAPS

-----------------------------------------------------------------------------
(* The inductive invariant *)

\* A block stands or falls as one, and only unfinalised ones can fall.
BlocksAreWhole ==
  /\ finalHeight <= head
  /\ \A s \in Seqs : log[s].block <= s /\ (log[s].live => log[s].height <= head)
  /\ \A s, t \in Seqs : log[s].block = log[t].block =>
       log[s].height = log[t].height /\ (log[s].live <=> log[t].live)

\* A deposit waits for a block or stands in one, never both and never twice.
OneEventPerDeposit ==
  /\ \A s \in Seqs : log[s].live => log[s].fact \notin pool
  /\ \A s, t \in Seqs :
       log[s].live /\ log[t].live /\ log[s].fact = log[t].fact => s = t

ChainInv == ChainTypeOK /\ BlocksAreWhole /\ OneEventPerDeposit

\* What the database stores about an event, the chain has logged.
RowsAreLogged ==
  \A s \in EventIds : events[s] # "none" \/ facts[s] # "none" => s \in Seqs

Credited == {s \in EventIds : facts[s] # "none"}

\* The user never has more than was ever credited.
SpendingIsCovered == available + spent <= Amount * Cardinality(Credited)

BooksTypeOK ==
  /\ cursor \in 0..MaxEvents
  /\ events \in [EventIds -> EventStates]
  /\ facts \in [EventIds -> FactStates]
  /\ available \in 0..(Amount * MaxEvents)
  /\ spent \in 0..(Amount * MaxEvents)
  /\ insurance \in -(Amount * MaxEvents)..0
  /\ frozen \in BOOLEAN

BooksInv ==
  /\ BooksTypeOK
  /\ RowsAreLogged
  /\ FinalFactsAreReal
  /\ OnlyOrphansAreReverted
  /\ LedgerMatchesFacts
  /\ SpendingIsCovered
  /\ CursorSkipsNothing

\* No event of the block stands.
Dead(b) == b <= Len(log) /\ \A s \in Seqs : log[s].block = b => ~log[s].live

Compensable(s) == s \in Seqs /\ ~log[s].live /\ facts[s] # "none"

\* What a pass may rely on although it read it some steps ago.
Sound(w) ==
  /\ w.at \in {"check", "canonical", "mark", "apply"} => w.todo \subseteq Seqs
  /\ w.at \in {"check", "canonical", "mark", "revert", "balance", "post"} =>
       \A b \in w.bad : Dead(b)
  /\ w.at \in {"canonical", "mark"} => w.ev \in w.todo /\ (w.final => IsFinal(w.ev))
  /\ w.at = "mark" => w.final
  /\ w.at \in {"balance", "post"} => \A s \in w.todo : Compensable(s)
  /\ w.at = "post" => w.ev \in w.todo
  /\ w.at = "poll" => w.ev <= cursor
  /\ w.at = "record" => /\ w.todo \subseteq Seqs
                        /\ \A s \in 1..w.ev : s \in w.todo \/ events[s] # "none"
  /\ w.at = "advance" => \A s \in 1..w.ev : events[s] # "none"
  /\ w.at \in {"heal", "healApply", "healMark"} => \A s \in w.todo : IsFinal(s)
  /\ w.at \in {"healApply", "healMark"} => w.ev \in w.todo

PassesInv == worker \in [Workers -> Memory] /\ \A p \in Workers : Sound(worker[p])

IInv == ChainInv /\ BooksInv /\ PassesInv /\ crashes \in 0..MaxCrashes

\* A step that moves no row and no event back.
Advances ==
  /\ Len(log) <= Len(log') /\ cursor <= cursor'
  /\ \A s \in Seqs : /\ s \in Seqs' /\ log'[s].block = log[s].block
                     /\ ~log[s].live => ~log'[s].live
                     /\ IsFinal(s) => IsFinal(s)'
  /\ \A s \in Seqs' \ Seqs : log'[s].block > Len(log)
  /\ \A s \in EventIds : /\ events[s] # "none" => events'[s] # "none"
                         /\ facts[s] # "none" => facts'[s] # "none"

\* The part of FactsStayDecided that one step owes.
Decides == \A s \in EventIds : facts[s] \in {"final", "reverted"} => facts'[s] = facts[s]

-----------------------------------------------------------------------------
(* What a pass relies on outlives the steps of the others *)

\* The log is a finite sequence of events, numbered from one.
LEMMA SeqsFacts ==
  ASSUME ChainInv
  PROVE  /\ Len(log) \in Nat /\ Len(log) <= MaxEvents
         /\ Seqs = 1..Len(log) /\ Seqs \subseteq EventIds
         /\ \A s \in Seqs : log[s] \in Events
         /\ head \in Nat /\ finalHeight \in Nat
  BY BoundsAssumption DEF ChainInv, ChainTypeOK, Seqs, EventIds, Heights

\* What a loop relies on stays true while rows and events only move forward.
LEMMA SoundLasts ==
  ASSUME ChainInv, ChainInv', Advances, cursor \in Nat, cursor' \in Nat,
         NEW w \in Memory, Sound(w)
  PROVE  Sound(w)'
<1>1. /\ w.todo \subseteq EventIds /\ w.bad \subseteq EventIds /\ w.ev \in 0..MaxEvents
  BY DEF Memory
<1>2. \A s \in Seqs : s \in Seqs' /\ s \in EventIds
  BY SeqsFacts DEF Advances
<1>3. ASSUME NEW b \in EventIds, Dead(b)
      PROVE  Dead(b)'
  <2>1. b <= Len(log) /\ b \in Nat /\ Len(log) \in Nat /\ Len(log') \in Nat /\ Len(log) <= Len(log')
    BY <1>3, SeqsFacts, BoundsAssumption DEF Dead, Advances, EventIds, ChainInv, ChainTypeOK
  <2>2. ASSUME NEW s \in Seqs', log'[s].block = b
        PROVE  ~log'[s].live
    <3>1. log'[s].block \in Int
      BY <2>2 DEF EventIds
    <3>2. s \in Seqs
      BY <2>1, <2>2, <3>1 DEF Advances
    <3> QED
      BY <1>3, <2>2, <3>2 DEF Advances, Dead
  <2> QED
    BY <2>1, <2>2 DEF Dead
<1>4. ASSUME NEW s, Compensable(s)
      PROVE  Compensable(s)'
  BY <1>2, <1>4 DEF Compensable, Advances
<1>5. ASSUME NEW s, IsFinal(s)
      PROVE  IsFinal(s)'
  BY <1>5 DEF IsFinal, Advances
<1>6. ASSUME NEW s \in 1..w.ev, events[s] # "none"
      PROVE  events'[s] # "none"
  BY <1>1, <1>6, BoundsAssumption DEF Advances, EventIds
<1>7. cursor <= cursor' /\ w.ev \in Int
  BY <1>1, BoundsAssumption DEF Advances
<1>8. w.at \in {"check", "canonical", "mark", "apply", "record"} => w.todo \subseteq Seqs'
  BY <1>2 DEF Sound
<1>9. w.at \in {"check", "canonical", "mark", "revert", "balance", "post"} =>
        \A b \in w.bad : Dead(b)'
  BY <1>1, <1>3 DEF Sound
<1>10. /\ w.at \in {"canonical", "mark"} => w.ev \in w.todo /\ (w.final => IsFinal(w.ev)')
       /\ w.at \in {"heal", "healApply", "healMark"} => \A s \in w.todo : IsFinal(s)'
  BY <1>5 DEF Sound
<1>11. w.at \in {"balance", "post"} => \A s \in w.todo : Compensable(s)'
  BY <1>4 DEF Sound
<1>12. /\ w.at = "record" => \A s \in 1..w.ev : s \in w.todo \/ events'[s] # "none"
       /\ w.at = "advance" => \A s \in 1..w.ev : events'[s] # "none"
  BY <1>6 DEF Sound
<1>13. w.at = "poll" => w.ev <= cursor'
  BY <1>7 DEF Sound
<1> QED
  BY <1>8, <1>9, <1>10, <1>11, <1>12, <1>13 DEF Sound

\* Nothing of the chain and the database changes.
LEMMA StillAdvances ==
  ASSUME ChainInv, BooksTypeOK, UNCHANGED <<chainVars, dbVars>>
  PROVE  Advances /\ Decides /\ ChainInv' 
<1>1. Len(log) \in Nat /\ cursor \in Nat
  BY SeqsFacts, BoundsAssumption DEF BooksTypeOK
<1>2. Advances
  BY <1>1 DEF Advances, chainVars, dbVars, IsFinal, Seqs
<1>3. Decides
  BY DEF Decides, dbVars
<1>4. ChainInv'
  BY DEF ChainInv, ChainTypeOK, BlocksAreWhole, OneEventPerDeposit, chainVars, Seqs
<1> QED
  BY <1>2, <1>3, <1>4

\* What a loop's step owes the invariant: it leaves the other loops alone.
LEMMA PassesKeep ==
  ASSUME ChainInv, ChainInv', BooksTypeOK, BooksTypeOK', PassesInv, Advances,
         NEW p \in Workers, NEW w \in Memory, Become(p, w), Sound(w)'
  PROVE  PassesInv'
<1>1. worker \in [Workers -> Memory] /\ cursor \in Nat /\ cursor' \in Nat
  BY BoundsAssumption DEF PassesInv, BooksTypeOK
<1>2. worker' = [worker EXCEPT ![p] = w]
  BY DEF Become
<1>3. worker' \in [Workers -> Memory] /\ worker'[p] = w
      /\ \A q \in Workers \ {p} : worker'[q] = worker[q]
  BY <1>1, <1>2
<1>4. ASSUME NEW q \in Workers
      PROVE  Sound(worker[q])'
  <2>1. CASE q = p
    BY <1>3, <2>1 DEF Sound, Compensable
  <2>2. CASE q # p
    <3>1. Sound(worker[q]) /\ worker[q] \in Memory /\ worker'[q] = worker[q]
      BY <1>1, <1>3, <2>2 DEF PassesInv
    <3> DEFINE x == worker[q]
    <3>2. ASSUME NEW y \in Memory, Sound(y), worker'[q] = y
          PROVE  Sound(worker[q])'
      <4>1. Sound(y)'
        BY <1>1, <3>2, SoundLasts
      <4> QED
        BY <3>2, <4>1 DEF Sound, Compensable
    <3> QED
      BY <3>1, <3>2
  <2> QED
    BY <2>1, <2>2
<1> QED
  BY <1>3, <1>4 DEF PassesInv

\* A step that writes memory only.
LEMMA OnlyKeeps ==
  ASSUME IInv, NEW p \in Workers, NEW w \in Memory, Sound(w), Only(p, w)
  PROVE  IInv' /\ Decides
<1>1. ChainInv /\ BooksInv /\ BooksTypeOK /\ PassesInv /\ UNCHANGED <<chainVars, dbVars, crashes>>
      /\ Become(p, w)
  BY DEF IInv, BooksInv, Only
<1>2. Advances /\ Decides /\ ChainInv'
  BY <1>1, StillAdvances
<1>3. BooksInv'
  BY <1>1 DEF BooksInv, BooksTypeOK, RowsAreLogged, FinalFactsAreReal, OnlyOrphansAreReverted,
         LedgerMatchesFacts, SpendingIsCovered, CursorSkipsNothing, Unreverted, Credited, IsFinal,
         Seqs, chainVars, dbVars
<1>4. cursor \in Nat /\ cursor' \in Nat /\ BooksTypeOK'
  BY <1>1, <1>3, BoundsAssumption DEF BooksInv, BooksTypeOK
<1>5. Sound(w)'
  BY <1>1, <1>2, <1>4, SoundLasts
<1>6. PassesInv'
  BY <1>1, <1>2, <1>4, <1>5, PassesKeep
<1> QED
  BY <1>1, <1>2, <1>3, <1>6 DEF IInv

\* A step that also writes the database; what the loop then relies on held before.
LEMMA WriteKeeps ==
  ASSUME IInv, NEW p \in Workers, NEW w \in Memory, Sound(w), Become(p, w),
         UNCHANGED <<chainVars, crashes>>, BooksInv', Advances
  PROVE  IInv'
<1>1. ChainInv /\ BooksTypeOK /\ PassesInv /\ BooksTypeOK'
  BY DEF IInv, BooksInv
<1>2. ChainInv'
  BY <1>1 DEF ChainInv, ChainTypeOK, BlocksAreWhole, OneEventPerDeposit, chainVars, Seqs
<1>3. cursor \in Nat /\ cursor' \in Nat
  BY <1>1, BoundsAssumption DEF BooksTypeOK
<1>4. Sound(w)'
  BY <1>1, <1>2, <1>3, SoundLasts
<1>5. PassesInv'
  BY <1>1, <1>2, <1>4, PassesKeep
<1> QED
  BY <1>2, <1>5 DEF IInv

-----------------------------------------------------------------------------
(* Counting facts *)

\* Facts are finitely many.
LEMMA CountFacts ==
  ASSUME BooksTypeOK
  PROVE  /\ IsFiniteSet(Unreverted) /\ Cardinality(Unreverted) \in 0..MaxEvents
         /\ IsFiniteSet(Credited) /\ Cardinality(Credited) \in 0..MaxEvents
<1>1. IsFiniteSet(EventIds) /\ Cardinality(EventIds) = MaxEvents
  BY FS_Interval, BoundsAssumption DEF EventIds
<1>2. Unreverted \in SUBSET EventIds /\ Credited \in SUBSET EventIds
  BY DEF Unreverted, Credited
<1> QED
  BY <1>1, <1>2, FS_Subset, FS_CardinalityType

\* What n deposits are worth.
LEMMA Worth ==
  ASSUME NEW n \in Nat
  PROVE  /\ Amount * n \in Nat
         /\ Amount * (n + 1) = Amount * n + Amount
         /\ \A m \in Nat : n <= m => Amount * n <= Amount * m
<1>1. Amount \in Nat
  BY AmountAssumption
<1>2. ASSUME NEW m \in Nat, n <= m
      PROVE  Amount * n <= Amount * m
  <2>1. PICK k \in Nat : m = n + k
    <3>1. m - n \in Nat /\ m = n + (m - n)
      BY <1>2
    <3> QED
      BY <3>1
  <2>2. Amount * m = Amount * n + Amount * k /\ Amount * k \in Nat /\ Amount * n \in Nat
    BY <1>1, <2>1
  <2> QED
    BY <2>2
<1> QED
  BY <1>1, <1>2

\* A ledger that agrees with the facts is within its bounds.
LEMMA LedgerBounds ==
  ASSUME NEW a \in Int, NEW b \in Int, NEW c \in Int, NEW u \in 0..MaxEvents, NEW k \in 0..MaxEvents,
         a >= 0, b >= 0, c <= 0, a + b + c = Amount * u, a + b <= Amount * k
  PROVE  /\ a \in 0..(Amount * MaxEvents) /\ b \in 0..(Amount * MaxEvents)
         /\ c \in -(Amount * MaxEvents)..0
<1>1. /\ Amount * u \in Nat /\ Amount * k \in Nat /\ Amount * MaxEvents \in Nat
      /\ Amount * k <= Amount * MaxEvents
  BY Worth, BoundsAssumption
<1> DEFINE x == Amount * u
           y == Amount * k
           z == Amount * MaxEvents
<1> HIDE DEF x, y, z
<1>2. x \in Nat /\ y \in Nat /\ z \in Nat /\ y <= z /\ a + b + c = x /\ a + b <= y
  BY <1>1 DEF x, y, z
<1>3. a \in 0..z /\ b \in 0..z /\ c \in (-z)..0
  BY <1>2
<1> QED
  BY <1>3 DEF z

-----------------------------------------------------------------------------
(* Transactions *)

\* The chain stands still, and no row disappears.
LEMMA WritesAdvance ==
  ASSUME ChainInv, UNCHANGED chainVars, cursor \in Nat, cursor' \in Nat, cursor <= cursor',
         \A s \in EventIds : /\ events[s] # "none" => events'[s] # "none"
                             /\ facts[s] # "none" => facts'[s] # "none"
  PROVE  Advances
<1>1. Len(log) \in Nat
  BY SeqsFacts
<1> QED
  BY <1>1 DEF Advances, chainVars, IsFinal, Seqs

\* RecordEvent adds a row at most.
LEMMA RecordKeeps ==
  ASSUME ChainInv, BooksInv, UNCHANGED chainVars, NEW s \in Seqs, RecordEvent(s)
  PROVE  /\ BooksInv' /\ Advances /\ Decides
         /\ events'[s] # "none" /\ \A t \in EventIds : events[t] # "none" => events'[t] # "none"
<1>1. /\ BooksTypeOK /\ s \in EventIds /\ Seqs' = Seqs /\ cursor \in 0..MaxEvents
      /\ UNCHANGED <<log, finalHeight, cursor, facts, available, spent, insurance, frozen>>
  BY SeqsFacts DEF BooksInv, BooksTypeOK, RecordEvent, chainVars, Seqs
<1>2. /\ events' \in [EventIds -> EventStates]
      /\ events'[s] # "none" /\ \A t \in EventIds : events[t] # "none" => events'[t] # "none"
      /\ \A t \in EventIds \ {s} : events'[t] = events[t]
  BY <1>1 DEF BooksTypeOK, RecordEvent, EventStates
<1>3. BooksTypeOK' /\ RowsAreLogged'
  BY <1>1, <1>2 DEF BooksInv, BooksTypeOK, RowsAreLogged
<1>4. FinalFactsAreReal' /\ OnlyOrphansAreReverted' /\ LedgerMatchesFacts' /\ SpendingIsCovered'
  BY <1>1 DEF BooksInv, FinalFactsAreReal, OnlyOrphansAreReverted, LedgerMatchesFacts,
         SpendingIsCovered, Unreverted, Credited, IsFinal, Seqs
<1>5. CursorSkipsNothing'
  BY <1>1, <1>2, BoundsAssumption DEF BooksInv, CursorSkipsNothing, EventIds
<1>6. Advances
  BY <1>1, <1>2, WritesAdvance, BoundsAssumption
<1> QED
  BY <1>1, <1>2, <1>3, <1>4, <1>5, <1>6 DEF BooksInv, Decides

\* ApplyDeposit credits once, and balance and fact move together.
LEMMA ApplyKeeps ==
  ASSUME ChainInv, BooksInv, UNCHANGED chainVars, NEW s \in Seqs, ApplyDeposit(s)
  PROVE  BooksInv' /\ Advances /\ Decides
<1>1. /\ BooksTypeOK /\ s \in EventIds /\ Seqs' = Seqs /\ cursor \in 0..MaxEvents
      /\ UNCHANGED <<log, finalHeight, cursor, spent, insurance, frozen>>
  BY SeqsFacts DEF BooksInv, BooksTypeOK, ApplyDeposit, chainVars, Seqs
<1>2. /\ events' \in [EventIds -> EventStates]
      /\ \A t \in EventIds : events[t] # "none" => events'[t] # "none"
      /\ \A t \in EventIds \ {s} : events'[t] = events[t]
  BY <1>1 DEF BooksTypeOK, ApplyDeposit, EventStates
<1>3. CursorSkipsNothing'
  BY <1>1, <1>2, BoundsAssumption DEF BooksInv, CursorSkipsNothing, EventIds
<1>4. CASE facts[s] # "none"
  <2>1. UNCHANGED <<facts, available>>
    BY <1>4 DEF ApplyDeposit
  <2>2. BooksTypeOK' /\ RowsAreLogged'
    BY <1>1, <1>2, <2>1 DEF BooksInv, BooksTypeOK, RowsAreLogged
  <2>3. FinalFactsAreReal' /\ OnlyOrphansAreReverted' /\ LedgerMatchesFacts' /\ SpendingIsCovered'
    BY <1>1, <2>1 DEF BooksInv, FinalFactsAreReal, OnlyOrphansAreReverted, LedgerMatchesFacts,
           SpendingIsCovered, Unreverted, Credited, IsFinal, Seqs
  <2>4. Advances /\ Decides
    BY <1>1, <1>2, <2>1, WritesAdvance, BoundsAssumption DEF Decides
  <2> QED
    BY <1>3, <2>2, <2>3, <2>4 DEF BooksInv
<1>5. CASE facts[s] = "none"
  <2>1. /\ facts' = [facts EXCEPT ![s] = "provisional"]
        /\ available' = available + Amount
    BY <1>5 DEF ApplyDeposit
  <2>2. /\ facts' \in [EventIds -> FactStates] /\ facts'[s] = "provisional"
        /\ \A t \in EventIds \ {s} : facts'[t] = facts[t]
    BY <1>1, <2>1 DEF BooksTypeOK, FactStates
  <2>3. /\ Unreverted' = Unreverted \union {s} /\ s \notin Unreverted
        /\ Credited' = Credited \union {s} /\ s \notin Credited
    BY <1>1, <1>5, <2>2 DEF Unreverted, Credited
  <2>4. PICK u \in 0..MaxEvents, k \in 0..MaxEvents :
          /\ u = Cardinality(Unreverted) /\ k = Cardinality(Credited)
          /\ Cardinality(Unreverted') = u + 1 /\ Cardinality(Credited') = k + 1
    <3>1. /\ IsFiniteSet(Unreverted) /\ Cardinality(Unreverted) \in 0..MaxEvents
          /\ IsFiniteSet(Credited) /\ Cardinality(Credited) \in 0..MaxEvents
      BY <1>1, CountFacts
    <3>2. Cardinality(Unreverted') = Cardinality(Unreverted) + 1
      BY <2>3, <3>1, FS_AddElement
    <3>3. Cardinality(Credited') = Cardinality(Credited) + 1
      BY <2>3, <3>1, FS_AddElement
    <3> QED
      BY <3>1, <3>2, <3>3
  <2>5. u + 1 \in 0..MaxEvents /\ k + 1 \in 0..MaxEvents
    <3>1. Unreverted' \in SUBSET EventIds /\ Credited' \in SUBSET EventIds
      BY DEF Unreverted, Credited
    <3>2. IsFiniteSet(EventIds) /\ Cardinality(EventIds) = MaxEvents
      BY FS_Interval, BoundsAssumption DEF EventIds
    <3> QED
      BY <2>4, <3>1, <3>2, FS_Subset, BoundsAssumption
  <2>6. /\ available' + spent' + insurance' = Amount * (u + 1) /\ available' >= 0
        /\ available' + spent' <= Amount * (k + 1)
        /\ available' \in Int /\ spent' \in Int /\ spent' >= 0 /\ insurance' \in Int /\ insurance' <= 0
    <3>1. /\ available \in Int /\ spent \in Int /\ insurance \in Int
          /\ available >= 0 /\ spent >= 0 /\ insurance <= 0 /\ Amount \in Nat
          /\ available + spent + insurance = Amount * u /\ available + spent <= Amount * k
      BY <1>1, <2>4, AmountAssumption, BoundsAssumption
         DEF BooksInv, BooksTypeOK, LedgerMatchesFacts, SpendingIsCovered
    <3>2. /\ Amount * (u + 1) = Amount * u + Amount /\ Amount * u \in Nat
          /\ Amount * (k + 1) = Amount * k + Amount /\ Amount * k \in Nat
      BY Worth
    <3> QED
      BY <1>1, <2>1, <3>1, <3>2
  <2>7. LedgerMatchesFacts' /\ SpendingIsCovered'
    BY <2>4, <2>6 DEF LedgerMatchesFacts, SpendingIsCovered
  <2>8. BooksTypeOK'
    BY <1>1, <1>2, <2>2, <2>5, <2>6, LedgerBounds DEF BooksTypeOK
  <2>9. RowsAreLogged'
    BY <1>1, <1>2, <2>2 DEF BooksInv, RowsAreLogged
  <2>10. FinalFactsAreReal' /\ OnlyOrphansAreReverted'
    BY <1>1, <2>2 DEF BooksInv, FinalFactsAreReal, OnlyOrphansAreReverted, IsFinal
  <2>11. Advances /\ Decides
    BY <1>1, <1>2, <1>5, <2>2, WritesAdvance, BoundsAssumption DEF Decides
  <2> QED
    BY <1>3, <2>7, <2>8, <2>9, <2>10, <2>11 DEF BooksInv
<1> QED
  BY <1>4, <1>5

\* MarkFactFinalized is harmless for an event that is final.
LEMMA MarkKeeps ==
  ASSUME ChainInv, BooksInv, UNCHANGED chainVars, NEW s, IsFinal(s), MarkFactFinalized(s)
  PROVE  BooksInv' /\ Advances /\ Decides
<1>1. /\ BooksTypeOK /\ s \in EventIds /\ Seqs' = Seqs /\ cursor \in 0..MaxEvents
      /\ UNCHANGED <<log, finalHeight, cursor, events, available, spent, insurance, frozen>>
  BY SeqsFacts DEF BooksInv, BooksTypeOK, MarkFactFinalized, chainVars, Seqs, IsFinal
<1>2. /\ facts' \in [EventIds -> FactStates]
      /\ facts'[s] = IF facts[s] = "provisional" THEN "final" ELSE facts[s]
      /\ \A t \in EventIds \ {s} : facts'[t] = facts[t]
  BY <1>1 DEF BooksTypeOK, MarkFactFinalized, FactStates
<1>3. Unreverted' = Unreverted /\ Credited' = Credited
  BY <1>1, <1>2 DEF Unreverted, Credited
<1>4. BooksTypeOK' /\ RowsAreLogged'
  BY <1>1, <1>2 DEF BooksInv, BooksTypeOK, RowsAreLogged, IsFinal
<1>5. FinalFactsAreReal' /\ OnlyOrphansAreReverted'
  BY <1>1, <1>2 DEF BooksInv, FinalFactsAreReal, OnlyOrphansAreReverted, IsFinal
<1>6. LedgerMatchesFacts' /\ SpendingIsCovered' /\ CursorSkipsNothing'
  BY <1>1, <1>3 DEF BooksInv, LedgerMatchesFacts, SpendingIsCovered, CursorSkipsNothing
<1>7. Advances /\ Decides
  BY <1>1, <1>2, WritesAdvance, BoundsAssumption DEF Decides
<1> QED
  BY <1>4, <1>5, <1>6, <1>7 DEF BooksInv

\* RevertBlock takes from the user and from insurance what the fact was worth.
LEMMA RevertKeeps ==
  ASSUME ChainInv, BooksInv, UNCHANGED chainVars, NEW s, Compensable(s), NEW avail \in Nat,
         RevertPossible(s, avail), RevertFact(s, avail)
  PROVE  BooksInv' /\ Advances /\ Decides
<1>1. /\ BooksTypeOK /\ s \in EventIds /\ s \in Seqs /\ Seqs' = Seqs /\ cursor \in 0..MaxEvents
      /\ UNCHANGED <<log, finalHeight, cursor, spent>>
      /\ ~log[s].live /\ facts[s] # "none"
  BY SeqsFacts DEF BooksInv, BooksTypeOK, RevertFact, chainVars, Seqs, Compensable
<1>2. /\ events' \in [EventIds -> EventStates]
      /\ events'[s] = "orphaned"
      /\ \A t \in EventIds \ {s} : events'[t] = events[t]
  BY <1>1 DEF BooksTypeOK, RevertFact, EventStates
<1>3. CursorSkipsNothing' /\ \A t \in EventIds : events[t] # "none" => events'[t] # "none"
  BY <1>1, <1>2, BoundsAssumption DEF BooksInv, CursorSkipsNothing, EventIds
<1>4. /\ Clawback(avail) \in 0..Amount /\ Shortfall(avail) \in 0..Amount /\ Amount \in Nat
      /\ Clawback(avail) + Shortfall(avail) = Amount
  BY AmountAssumption DEF Clawback, Shortfall
<1>5. frozen' \in BOOLEAN
  BY <1>4 DEF RevertFact
<1>6. CASE facts[s] = "reverted"
  <2>1. UNCHANGED <<facts, available, insurance>>
    BY <1>6 DEF RevertFact
  <2>2. BooksTypeOK' /\ RowsAreLogged'
    BY <1>1, <1>2, <1>5, <2>1 DEF BooksInv, BooksTypeOK, RowsAreLogged
  <2>3. FinalFactsAreReal' /\ OnlyOrphansAreReverted' /\ LedgerMatchesFacts' /\ SpendingIsCovered'
    BY <1>1, <2>1 DEF BooksInv, FinalFactsAreReal, OnlyOrphansAreReverted, LedgerMatchesFacts,
           SpendingIsCovered, Unreverted, Credited, IsFinal, Seqs
  <2>4. Advances /\ Decides
    BY <1>1, <1>3, <2>1, WritesAdvance, BoundsAssumption DEF Decides
  <2> QED
    BY <1>3, <2>2, <2>3, <2>4 DEF BooksInv
<1>7. CASE facts[s] # "reverted"
  <2>1. /\ facts' = [facts EXCEPT ![s] = "reverted"]
        /\ available' = available - Clawback(avail) /\ available >= Clawback(avail)
        /\ insurance' = insurance - Shortfall(avail)
    BY <1>7 DEF RevertFact, RevertPossible
  <2>2. /\ facts' \in [EventIds -> FactStates] /\ facts'[s] = "reverted"
        /\ \A t \in EventIds \ {s} : facts'[t] = facts[t]
    BY <1>1, <2>1 DEF BooksTypeOK, FactStates
  <2>3. facts[s] = "provisional"
    BY <1>1, <1>7 DEF BooksInv, BooksTypeOK, FactStates, FinalFactsAreReal, IsFinal
  <2>4. /\ Unreverted' = Unreverted \ {s} /\ s \in Unreverted
        /\ Credited' = Credited
    BY <1>1, <2>2, <2>3 DEF Unreverted, Credited
  <2>5. PICK u \in 0..MaxEvents, k \in 0..MaxEvents :
          /\ u = Cardinality(Unreverted) /\ k = Cardinality(Credited)
          /\ Cardinality(Unreverted') = u - 1 /\ Cardinality(Credited') = k
    BY <1>1, <2>4, CountFacts, FS_RemoveElement
  <2>6. u - 1 \in 0..MaxEvents
    <3>1. u # 0
      BY <1>1, <2>4, <2>5, CountFacts, FS_EmptySet
    <3> QED
      BY <3>1, BoundsAssumption
  <2>7. /\ available' + spent' + insurance' = Amount * (u - 1) /\ available' >= 0
        /\ available' + spent' <= Amount * k
        /\ available' \in Int /\ spent' \in Int /\ spent' >= 0 /\ insurance' \in Int /\ insurance' <= 0
    <3>1. /\ available \in Int /\ spent \in Int /\ insurance \in Int
          /\ available >= 0 /\ spent >= 0 /\ insurance <= 0
          /\ available + spent + insurance = Amount * u /\ available + spent <= Amount * k
      BY <1>1, <2>5, <1>4, BoundsAssumption
         DEF BooksInv, BooksTypeOK, LedgerMatchesFacts, SpendingIsCovered
    <3>2. /\ Amount * u = Amount * (u - 1) + Amount /\ Amount * (u - 1) \in Nat
          /\ Amount * k \in Nat
      <4>1. u - 1 \in Nat /\ (u - 1) + 1 = u /\ k \in Nat
        BY <2>6
      <4> QED
        BY <4>1, Worth
    <3>3. PICK x \in Nat, y \in Nat, z \in Nat, c \in 0..Amount, d \in 0..Amount :
            /\ x = Amount * u /\ y = Amount * (u - 1) /\ z = Amount * k
            /\ c = Clawback(avail) /\ d = Shortfall(avail)
      <4>1. Amount * u \in Nat /\ Amount * (u - 1) \in Nat /\ Amount * k \in Nat
        <5>1. u \in Nat /\ Amount \in Nat
          BY <1>4
        <5> QED
          BY <3>2, <5>1
      <4> QED
        BY <1>4, <4>1, Zenon
    <3>4. /\ x = y + Amount /\ c + d = Amount /\ Amount \in Nat
          /\ available + spent + insurance = x /\ available + spent <= z
          /\ available >= c /\ available' = available - c /\ insurance' = insurance - d
          /\ spent' = spent
      BY <1>1, <1>4, <2>1, <3>1, <3>2, <3>3
    <3>5. /\ available' + spent' + insurance' = y /\ available' >= 0 /\ available' + spent' <= z
          /\ available' \in Int /\ spent' \in Int /\ spent' >= 0
          /\ insurance' \in Int /\ insurance' <= 0
      BY <3>1, <3>4
    <3> QED
      BY <3>3, <3>5
  <2>8. LedgerMatchesFacts' /\ SpendingIsCovered'
    BY <2>5, <2>7 DEF LedgerMatchesFacts, SpendingIsCovered
  <2>9. BooksTypeOK'
    BY <1>1, <1>2, <1>5, <2>2, <2>6, <2>7, LedgerBounds DEF BooksTypeOK
  <2>10. RowsAreLogged'
    BY <1>1, <1>2, <2>2 DEF BooksInv, RowsAreLogged
  <2>11. FinalFactsAreReal' /\ OnlyOrphansAreReverted'
    BY <1>1, <2>2 DEF BooksInv, FinalFactsAreReal, OnlyOrphansAreReverted, IsFinal
  <2>12. Advances /\ Decides
    BY <1>1, <1>3, <2>2, <2>3, WritesAdvance, BoundsAssumption DEF Decides
  <2> QED
    BY <1>3, <2>8, <2>9, <2>10, <2>11, <2>12 DEF BooksInv
<1> QED
  BY <1>6, <1>7

-----------------------------------------------------------------------------
(* The chain *)

\* Every order of the queue has each of its deposits once.
LEMMA OrderFacts ==
  ASSUME NEW S \in SUBSET Deposits, NEW order \in SetToSeqs(S)
  PROVE  /\ order \in Seq(Deposits)
         /\ Len(order) = Cardinality(S) /\ Cardinality(S) \in Nat
         /\ \A i \in 1..Len(order) : order[i] \in S
         /\ \A i, j \in 1..Len(order) : order[i] = order[j] => i = j
<1>1. Cardinality(S) \in Nat
  BY DepositsAssumption, FS_Subset, FS_CardinalityType
<1>2. /\ order \in [1..Cardinality(S) -> S]
      /\ \A i, j \in 1..Cardinality(S) : i # j => order[i] # order[j]
  BY DEF SetToSeqs
<1> QED
  BY <1>1, <1>2

\* A block is mined: finality only moves up, and a reorg takes whole blocks.
LEMMA MineFacts ==
  ASSUME ChainInv, NEW depth \in 0..(head - finalHeight),
         NEW order \in SetToSeqs(Queue(head - depth)), Mine(depth, order)
  PROVE  /\ ChainInv'
         /\ Len(log) <= Len(log')
         /\ \A s \in Seqs : /\ s \in Seqs' /\ log'[s].block = log[s].block
                            /\ ~log[s].live => ~log'[s].live
                            /\ IsFinal(s) => IsFinal(s)'
         /\ \A s \in Seqs' \ Seqs : log'[s].block > Len(log)
<1> DEFINE base == head - depth
           n == Len(log)
           m == Len(order)
           Kept(s) == [log[s] EXCEPT !.live = @ /\ s \notin Orphans(base)]
           Mined(i) == [fact |-> order[i], height |-> base + 1, block |-> n + 1, live |-> TRUE]
           old == [s \in Seqs |-> Kept(s)]
           new == [i \in 1..m |-> Mined(i)]
<1>1. /\ n \in Nat /\ n <= MaxEvents /\ Seqs = 1..n /\ \A s \in Seqs : log[s] \in Events
      /\ head \in Nat /\ finalHeight \in Nat /\ finalHeight <= head /\ head <= MaxHeight
      /\ MaxHeight \in Nat /\ MaxEvents \in Nat /\ Confirms \in Nat \ {0}
  BY SeqsFacts, BoundsAssumption, ConfirmsAssumption
     DEF ChainInv, ChainTypeOK, BlocksAreWhole, Heights
<1>2. base \in Nat /\ finalHeight <= base /\ base <= head
  BY <1>1
<1>3. Queue(base) \in SUBSET Deposits
  BY <1>1 DEF Queue, Orphans, ChainInv, ChainTypeOK, Events
<1>4. order \in Seq(Deposits) /\ m \in Nat /\ n + m <= MaxEvents
  <2>1. n + Cardinality(Queue(base)) <= MaxEvents
    BY DEF Mine, WithinBounds
  <2> QED
    BY <1>3, <2>1, OrderFacts
<1>5. /\ \A i \in 1..m : order[i] \in Queue(base)
      /\ \A i, j \in 1..m : order[i] = order[j] => i = j
  BY <1>3, OrderFacts
<1>6. /\ base < MaxHeight /\ head' = base + 1 /\ finalHeight' = FinalAfter(base + 1)
      /\ pool' = {} /\ log' = old \o new
  BY DEF Mine, WithinBounds
<1>7. /\ finalHeight' \in Nat /\ finalHeight <= finalHeight' /\ finalHeight' <= head'
  BY <1>1, <1>2, <1>6 DEF FinalAfter
<1>8. ASSUME NEW s \in Seqs
      PROVE  /\ Kept(s) \in Events
             /\ Kept(s).height = log[s].height /\ Kept(s).block = log[s].block
             /\ Kept(s).fact = log[s].fact
             /\ Kept(s).live <=> (log[s].live /\ log[s].height <= base)
  <2>1. log[s] \in Events /\ log[s].height \in Int
    BY <1>1 DEF Events, Heights
  <2>2. s \notin Orphans(base) <=> (~log[s].live \/ log[s].height <= base)
    BY <1>2, <2>1 DEF Orphans
  <2> QED
    BY <2>1, <2>2 DEF Events
<1>9. ASSUME NEW i \in 1..m
      PROVE  Mined(i) \in Events
  <2>1. order[i] \in Deposits /\ n + 1 \in 1..MaxEvents /\ base + 1 \in 0..MaxHeight
    BY <1>1, <1>2, <1>4, <1>6
  <2> QED
    BY <2>1 DEF Events, Heights
<1> HIDE DEF Kept, Mined
<1>10. old \in Seq(Events) /\ Len(old) = n /\ \A s \in 1..n : old[s] = Kept(s)
  BY <1>1, <1>8
<1>11. new \in Seq(Events) /\ Len(new) = m /\ \A i \in 1..m : new[i] = Mined(i)
  BY <1>4, <1>9
<1> HIDE DEF old, new
<1>12. /\ log' \in Seq(Events) /\ Len(log') = n + m /\ Seqs' = 1..(n + m)
       /\ \A s \in Seqs : s \in Seqs' /\ log'[s] = Kept(s)
       /\ \A s \in Seqs' \ Seqs : s - n \in 1..m /\ log'[s] = Mined(s - n)
  <2>1. old \o new \in Seq(Events) /\ Len(old \o new) = n + m
    BY <1>1, <1>4, <1>10, <1>11
  <2>2. \A s \in 1..(n + m) : (old \o new)[s] = IF s <= n THEN old[s] ELSE new[s - n]
    BY <1>1, <1>4, <1>10, <1>11
  <2>3. Seqs' = 1..(n + m)
    BY <1>6, <2>1 DEF Seqs
  <2> QED
    BY <1>1, <1>4, <1>6, <1>10, <1>11, <2>1, <2>2, <2>3
<1>13. \A i \in 1..m : Mined(i).fact = order[i] /\ Mined(i).height = base + 1 /\ Mined(i).block = n + 1 /\ Mined(i).live
  BY DEF Mined
<1>14. \A s \in Seqs : log[s].block <= s /\ log[s].block \in Nat /\ log[s].height \in Nat
  BY <1>1 DEF ChainInv, BlocksAreWhole, Events, Heights
<1>15. \A s \in Seqs : /\ s \in Seqs' /\ log'[s].block = log[s].block
                     /\ log'[s].height = log[s].height /\ log'[s].fact = log[s].fact
  BY <1>8, <1>12
<1>16. \A s \in Seqs : log'[s].live <=> (log[s].live /\ log[s].height <= base)
  BY <1>8, <1>12
<1>17. \A s \in Seqs' \ Seqs : /\ s \in Nat /\ s > n /\ log'[s].block = n + 1
                            /\ log'[s].height = base + 1 /\ log'[s].live
                            /\ s - n \in 1..m /\ log'[s].fact = order[s - n]
  BY <1>1, <1>4, <1>12, <1>13
<1>18. ASSUME NEW s \in Seqs, log'[s].live
       PROVE  log[s].live /\ log'[s].fact = log[s].fact /\ log'[s].fact \notin Queue(base)
  <2>1. log[s].live /\ log[s].height <= base /\ log'[s].fact = log[s].fact
    BY <1>15, <1>16, <1>18
  <2>2. s \notin Orphans(base)
    BY <1>2, <1>14, <2>1 DEF Orphans
  <2>3. \A o \in Orphans(base) : log[o].fact # log[s].fact
    BY <2>1, <2>2 DEF Orphans, ChainInv, OneEventPerDeposit
  <2>4. log[s].fact \notin pool
    BY <2>1 DEF ChainInv, OneEventPerDeposit
  <2> QED
    BY <2>1, <2>3, <2>4 DEF Queue
<1>19. OneEventPerDeposit'
  <2>1. ASSUME NEW s \in Seqs', NEW t \in Seqs', log'[s].live, log'[t].live,
               log'[s].fact = log'[t].fact
        PROVE  s = t
    <3>1. CASE s \in Seqs /\ t \in Seqs
      BY <1>18, <2>1, <3>1 DEF ChainInv, OneEventPerDeposit
    <3>2. CASE s \notin Seqs /\ t \notin Seqs
      <4>1. s - n = t - n /\ s \in Nat /\ t \in Nat
        BY <1>17, <1>5, <2>1, <3>2
      <4> QED
        BY <1>1, <4>1
    <3>3. ASSUME NEW x \in Seqs' \ Seqs
          PROVE  log'[x].fact \in Queue(base)
      BY <1>17, <1>5
    <3> QED
      BY <1>18, <2>1, <3>1, <3>2, <3>3
  <2> QED
    BY <1>6, <2>1 DEF OneEventPerDeposit
<1> HIDE DEF base, n, m
<1>20. ChainTypeOK'
  BY <1>1, <1>2, <1>4, <1>6, <1>7, <1>12 DEF ChainTypeOK, Heights
<1>21. BlocksAreWhole'
  <2>1. ASSUME NEW s \in Seqs'
        PROVE  log'[s].block <= s /\ (log'[s].live => log'[s].height <= head')
    <3>1. CASE s \in Seqs
      <4>1. log'[s].block = log[s].block /\ log'[s].height = log[s].height
        BY <1>15, <3>1
      <4>2. log'[s].live => log'[s].height <= base
        BY <1>16, <3>1, <4>1
      <4>3. log[s].block <= s /\ log[s].height \in Nat /\ head' = base + 1 /\ base \in Nat
        BY <1>2, <1>6, <1>14, <3>1
      <4>4. log'[s].block <= s
        BY <4>1, <4>3
      <4>5. ASSUME log'[s].height <= base
            PROVE  log'[s].height <= head'
        <5>1. log'[s].height \in Nat
          BY <4>1, <4>3
        <5> QED
          BY <4>3, <4>5, <5>1
      <4> QED
        BY <4>2, <4>4, <4>5
    <3>2. CASE s \notin Seqs
      <4>1. s \in Nat /\ s > n /\ log'[s].block = n + 1 /\ log'[s].height = head'
        BY <1>6, <1>17, <3>2
      <4>2. head' \in Nat /\ n \in Nat
        BY <1>1, <1>2, <1>6
      <4>3. log'[s].block <= s /\ log'[s].height <= head'
        BY <4>1, <4>2
      <4> QED
        BY <4>3
    <3> QED
      BY <3>1, <3>2
  <2>2. ASSUME NEW s \in Seqs', NEW t \in Seqs', log'[s].block = log'[t].block
        PROVE  log'[s].height = log'[t].height /\ (log'[s].live <=> log'[t].live)
    <3>1. CASE s \in Seqs /\ t \in Seqs
      BY <1>15, <1>16, <2>2, <3>1 DEF ChainInv, BlocksAreWhole
    <3>2. CASE s \notin Seqs /\ t \notin Seqs
      BY <1>17, <3>2
    <3>3. ASSUME NEW x \in Seqs
          PROVE  log'[x].block # n + 1
      <4>1. x \in Nat /\ x <= n /\ log[x].block <= x /\ log[x].block \in Nat
        BY <1>1, <1>14
      <4> QED
        BY <1>1, <1>15, <4>1
    <3> QED
      BY <1>17, <2>2, <3>1, <3>2, <3>3
  <2> QED
    BY <1>7, <2>1, <2>2 DEF BlocksAreWhole
<1>22. ASSUME NEW s \in Seqs
       PROVE  /\ s \in Seqs' /\ log'[s].block = log[s].block
              /\ ~log[s].live => ~log'[s].live
              /\ IsFinal(s) => IsFinal(s)'
  <2>1. log[s].height \in Nat
    BY <1>14
  <2>2. IsFinal(s) => log[s].height <= base /\ log[s].height <= finalHeight'
    BY <1>1, <1>2, <1>7, <2>1 DEF IsFinal
  <2> QED
    BY <1>15, <1>16, <2>2 DEF IsFinal
<1>23. \A s \in Seqs' \ Seqs : log'[s].block > n
  BY <1>1, <1>17
<1> QED
  BY <1>1, <1>4, <1>12, <1>20, <1>21, <1>22, <1>23, <1>19 DEF ChainInv, n

\* A reorg changes neither the database nor what the loops rely on.
LEMMA MineKeeps ==
  ASSUME IInv, MineStep
  PROVE  IInv' /\ Decides
<1>1. PICK depth \in 0..(head - finalHeight) :
        \E order \in SetToSeqs(Queue(head - depth)) : MineBlock(depth, order)
  BY DEF MineStep
<1>2. PICK order \in SetToSeqs(Queue(head - depth)) : MineBlock(depth, order)
  BY <1>1
<1>3. /\ ChainInv /\ BooksInv /\ BooksTypeOK /\ PassesInv /\ cursor \in Nat
      /\ UNCHANGED dbVars /\ UNCHANGED worker /\ UNCHANGED crashes
  BY <1>2, BoundsAssumption DEF IInv, BooksInv, BooksTypeOK, MineBlock
<1>4. /\ ChainInv' /\ Len(log) <= Len(log')
      /\ \A s \in Seqs : /\ s \in Seqs' /\ log'[s].block = log[s].block
                         /\ ~log[s].live => ~log'[s].live
                         /\ IsFinal(s) => IsFinal(s)'
      /\ \A s \in Seqs' \ Seqs : log'[s].block > Len(log)
  BY <1>2, <1>3, MineFacts DEF MineBlock
<1>5. Advances /\ Decides
  BY <1>3, <1>4 DEF Advances, Decides, dbVars
<1>6. BooksTypeOK' /\ RowsAreLogged' /\ FinalFactsAreReal' /\ OnlyOrphansAreReverted'
  BY <1>3, <1>4 DEF BooksInv, BooksTypeOK, RowsAreLogged, FinalFactsAreReal, OnlyOrphansAreReverted,
         dbVars, IsFinal
<1>7. LedgerMatchesFacts' /\ SpendingIsCovered' /\ CursorSkipsNothing'
  BY <1>3 DEF BooksInv, LedgerMatchesFacts, SpendingIsCovered, CursorSkipsNothing, Unreverted,
         Credited, dbVars
<1>8. BooksInv'
  BY <1>6, <1>7 DEF BooksInv
<1>9. PassesInv'
  <2>1. ASSUME NEW q \in Workers, NEW w \in Memory, Sound(w), worker'[q] = w
        PROVE  Sound(worker[q])'
    <3>1. Sound(w)'
      BY <1>3, <1>4, <1>5, <2>1, SoundLasts DEF dbVars
    <3> QED
      BY <2>1, <3>1 DEF Sound, Compensable
  <2> QED
    BY <1>3, <2>1 DEF PassesInv
<1> QED
  BY <1>3, <1>4, <1>5, <1>8, <1>9 DEF IInv

\* Depositing and spending.
LEMMA UserKeeps ==
  ASSUME IInv, (\E d \in Deposits : MakeDeposit(d)) \/ Spend \/ Return
  PROVE  IInv' /\ Decides
<1>1. /\ ChainInv /\ BooksInv /\ BooksTypeOK /\ PassesInv /\ cursor \in Nat
      /\ UNCHANGED <<head, finalHeight, log, worker, crashes, cursor, events, facts, insurance, frozen>>
  BY BoundsAssumption
     DEF IInv, BooksInv, BooksTypeOK, MakeDeposit, Deposit, Spend, Return, chainVars, dbVars
<1>2. pool' \subseteq Deposits
  BY <1>1 DEF ChainInv, ChainTypeOK, MakeDeposit, Deposit, Spend, Return, chainVars
<1>3. ChainInv'
  <2>1. \A s \in Seqs : log[s].live => log[s].fact \notin pool'
    BY <1>1 DEF ChainInv, OneEventPerDeposit, MakeDeposit, Deposit, Spend, Return, chainVars
  <2> QED
    BY <1>1, <1>2, <2>1 DEF ChainInv, ChainTypeOK, BlocksAreWhole, OneEventPerDeposit, Seqs
<1>4. Advances /\ Decides
  BY <1>1, SeqsFacts DEF Advances, Decides, IsFinal, Seqs
<1>5. /\ available' + spent' = available + spent
      /\ available' \in Nat /\ spent' \in Nat
  BY <1>1 DEF BooksTypeOK, MakeDeposit, Spend, Return, dbVars
<1>6. LedgerMatchesFacts' /\ SpendingIsCovered'
  <2>1. available \in Int /\ spent \in Int /\ insurance \in Int
    BY <1>1, AmountAssumption, BoundsAssumption DEF BooksTypeOK
  <2>2. available' + spent' + insurance' = available + spent + insurance
    BY <1>1, <1>5, <2>1
  <2> QED
    BY <1>1, <1>5, <2>2 DEF BooksInv, LedgerMatchesFacts, SpendingIsCovered, Unreverted, Credited
<1>7. BooksTypeOK'
  <2>1. PICK u \in 0..MaxEvents, k \in 0..MaxEvents :
          u = Cardinality(Unreverted') /\ k = Cardinality(Credited')
    BY <1>1, CountFacts DEF Unreverted, Credited
  <2>2. insurance' \in Int /\ insurance' <= 0
    BY <1>1, AmountAssumption, BoundsAssumption DEF BooksTypeOK
  <2>3. /\ available' \in 0..(Amount * MaxEvents) /\ spent' \in 0..(Amount * MaxEvents)
        /\ insurance' \in -(Amount * MaxEvents)..0
    BY <1>5, <1>6, <2>1, <2>2, LedgerBounds DEF LedgerMatchesFacts, SpendingIsCovered
  <2> QED
    BY <1>1, <2>3 DEF BooksTypeOK
<1>8. RowsAreLogged' /\ FinalFactsAreReal' /\ OnlyOrphansAreReverted' /\ CursorSkipsNothing'
  BY <1>1 DEF BooksInv, RowsAreLogged, FinalFactsAreReal, OnlyOrphansAreReverted, CursorSkipsNothing,
         IsFinal, Seqs
<1>9. PassesInv'
  BY <1>1 DEF PassesInv, Sound, Dead, Compensable, IsFinal, Seqs
<1> QED
  BY <1>1, <1>3, <1>4, <1>6, <1>7, <1>8, <1>9 DEF IInv, BooksInv

-----------------------------------------------------------------------------
(* settleFacts *)

\* A loop that starts a stage with nothing or with a list in hand.
LEMMA AtFacts ==
  ASSUME NEW step \in Steps, NEW todo \in SUBSET EventIds
  PROVE  /\ At(step, todo) \in Memory
         /\ At(step, todo).at = step /\ At(step, todo).todo = todo
         /\ At(step, todo).bad = {} /\ At(step, todo).ev = 0
<1>1. 0 \in 0..(Amount * MaxEvents) /\ 0 \in 0..MaxEvents
  BY Worth, BoundsAssumption
<1> QED
  BY <1>1 DEF At, Memory

\* A stage that holds nothing.
LEMMA StartFacts ==
  ASSUME NEW step \in {"idle", "cursor", "pending", "applied"}
  PROVE  At(step, {}) \in Memory /\ Sound(At(step, {}))
<1>1. step \in Steps /\ {} \in SUBSET EventIds
  BY DEF Steps
<1>2. At(step, {}) \in Memory /\ At(step, {}).at = step
  BY <1>1, AtFacts
<1> QED
  BY <1>2 DEF Sound

\* What settleFacts goes on with is in order if its lists are.
LEMMA ContinueFacts ==
  ASSUME NEW p \in Workers, NEW step \in {"check", "balance"},
         NEW todo \in SUBSET EventIds, NEW bad \in SUBSET EventIds,
         \A b \in bad : Dead(b),
         step = "check" => todo \subseteq Seqs,
         step = "balance" => \A s \in todo : Compensable(s)
  PROVE  \E w \in Memory : w = Continue(p, step, todo, bad) /\ Sound(w)
<1>1. CASE todo # {}
  <2> DEFINE w == [At(step, todo) EXCEPT !.bad = bad]
  <2>1. At(step, todo) \in Memory /\ At(step, todo).at = step /\ At(step, todo).todo = todo
    BY AtFacts DEF Steps
  <2>2. w \in Memory /\ w.at = step /\ w.todo = todo /\ w.bad = bad
    BY <2>1 DEF Memory
  <2>3. Sound(w)
    BY <2>2 DEF Sound
  <2> QED
    BY <1>1, <2>2, <2>3 DEF Continue
<1>2. CASE todo = {} /\ bad # {}
  <2> DEFINE w == [At("revert", {}) EXCEPT !.bad = bad]
  <2>1. /\ At("revert", {}) \in Memory /\ At("revert", {}).at = "revert"
        /\ At("revert", {}).todo = {}
    BY AtFacts DEF Steps
  <2>2. w \in Memory /\ w.at = "revert" /\ w.todo = {} /\ w.bad = bad
    BY <2>1 DEF Memory
  <2>3. Sound(w)
    BY <2>2 DEF Sound
  <2> QED
    BY <1>2, <2>2, <2>3 DEF Continue
<1>3. CASE todo = {} /\ bad = {}
  BY <1>3, StartFacts DEF Continue, Settled
<1> QED
  BY <1>1, <1>2, <1>3

\* An event that no longer stands takes its block with it.
LEMMA BlockIsDead ==
  ASSUME ChainInv, NEW s \in Seqs, ~log[s].live
  PROVE  log[s].block \in EventIds /\ Dead(log[s].block)
<1>1. log[s].block \in 1..MaxEvents /\ log[s].block <= s /\ s \in 1..Len(log) /\ Len(log) \in Nat
  BY SeqsFacts DEF ChainInv, BlocksAreWhole, Events
<1>2. log[s].block <= Len(log)
  BY <1>1, BoundsAssumption
<1>3. \A t \in Seqs : log[t].block = log[s].block => ~log[t].live
  BY DEF ChainInv, BlocksAreWhole
<1> QED
  BY <1>1, <1>2, <1>3 DEF Dead, EventIds

\* The list of provisional facts names logged events.
LEMMA ListProvisionalKeeps ==
  ASSUME IInv, NEW p \in Workers, ListProvisional(p)
  PROVE  IInv' /\ Decides
<1> DEFINE todo == {s \in EventIds : facts[s] = "provisional"}
<1>1. todo \subseteq Seqs /\ todo \in SUBSET EventIds
  BY DEF IInv, BooksInv, RowsAreLogged
<1>2. PICK w \in Memory : w = Continue(p, "check", todo, {}) /\ Sound(w)
  BY <1>1, ContinueFacts
<1> QED
  BY <1>2, OnlyKeeps DEF ListProvisional

\* A fact whose event is not processed condemns a dead block.
LEMMA CheckStatusKeeps ==
  ASSUME IInv, NEW p \in Workers, NEW s \in EventIds, CheckStatus(p, s)
  PROVE  IInv' /\ Decides
<1> DEFINE m == worker[p]
<1>1. /\ ChainInv /\ m \in Memory /\ Sound(m) /\ m.at = "check" /\ s \in m.todo
  BY DEF IInv, PassesInv, CheckStatus
<1>2. /\ m.todo \in SUBSET EventIds /\ m.bad \in SUBSET EventIds /\ m.todo \subseteq Seqs
      /\ \A b \in m.bad : Dead(b)
  BY <1>1 DEF Memory, Sound
<1>3. CASE Processed(s)
  <2> DEFINE e == [m EXCEPT !.at = "canonical", !.ev = s, !.final = Finalized(s)]
  <2>1. s \in 0..MaxEvents /\ Finalized(s) \in BOOLEAN
    <3>1. s \in 0..MaxEvents
      BY BoundsAssumption DEF EventIds
    <3>2. log[s].live \in BOOLEAN
      BY <1>1, <1>2, SeqsFacts DEF Events
    <3> QED
      BY <3>1, <3>2 DEF Finalized
  <2>2. /\ e \in Memory /\ e.at = "canonical" /\ e.ev = s /\ e.todo = m.todo /\ e.bad = m.bad
        /\ e.final = Finalized(s)
    BY <1>1, <2>1 DEF Memory, Steps
  <2>3. Finalized(s) => IsFinal(s)
    BY <1>1, <1>2 DEF Finalized, IsFinal
  <2>4. Sound(e)
    BY <1>1, <1>2, <2>2, <2>3 DEF Sound
  <2>5. PICK w \in Memory : w = e /\ Sound(w)
    BY <2>2, <2>4
  <2>6. Only(p, w)
    BY <1>3, <2>5 DEF CheckStatus
  <2> QED
    BY <2>5, <2>6, OnlyKeeps
<1>4. CASE ~Processed(s)
  <2> DEFINE rest == m.todo \ {s}
             bad == m.bad \union {log[s].block}
  <2>1. log[s].block \in EventIds /\ Dead(log[s].block)
    BY <1>1, <1>2, <1>4, BlockIsDead DEF Processed
  <2>2. PICK w \in Memory : w = Continue(p, "check", rest, bad) /\ Sound(w)
    BY <1>2, <2>1, ContinueFacts
  <2>3. Only(p, w)
    BY <1>4, <2>2 DEF CheckStatus
  <2> QED
    BY <2>2, <2>3, OnlyKeeps
<1> QED
  BY <1>3, <1>4

\* A fact stays marked for promotion only if its event is final.
LEMMA CheckCanonicalKeeps ==
  ASSUME IInv, NEW p \in Workers, CheckCanonical(p)
  PROVE  IInv' /\ Decides
<1> DEFINE m == worker[p]
           s == m.ev
           rest == m.todo \ {s}
<1>1. ChainInv /\ m \in Memory /\ Sound(m) /\ m.at = "canonical"
  BY DEF IInv, PassesInv, CheckCanonical
<1>2. /\ m.todo \in SUBSET EventIds /\ m.bad \in SUBSET EventIds /\ m.todo \subseteq Seqs
      /\ s \in m.todo /\ rest \in SUBSET EventIds /\ rest \subseteq Seqs
      /\ (m.final => IsFinal(s)) /\ \A b \in m.bad : Dead(b)
  BY <1>1 DEF Memory, Sound
<1>3. CASE ~Canonical(s)
  <2> DEFINE bad == m.bad \union {log[s].block}
  <2>1. log[s].block \in EventIds /\ Dead(log[s].block)
    BY <1>1, <1>2, <1>3, BlockIsDead DEF Canonical
  <2>2. PICK w \in Memory : w = Continue(p, "check", rest, bad) /\ Sound(w)
    BY <1>2, <2>1, ContinueFacts
  <2>3. Only(p, w)
    BY <1>3, <2>2 DEF CheckCanonical
  <2> QED
    BY <2>2, <2>3, OnlyKeeps
<1>4. CASE Canonical(s) /\ m.final
  <2> DEFINE e == [m EXCEPT !.at = "mark"]
  <2>1. e \in Memory /\ e.at = "mark" /\ e.ev = s /\ e.todo = m.todo /\ e.bad = m.bad
        /\ e.final = m.final
    BY <1>1 DEF Memory, Steps
  <2>2. Sound(e)
    BY <1>2, <1>4, <2>1 DEF Sound
  <2>3. PICK w \in Memory : w = e /\ Sound(w)
    BY <2>1, <2>2
  <2>4. Only(p, w)
    BY <1>4, <2>3 DEF CheckCanonical
  <2> QED
    BY <2>3, <2>4, OnlyKeeps
<1>5. CASE Canonical(s) /\ ~m.final
  <2>1. PICK w \in Memory : w = Continue(p, "check", rest, m.bad) /\ Sound(w)
    BY <1>2, ContinueFacts
  <2>2. Only(p, w)
    BY <1>5, <2>1 DEF CheckCanonical
  <2> QED
    BY <2>1, <2>2, OnlyKeeps
<1> QED
  BY <1>3, <1>4, <1>5

\* The promoted event is still final.
LEMMA PromoteKeeps ==
  ASSUME IInv, NEW p \in Workers, Promote(p)
  PROVE  IInv' /\ Decides
<1> DEFINE m == worker[p]
           rest == m.todo \ {m.ev}
<1>1. /\ ChainInv /\ BooksInv /\ m \in Memory /\ Sound(m) /\ m.at = "mark"
      /\ UNCHANGED <<chainVars, crashes>> /\ MarkFactFinalized(m.ev)
  BY DEF IInv, PassesInv, Promote
<1>2. /\ rest \in SUBSET EventIds /\ m.bad \in SUBSET EventIds /\ rest \subseteq Seqs
      /\ IsFinal(m.ev) /\ \A b \in m.bad : Dead(b)
  BY <1>1 DEF Memory, Sound
<1>3. PICK w \in Memory : w = Continue(p, "check", rest, m.bad) /\ Sound(w)
  BY <1>2, ContinueFacts
<1>4. BooksInv' /\ Advances /\ Decides
  <2>1. PICK s : s = m.ev
    OBVIOUS
  <2> QED
    BY <1>1, <1>2, <2>1, MarkKeeps
<1>5. Become(p, w)
  BY <1>3 DEF Promote
<1> QED
  BY <1>1, <1>3, <1>4, <1>5, WriteKeeps

\* The facts of a dead block are compensable.
LEMMA ListBlockKeeps ==
  ASSUME IInv, NEW p \in Workers, NEW b \in EventIds, ListBlock(p, b)
  PROVE  IInv' /\ Decides
<1> DEFINE m == worker[p]
           todo == {s \in Unreverted : log[s].block = b}
<1>1. BooksInv /\ m \in Memory /\ Sound(m) /\ m.at = "revert" /\ b \in m.bad
  BY DEF IInv, PassesInv, ListBlock
<1>2. m.bad \ {b} \in SUBSET EventIds /\ Dead(b) /\ \A c \in m.bad \ {b} : Dead(c)
  BY <1>1 DEF Memory, Sound
<1>3. todo \in SUBSET EventIds /\ \A s \in todo : Compensable(s)
  BY <1>1, <1>2 DEF Unreverted, BooksInv, RowsAreLogged, Compensable, Dead
<1>4. PICK w \in Memory : w = Continue(p, "balance", todo, m.bad \ {b}) /\ Sound(w)
  BY <1>2, <1>3, ContinueFacts
<1>5. Only(p, w)
  BY <1>4 DEF ListBlock
<1> QED
  BY <1>4, <1>5, OnlyKeeps

\* Reading the balance binds the loop to nothing but its list.
LEMMA ReadBalanceKeeps ==
  ASSUME IInv, NEW p \in Workers, NEW s \in EventIds, ReadBalance(p, s)
  PROVE  IInv' /\ Decides
<1> DEFINE m == worker[p]
           e == [m EXCEPT !.at = "post", !.ev = s, !.avail = available]
<1>1. /\ BooksInv /\ m \in Memory /\ Sound(m) /\ m.at = "balance" /\ s \in m.todo
  BY DEF IInv, PassesInv, ReadBalance
<1>2. s \in 0..MaxEvents /\ available \in 0..(Amount * MaxEvents)
  BY <1>1, BoundsAssumption DEF EventIds, BooksInv, BooksTypeOK
<1>3. e \in Memory /\ e.at = "post" /\ e.ev = s /\ e.todo = m.todo /\ e.bad = m.bad
  BY <1>1, <1>2 DEF Memory, Steps
<1>4. Sound(e)
  BY <1>1, <1>3 DEF Sound
<1>5. PICK w \in Memory : w = e /\ Sound(w)
  BY <1>3, <1>4
<1>6. Only(p, w)
  BY <1>5 DEF ReadBalance
<1> QED
  BY <1>5, <1>6, OnlyKeeps

\* The reverted event is still an orphan.
LEMMA PostReversalKeeps ==
  ASSUME IInv, NEW p \in Workers, PostReversal(p)
  PROVE  IInv' /\ Decides
<1> DEFINE m == worker[p]
           rest == m.todo \ {m.ev}
<1>1. /\ ChainInv /\ BooksInv /\ m \in Memory /\ Sound(m) /\ m.at = "post"
      /\ UNCHANGED <<chainVars, crashes>>
      /\ RevertPossible(m.ev, m.avail) /\ RevertFact(m.ev, m.avail)
  BY DEF IInv, PassesInv, PostReversal
<1>2. /\ rest \in SUBSET EventIds /\ m.bad \in SUBSET EventIds
      /\ \A s \in rest : Compensable(s)
      /\ Compensable(m.ev) /\ \A b \in m.bad : Dead(b)
  BY <1>1 DEF Memory, Sound
<1>3. PICK w \in Memory : w = Continue(p, "balance", rest, m.bad) /\ Sound(w)
  BY <1>2, ContinueFacts
<1>4. BooksInv' /\ Advances /\ Decides
  <2>1. m.avail \in Nat
    <3>1. m.avail \in 0..(Amount * MaxEvents) /\ Amount * MaxEvents \in Nat
      BY <1>1, Worth, BoundsAssumption DEF Memory
    <3> QED
      BY <3>1
  <2>2. PICK s \in EventIds, avail \in Nat : s = m.ev /\ avail = m.avail
    BY <1>1, <2>1 DEF Memory, Sound
  <2> QED
    BY <1>1, <1>2, <2>2, RevertKeeps
<1>5. Become(p, w)
  BY <1>3 DEF PostReversal
<1> QED
  BY <1>1, <1>3, <1>4, <1>5, WriteKeeps

\* settleFacts keeps the invariant.
LEMMA SettleKeeps ==
  ASSUME IInv, NEW p \in Workers, SettleFacts(p)
  PROVE  IInv' /\ Decides
<1>1. ASSUME ReversalFails(p)
      PROVE  IInv' /\ Decides
  <2>1. PICK w \in Memory : w = Idle /\ Sound(w)
    BY StartFacts DEF Idle
  <2> QED
    BY <1>1, <2>1, OnlyKeeps DEF ReversalFails
<1> QED
  BY <1>1, ListProvisionalKeeps, CheckStatusKeeps, CheckCanonicalKeeps, PromoteKeeps, ListBlockKeeps,
     ReadBalanceKeeps, PostReversalKeeps DEF SettleFacts

-----------------------------------------------------------------------------
(* InboxTick and Reconcile *)

\* The loop polls from a cursor that only moves up.
LEMMA ReadCursorKeeps ==
  ASSUME IInv, NEW p \in Workers, ReadCursor(p)
  PROVE  IInv' /\ Decides
<1> DEFINE e == [At("poll", {}) EXCEPT !.ev = cursor]
<1>1. cursor \in 0..MaxEvents /\ cursor <= cursor
  BY BoundsAssumption DEF IInv, BooksInv, BooksTypeOK
<1>2. At("poll", {}) \in Memory /\ At("poll", {}).at = "poll"
  BY AtFacts DEF Steps
<1>3. e \in Memory /\ e.at = "poll" /\ e.ev = cursor
  BY <1>1, <1>2 DEF Memory
<1>4. Sound(e)
  BY <1>1, <1>3 DEF Sound
<1>5. PICK w \in Memory : w = e /\ Sound(w)
  BY <1>3, <1>4
<1>6. Only(p, w)
  BY <1>5 DEF ReadCursor
<1> QED
  BY <1>5, <1>6, OnlyKeeps

\* Events up to the cursor are recorded, those after it are in hand.
LEMMA PollEventsKeeps ==
  ASSUME IInv, NEW p \in Workers, NEW upTo \in 0..MaxEvents, PollEvents(p, upTo)
  PROVE  IInv' /\ Decides
<1> DEFINE since == worker[p].ev
           e == [At("record", (since + 1)..upTo) EXCEPT !.ev = upTo]
<1>1. /\ ChainInv /\ BooksInv /\ worker[p] \in Memory /\ Sound(worker[p])
      /\ worker[p].at = "poll" /\ Delivers(since, upTo)
  BY DEF IInv, PassesInv, PollEvents
<1>2. /\ since \in 0..MaxEvents /\ since <= cursor /\ cursor \in 0..MaxEvents
      /\ upTo <= Len(log) /\ Len(log) \in Nat /\ MaxEvents \in Nat
  BY <1>1, SeqsFacts, BoundsAssumption DEF Memory, Sound, BooksInv, BooksTypeOK, Delivers
<1>3. CASE upTo = since
  <2>1. PICK w \in Memory : w = At("pending", {}) /\ Sound(w)
    BY StartFacts
  <2>2. Only(p, w)
    BY <1>3, <2>1 DEF PollEvents
  <2> QED
    BY <2>1, <2>2, OnlyKeeps
<1>4. CASE upTo # since
  <2>1. (since + 1)..upTo \in SUBSET EventIds /\ (since + 1)..upTo \subseteq Seqs
    BY <1>1, <1>2, SeqsFacts DEF EventIds
  <2>2. /\ At("record", (since + 1)..upTo) \in Memory
        /\ At("record", (since + 1)..upTo).at = "record"
        /\ At("record", (since + 1)..upTo).todo = (since + 1)..upTo
    <3>1. PICK todo \in SUBSET EventIds : todo = (since + 1)..upTo
      BY <2>1
    <3>2. "record" \in Steps
      BY DEF Steps
    <3>3. /\ At("record", todo) \in Memory /\ At("record", todo).at = "record"
          /\ At("record", todo).todo = todo
      BY <3>2, AtFacts
    <3> QED
      BY <3>1, <3>3
  <2>3. e \in Memory /\ e.at = "record" /\ e.ev = upTo /\ e.todo = (since + 1)..upTo
    BY <2>2 DEF Memory
  <2>4. \A s \in 1..upTo : s \in (since + 1)..upTo \/ events[s] # "none"
    BY <1>1, <1>2 DEF BooksInv, CursorSkipsNothing
  <2>5. Sound(e)
    BY <2>1, <2>3, <2>4 DEF Sound
  <2>6. PICK w \in Memory : w = e /\ Sound(w)
    BY <2>3, <2>5
  <2>7. Only(p, w)
    BY <1>4, <2>6 DEF PollEvents
  <2> QED
    BY <2>6, <2>7, OnlyKeeps
<1> QED
  BY <1>3, <1>4

\* Recording the last event of a poll is what entitles the loop to advance.
LEMMA RecordStepKeeps ==
  ASSUME IInv, NEW p \in Workers, NEW s \in EventIds, Record(p, s)
  PROVE  IInv' /\ Decides
<1> DEFINE m == worker[p]
           rest == m.todo \ {s}
           e == [m EXCEPT !.at = IF rest = {} THEN "advance" ELSE "record", !.todo = rest]
<1>1. /\ ChainInv /\ BooksInv /\ BooksTypeOK /\ PassesInv
      /\ m \in Memory /\ Sound(m) /\ m.at = "record" /\ s \in m.todo
      /\ UNCHANGED <<chainVars, crashes>> /\ RecordEvent(s) /\ Become(p, e)
  BY DEF IInv, BooksInv, PassesInv, Record
<1>2. s \in Seqs /\ rest \subseteq Seqs /\ m.ev \in 0..MaxEvents
      /\ \A t \in 1..m.ev : t \in m.todo \/ events[t] # "none"
  BY <1>1 DEF Memory, Sound
<1>3. /\ BooksInv' /\ Advances /\ Decides
      /\ events'[s] # "none" /\ \A t \in EventIds : events[t] # "none" => events'[t] # "none"
  BY <1>1, <1>2, RecordKeeps
<1>4. /\ e \in Memory /\ e.at = IF rest = {} THEN "advance" ELSE "record"
      /\ e.ev = m.ev /\ e.todo = rest
  BY <1>1 DEF Memory, Steps
<1>5. PICK w \in Memory : w = e
  BY <1>4
<1>6. /\ w.at = IF rest = {} THEN "advance" ELSE "record"
      /\ w.ev = m.ev /\ w.todo = rest /\ Become(p, w)
  BY <1>1, <1>4, <1>5
<1>7. \A t \in 1..w.ev : t \in w.todo \/ events'[t] # "none"
  BY <1>2, <1>3, <1>6, BoundsAssumption DEF EventIds
<1>8. w.todo \subseteq Seqs' /\ ChainInv'
  BY <1>1, <1>2, <1>6 DEF chainVars, Seqs, ChainInv, ChainTypeOK, BlocksAreWhole,
         OneEventPerDeposit
<1>9. Sound(w)'
  BY <1>6, <1>7, <1>8 DEF Sound
<1>10. BooksTypeOK'
  BY <1>3 DEF BooksInv
<1>11. PassesInv'
  BY <1>1, <1>3, <1>6, <1>8, <1>9, <1>10, PassesKeep
<1> QED
  BY <1>1, <1>3, <1>8, <1>11 DEF IInv

\* The cursor moves over recorded events.
LEMMA AdvanceCursorKeeps ==
  ASSUME IInv, NEW p \in Workers, AdvanceCursor(p)
  PROVE  IInv' /\ Decides
<1> DEFINE upTo == worker[p].ev
<1>1. /\ ChainInv /\ BooksInv /\ BooksTypeOK /\ worker[p] \in Memory /\ Sound(worker[p])
      /\ worker[p].at = "advance"
      /\ cursor' = IF upTo > cursor THEN upTo ELSE cursor
      /\ UNCHANGED <<chainVars, events, facts, available, spent, insurance, frozen, crashes>>
  BY DEF IInv, BooksInv, PassesInv, AdvanceCursor
<1>2. upTo \in 0..MaxEvents /\ \A s \in 1..upTo : events[s] # "none"
  BY <1>1 DEF Memory, Sound
<1>3. cursor \in 0..MaxEvents /\ cursor' \in 0..MaxEvents /\ cursor <= cursor'
  BY <1>1, <1>2, BoundsAssumption DEF BooksTypeOK
<1>4. CursorSkipsNothing' /\ BooksTypeOK'
  BY <1>1, <1>2, <1>3 DEF BooksInv, CursorSkipsNothing, BooksTypeOK
<1>5. RowsAreLogged' /\ FinalFactsAreReal' /\ OnlyOrphansAreReverted' /\ LedgerMatchesFacts'
      /\ SpendingIsCovered'
  BY <1>1 DEF BooksInv, RowsAreLogged, FinalFactsAreReal, OnlyOrphansAreReverted, LedgerMatchesFacts,
         SpendingIsCovered, Unreverted, Credited, IsFinal, Seqs, chainVars
<1>6. Advances /\ Decides
  BY <1>1, <1>3, WritesAdvance, BoundsAssumption DEF Decides
<1>7. PICK w \in Memory : w = At("pending", {}) /\ Sound(w)
  BY StartFacts
<1>8. Become(p, w)
  BY <1>7 DEF AdvanceCursor
<1> QED
  BY <1>1, <1>4, <1>5, <1>6, <1>7, <1>8, WriteKeeps DEF BooksInv

\* Received events are logged.
LEMMA ListPendingKeeps ==
  ASSUME IInv, NEW p \in Workers, ListPending(p)
  PROVE  IInv' /\ Decides
<1> DEFINE pending == {s \in EventIds : events[s] = "received"}
<1>1. pending \in SUBSET EventIds /\ pending \subseteq Seqs
  BY DEF IInv, BooksInv, RowsAreLogged
<1>2. /\ At("apply", pending) \in Memory /\ At("apply", pending).at = "apply"
      /\ At("apply", pending).todo = pending
  BY <1>1, AtFacts DEF Steps
<1>3. Sound(At("apply", pending))
  BY <1>1, <1>2 DEF Sound
<1>4. Idle \in Memory /\ Sound(Idle)
  BY StartFacts DEF Idle
<1>5. PICK w \in Memory : w = (IF pending = {} THEN Idle ELSE At("apply", pending)) /\ Sound(w)
  BY <1>2, <1>3, <1>4
<1>6. Only(p, w)
  BY <1>5 DEF ListPending
<1> QED
  BY <1>5, <1>6, OnlyKeeps

\* Applying a received event.
LEMMA ApplyStepKeeps ==
  ASSUME IInv, NEW p \in Workers, NEW s \in EventIds, Apply(p, s)
  PROVE  IInv' /\ Decides
<1> DEFINE rest == worker[p].todo \ {s}
<1>1. /\ ChainInv /\ BooksInv /\ worker[p] \in Memory /\ Sound(worker[p])
      /\ worker[p].at = "apply" /\ s \in worker[p].todo
      /\ UNCHANGED <<chainVars, crashes>> /\ ApplyDeposit(s)
  BY DEF IInv, PassesInv, Apply
<1>2. s \in Seqs /\ rest \in SUBSET EventIds /\ rest \subseteq Seqs
  BY <1>1 DEF Memory, Sound
<1>3. BooksInv' /\ Advances /\ Decides
  BY <1>1, <1>2, ApplyKeeps
<1>4. /\ At("apply", rest) \in Memory /\ At("apply", rest).at = "apply"
      /\ At("apply", rest).todo = rest
  BY <1>2, AtFacts DEF Steps
<1>5. Sound(At("apply", rest))
  BY <1>2, <1>4 DEF Sound
<1>6. Idle \in Memory /\ Sound(Idle)
  BY StartFacts DEF Idle
<1>7. PICK w \in Memory : w = (IF rest = {} THEN Idle ELSE At("apply", rest)) /\ Sound(w)
  BY <1>4, <1>5, <1>6
<1>8. Become(p, w)
  BY <1>7 DEF Apply
<1> QED
  BY <1>1, <1>3, <1>7, <1>8, WriteKeeps

\* InboxTick keeps the invariant.
LEMMA InboxKeeps ==
  ASSUME IInv, NEW p \in Workers, InboxTick(p)
  PROVE  IInv' /\ Decides
  BY SettleKeeps, ReadCursorKeeps, PollEventsKeeps, RecordStepKeeps, AdvanceCursorKeeps,
     ListPendingKeeps, ApplyStepKeeps DEF InboxTick

\* The reads of a reconcile pass.
LEMMA ReadAppliedKeeps ==
  ASSUME IInv, NEW p \in Workers, ReadApplied(p)
  PROVE  IInv' /\ Decides
<1>1. At("missing", Unreverted) \in Memory /\ At("missing", Unreverted).at = "missing"
  BY AtFacts DEF Steps, Unreverted
<1>2. Sound(At("missing", Unreverted))
  BY <1>1 DEF Sound
<1>3. PICK w \in Memory : w = At("missing", Unreverted) /\ Sound(w)
  BY <1>1, <1>2
<1>4. Only(p, w)
  BY <1>3 DEF ReadApplied
<1> QED
  BY <1>3, <1>4, OnlyKeeps

\* What is healed is final.
LEMMA FindMissingKeeps ==
  ASSUME IInv, NEW p \in Workers, FindMissing(p)
  PROVE  IInv' /\ Decides
<1> DEFINE known == {log[s].fact : s \in worker[p].todo}
           missing == {s \in Seqs : Finalized(s) /\ log[s].fact \notin known}
<1>1. missing \in SUBSET EventIds /\ \A s \in missing : IsFinal(s)
  BY SeqsFacts DEF IInv, Finalized, IsFinal
<1>2. /\ At("heal", missing) \in Memory /\ At("heal", missing).at = "heal"
      /\ At("heal", missing).todo = missing
  BY <1>1, AtFacts DEF Steps
<1>3. Sound(At("heal", missing))
  BY <1>1, <1>2 DEF Sound
<1>4. Idle \in Memory /\ Sound(Idle)
  BY StartFacts DEF Idle
<1>5. PICK w \in Memory : w = (IF missing = {} THEN Idle ELSE At("heal", missing)) /\ Sound(w)
  BY <1>2, <1>3, <1>4
<1>6. Only(p, w)
  BY <1>5 DEF FindMissing
<1> QED
  BY <1>5, <1>6, OnlyKeeps

\* Recording the event to heal.
LEMMA HealRecordKeeps ==
  ASSUME IInv, NEW p \in Workers, NEW s \in EventIds, HealRecord(p, s)
  PROVE  IInv' /\ Decides
<1> DEFINE m == worker[p]
           e == [m EXCEPT !.at = "healApply", !.ev = s]
<1>1. /\ ChainInv /\ BooksInv /\ m \in Memory /\ Sound(m) /\ m.at = "heal" /\ s \in m.todo
      /\ UNCHANGED <<chainVars, crashes>> /\ RecordEvent(s) /\ Become(p, e)
  BY DEF IInv, PassesInv, HealRecord
<1>2. \A t \in m.todo : IsFinal(t)
  BY <1>1 DEF Sound
<1>3. BooksInv' /\ Advances /\ Decides
  BY <1>1, <1>2, RecordKeeps DEF IsFinal
<1>4. s \in 0..MaxEvents
  BY BoundsAssumption DEF EventIds
<1>5. e \in Memory /\ e.at = "healApply" /\ e.ev = s /\ e.todo = m.todo
  BY <1>1, <1>4 DEF Memory, Steps
<1>6. Sound(e)
  BY <1>1, <1>2, <1>5 DEF Sound
<1>7. PICK w \in Memory : w = e /\ Sound(w)
  BY <1>5, <1>6
<1>8. Become(p, w)
  BY <1>1, <1>7
<1> QED
  BY <1>1, <1>3, <1>7, <1>8, WriteKeeps

\* Crediting the event to heal.
LEMMA HealApplyKeeps ==
  ASSUME IInv, NEW p \in Workers, HealApply(p)
  PROVE  IInv' /\ Decides
<1> DEFINE m == worker[p]
           e == [m EXCEPT !.at = "healMark"]
<1>1. /\ ChainInv /\ BooksInv /\ m \in Memory /\ Sound(m) /\ m.at = "healApply"
      /\ UNCHANGED <<chainVars, crashes>> /\ ApplyDeposit(m.ev) /\ Become(p, e)
  BY DEF IInv, PassesInv, HealApply
<1>2. m.ev \in m.todo /\ \A t \in m.todo : IsFinal(t)
  BY <1>1 DEF Sound
<1>3. BooksInv' /\ Advances /\ Decides
  <2>1. PICK s \in Seqs : s = m.ev
    BY <1>2 DEF IsFinal
  <2> QED
    BY <1>1, <2>1, ApplyKeeps
<1>4. e \in Memory /\ e.at = "healMark" /\ e.ev = m.ev /\ e.todo = m.todo
  BY <1>1 DEF Memory, Steps
<1>5. Sound(e)
  BY <1>2, <1>4 DEF Sound
<1>6. PICK w \in Memory : w = e /\ Sound(w)
  BY <1>4, <1>5
<1>7. Become(p, w)
  BY <1>1, <1>6
<1> QED
  BY <1>1, <1>3, <1>6, <1>7, WriteKeeps

\* Promoting the healed event, which is still final.
LEMMA HealMarkKeeps ==
  ASSUME IInv, NEW p \in Workers, HealMark(p)
  PROVE  IInv' /\ Decides
<1> DEFINE m == worker[p]
           rest == m.todo \ {m.ev}
<1>1. /\ ChainInv /\ BooksInv /\ m \in Memory /\ Sound(m) /\ m.at = "healMark"
      /\ UNCHANGED <<chainVars, crashes>> /\ MarkFactFinalized(m.ev)
  BY DEF IInv, PassesInv, HealMark
<1>2. m.ev \in m.todo /\ rest \in SUBSET EventIds /\ \A t \in m.todo : IsFinal(t)
  BY <1>1 DEF Memory, Sound
<1>3. BooksInv' /\ Advances /\ Decides
  <2>1. PICK s \in EventIds : s = m.ev
    BY <1>1, <1>2 DEF Memory
  <2> QED
    BY <1>1, <1>2, <2>1, MarkKeeps
<1>4. /\ At("heal", rest) \in Memory /\ At("heal", rest).at = "heal"
      /\ At("heal", rest).todo = rest
  BY <1>2, AtFacts DEF Steps
<1>5. Sound(At("heal", rest))
  BY <1>2, <1>4 DEF Sound
<1>6. Idle \in Memory /\ Sound(Idle)
  BY StartFacts DEF Idle
<1>7. PICK w \in Memory : w = (IF rest = {} THEN Idle ELSE At("heal", rest)) /\ Sound(w)
  BY <1>4, <1>5, <1>6
<1>8. Become(p, w)
  BY <1>7 DEF HealMark
<1> QED
  BY <1>1, <1>3, <1>7, <1>8, WriteKeeps

\* Reconcile keeps the invariant.
LEMMA ReconcileKeeps ==
  ASSUME IInv, NEW p \in Workers, Reconcile(p)
  PROVE  IInv' /\ Decides
  BY SettleKeeps, ReadAppliedKeeps, FindMissingKeeps, HealRecordKeeps, HealApplyKeeps, HealMarkKeeps
     DEF Reconcile

\* A crash loses the loop's memory and nothing else.
LEMMA CrashKeeps ==
  ASSUME IInv, NEW p \in Workers, crashes < MaxCrashes, crashes' = crashes + 1,
         Become(p, Idle), UNCHANGED <<chainVars, dbVars>>
  PROVE  IInv' /\ Decides
<1>1. /\ ChainInv /\ BooksInv /\ BooksTypeOK /\ PassesInv
      /\ UNCHANGED <<chainVars, dbVars>> /\ crashes' \in 0..MaxCrashes
  BY CrashesAssumption DEF IInv, BooksInv
<1>2. PICK w \in Memory : w = Idle /\ Sound(w)
  BY StartFacts DEF Idle
<1>3. Become(p, w)
  BY <1>2
<1>4. Advances /\ Decides /\ ChainInv'
  BY <1>1, StillAdvances
<1>5. BooksInv'
  BY <1>1 DEF BooksInv, BooksTypeOK, RowsAreLogged, FinalFactsAreReal, OnlyOrphansAreReverted,
         LedgerMatchesFacts, SpendingIsCovered, CursorSkipsNothing, Unreverted, Credited, IsFinal,
         Seqs, chainVars, dbVars
<1>6. cursor \in Nat /\ cursor' \in Nat /\ BooksTypeOK'
  BY <1>1, <1>5, BoundsAssumption DEF BooksInv, BooksTypeOK
<1>7. Sound(w)'
  BY <1>1, <1>2, <1>4, <1>6, SoundLasts
<1>8. PassesInv'
  BY <1>1, <1>3, <1>4, <1>6, <1>7, PassesKeep
<1> QED
  BY <1>1, <1>4, <1>5, <1>8 DEF IInv

-----------------------------------------------------------------------------
(* Theorems *)

\* The invariant holds initially ...
LEMMA InitHolds == Init => IInv
<1> SUFFICES ASSUME Init
             PROVE  IInv
  OBVIOUS
<1>1. ChainInv
  BY BoundsAssumption DEF Init, ChainInit, ChainInv, ChainTypeOK, BlocksAreWhole,
         OneEventPerDeposit, Heights, Seqs
<1>2. Unreverted = {} /\ Credited = {}
  BY DEF Init, Unreverted, Credited
<1>3. Cardinality(Unreverted) = 0 /\ Cardinality(Credited) = 0 /\ Amount * 0 = 0
  BY <1>2, FS_EmptySet, AmountAssumption
<1>4. LedgerMatchesFacts /\ SpendingIsCovered
  BY <1>3 DEF Init, LedgerMatchesFacts, SpendingIsCovered
<1>5. BooksTypeOK
  <2>1. 0 \in 0..(Amount * MaxEvents) /\ 0 \in -(Amount * MaxEvents)..0 /\ 0 \in 0..MaxEvents
    BY Worth, BoundsAssumption
  <2> QED
    BY <2>1 DEF Init, BooksTypeOK, EventStates, FactStates
<1>6. RowsAreLogged /\ FinalFactsAreReal /\ OnlyOrphansAreReverted /\ CursorSkipsNothing
  BY DEF Init, RowsAreLogged, FinalFactsAreReal, OnlyOrphansAreReverted, CursorSkipsNothing
<1>7. PassesInv
  BY StartFacts DEF Init, PassesInv, Idle
<1> QED
  BY <1>1, <1>4, <1>5, <1>6, <1>7, CrashesAssumption DEF Init, IInv, BooksInv

\* ... and every step keeps it.
LEMMA StepHolds == IInv /\ [Next]_vars => IInv' /\ Decides
<1> SUFFICES ASSUME IInv, [Next]_vars
             PROVE  IInv' /\ Decides
  OBVIOUS
<1>1. CASE UNCHANGED vars
  BY <1>1 DEF vars, chainVars, dbVars, IInv, ChainInv, ChainTypeOK, BlocksAreWhole,
         OneEventPerDeposit, BooksInv,
         BooksTypeOK, RowsAreLogged, FinalFactsAreReal, OnlyOrphansAreReverted, LedgerMatchesFacts,
         SpendingIsCovered, CursorSkipsNothing, Unreverted, Credited, IsFinal, Seqs, PassesInv,
         Sound, Dead, Compensable, Decides
<1>2. CASE Next
  BY <1>2, UserKeeps, MineKeeps, InboxKeeps, ReconcileKeeps, CrashKeeps
     DEF Next, Workers, Crash
<1> QED
  BY <1>1, <1>2

\* The inductive invariant holds: the books agree with each other and with the
\* chain, and every loop is right to rely on what it read, whatever the other
\* loops, the chain and a crash did since.
THEOREM Invariance == Spec => []IInv
<1>1. IInv /\ [Next]_vars => IInv'
  BY StepHolds
<1> QED
  BY <1>1, InitHolds, PTL DEF Spec

\* Every variable stays within its type.
THEOREM TypeCorrect == Spec => []TypeOK
<1>1. IInv => TypeOK
  BY DEF IInv, ChainInv, BooksInv, BooksTypeOK, PassesInv, TypeOK
<1> QED
  BY <1>1, Invariance, PTL

\* settleFacts and the healing of Reconcile promote only credits whose block is
\* final, whatever reorgs they overlap with.
THEOREM FinalFactsReal == Spec => []FinalFactsAreReal
<1>1. IInv => FinalFactsAreReal
  BY DEF IInv, BooksInv
<1> QED
  BY <1>1, Invariance, PTL

\* RevertBlock takes back only credits whose block is gone for good.
THEOREM OnlyOrphansReverted == Spec => []OnlyOrphansAreReverted
<1>1. IInv => OnlyOrphansAreReverted
  BY DEF IInv, BooksInv
<1> QED
  BY <1>1, Invariance, PTL

\* Credits, replays, reversals and spending keep the ledger equal to chain_facts.
THEOREM LedgerAgrees == Spec => []LedgerMatchesFacts
<1>1. IInv => LedgerMatchesFacts
  BY DEF IInv, BooksInv
<1> QED
  BY <1>1, Invariance, PTL

\* AdvanceCursor never passes an event that InboxTick has not recorded.
THEOREM CursorIsSafe == Spec => []CursorSkipsNothing
<1>1. IInv => CursorSkipsNothing
  BY DEF IInv, BooksInv
<1> QED
  BY <1>1, Invariance, PTL

\* No pass undoes the promotion or the reversal of a credit.
THEOREM DecidedFactsStay == Spec => FactsStayDecided
<1>1. IInv /\ [Next]_vars
        => [\A s \in EventIds : facts[s] \in {"final", "reverted"} => facts'[s] = facts[s]]_vars
  BY StepHolds DEF Decides
<1> QED
  BY <1>1, Invariance, PTL DEF Spec, FactsStayDecided
=============================================================================
