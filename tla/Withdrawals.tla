---------------------------- MODULE Withdrawals -----------------------------
(***************************************************************************)
(* The withdrawal pipeline: the intents and outbox tables, the outbox      *)
(* worker that submits calls and the resolver that confirms or refunds     *)
(* (internal/core/intent.go, internal/app/app.go), over the chain.         *)
(*                                                                         *)
(* A database transaction is one step; so is a call to the chain, which    *)
(* holds its lock for the whole call.  Everything between two of them is   *)
(* worker memory, lost when the process dies.  Leases and retry delays are *)
(* clock times: a row may become due at any moment.                        *)
(***************************************************************************)
EXTENDS VaultChain

CONSTANTS
  Procs,        \* service processes (replicas), each with both workers
  None,         \* no nonce
  LastRequest,  \* bound: requests are stamped while head is at most this
  MaxCrashes    \* bound on process crashes and aborted ticks

ASSUME ProcsAssumption == Procs # {}
ASSUME NoneAssumption == None \notin Nonces
ASSUME WithdrawalBounds == LastRequest \in Nat /\ MaxCrashes \in Nat

VARIABLES
  intent,       \* intents.state, "none" before the row exists
  block,        \* intents.block_height, 0 while null
  posted,       \* transfers posted for the intent, by idempotency key
  outbox,       \* outbox.state of the intent's row
  sender,       \* outbox worker: leased jobs and the call it is handling
  resolver,     \* resolver: snapshot, head it read, intent it is handling
  crashes

dbVars == <<intent, block, posted, outbox>>
vars == <<chainVars, dbVars, sender, resolver, crashes>>

IntentStates == {"none", "reserved", "submitted", "confirmed", "expired"}
OutboxStates == {"none", "pending", "sending", "sent"}
Transfers == {"reserve", "final", "refund"}

Senders == [at : {"idle", "submit", "mark", "row"},
            jobs : SUBSET Nonces, nonce : Nonces \union {None}, acked : BOOLEAN]
Resolvers == [at : {"idle", "head", "scan", "ask", "cancel", "recheck", "expire", "confirm"},
              todo : SUBSET Nonces, nonce : Nonces \union {None},
              head : Heights, height : Heights]

IdleSender == [at |-> "idle", jobs |-> {}, nonce |-> None, acked |-> FALSE]

\* A resolver between two intents of a pass, or between two passes.
Between(at, todo, h) ==
  [at |-> at, todo |-> todo, nonce |-> None, head |-> h, height |-> 0]
IdleResolver == Between("idle", {}, 0)

TypeOK ==
  /\ ChainTypeOK
  /\ intent \in [Nonces -> IntentStates]
  /\ block \in [Nonces -> Heights]
  /\ posted \in [Nonces -> SUBSET Transfers]
  /\ outbox \in [Nonces -> OutboxStates]
  /\ sender \in [Procs -> Senders]
  /\ resolver \in [Procs -> Resolvers]
  /\ crashes \in 0..MaxCrashes

Init ==
  /\ ChainInit
  /\ intent = [n \in Nonces |-> "none"]
  /\ block = [n \in Nonces |-> 0]
  /\ posted = [n \in Nonces |-> {}]
  /\ outbox = [n \in Nonces |-> "none"]
  /\ sender = [p \in Procs |-> IdleSender]
  /\ resolver = [p \in Procs |-> IdleResolver]
  /\ crashes = 0

\* fault: a submitted intent is no longer watched
InFlightReserved == {n \in Nonces : intent[n] = "reserved"}

InFlight == {n \in Nonces : intent[n] \in {"reserved", "submitted"}}

-----------------------------------------------------------------------------
(* Requests *)

\* App.RequestWithdraw reads the head first and stamps the expiry from it ...
ReadHeadForRequest(n) ==
  /\ head <= LastRequest
  /\ Stamp(n)
  /\ UNCHANGED <<dbVars, sender, resolver, crashes>>

\* ... then Store.RequestWithdraw reserves the funds and writes the intent and
\* its outbox row in one transaction, however far the head has moved meanwhile.
\* A replayed key, a frozen or an underfunded account changes nothing.
RequestWithdraw(n) ==
  /\ intent[n] = "none"
  /\ expiry[n] # 0
  /\ intent' = [intent EXCEPT ![n] = "reserved"]
  /\ posted' = [posted EXCEPT ![n] = {"reserve"}]
  /\ outbox' = [outbox EXCEPT ![n] = "pending"]
  /\ UNCHANGED <<chainVars, block, sender, resolver, crashes>>

-----------------------------------------------------------------------------
(* OutboxTick *)

\* fault: a row whose lease ran out is not leased again
LeasablePending == {n \in Nonces : outbox[n] = "pending"}

\* Lease the rows that are due: pending ones whose retry delay has passed and
\* sending ones whose lease has run out.  The worker's own leases never do
\* while it is still in the tick.
Leasable == {n \in Nonces : outbox[n] \in {"pending", "sending"}}

LeaseOutbox(p, due) ==
  /\ sender[p].at = "idle"
  /\ due # {} /\ due \subseteq Leasable
  /\ outbox' = [n \in Nonces |-> IF n \in due THEN "sending" ELSE outbox[n]]
  /\ sender' = [sender EXCEPT ![p] = [@ EXCEPT !.at = "submit", !.jobs = due]]
  /\ UNCHANGED <<chainVars, intent, block, posted, resolver, crashes>>

SubmitJob(p, n, acked) ==
  /\ sender[p].at = "submit"
  /\ n \in sender[p].jobs
  /\ Submit(n, acked)
  /\ sender' = [sender EXCEPT ![p] = [@ EXCEPT !.at = "mark", !.nonce = n, !.acked = acked]]
  /\ UNCHANGED <<dbVars, resolver, crashes>>

\* fault: the state is not looked at
MarkSubmittedAlways(p) ==
  /\ sender[p].at = "mark"
  /\ intent' = [intent EXCEPT ![sender[p].nonce] = "submitted"]
  /\ sender' = [sender EXCEPT ![p] = [@ EXCEPT !.at = "row"]]
  /\ UNCHANGED <<chainVars, block, posted, outbox, resolver, crashes>>

\* MarkSubmitted: whatever Submit answered, the chain may now have the call.
MarkSubmitted(p) ==
  LET n == sender[p].nonce
  IN /\ sender[p].at = "mark"
     /\ intent' = [intent EXCEPT ![n] = IF @ = "reserved" THEN "submitted" ELSE @]
     /\ sender' = [sender EXCEPT ![p] = [@ EXCEPT !.at = "row"]]
     /\ UNCHANGED <<chainVars, block, posted, outbox, resolver, crashes>>

\* The row is settled only if nobody else has settled it since it was leased.
SettleRow(p) ==
  LET n    == sender[p].nonce
      rest == sender[p].jobs \ {n}
  IN /\ sender[p].at = "row"
     /\ outbox' = [outbox EXCEPT ![n] =
                     IF @ # "sending" THEN @ ELSE IF sender[p].acked THEN "sent" ELSE "pending"]
     /\ sender' = [sender EXCEPT ![p] =
                     IF rest = {} THEN IdleSender
                     ELSE [IdleSender EXCEPT !.at = "submit", !.jobs = rest]]
     /\ UNCHANGED <<chainVars, intent, block, posted, resolver, crashes>>

-----------------------------------------------------------------------------
(* ResolverTick *)

\* The intent at hand is dealt with: take the next one, or end the tick.
NextIntent(r) ==
  LET rest == r.todo \ {r.nonce}
  IN IF rest = {} THEN IdleResolver
     ELSE Between("scan", rest, r.head)

Resolve(p, r) ==
  resolver' = [resolver EXCEPT ![p] = r]

ListInFlight(p) ==
  /\ resolver[p].at = "idle"
  /\ InFlight # {}
  /\ Resolve(p, Between("head", InFlight, 0))
  /\ UNCHANGED <<chainVars, dbVars, sender, crashes>>

\* One head for the whole pass.
ReadHead(p) ==
  /\ resolver[p].at = "head"
  /\ Resolve(p, [resolver[p] EXCEPT !.at = "scan", !.head = head])
  /\ UNCHANGED <<chainVars, dbVars, sender, crashes>>

PastExpiry(p, n) == resolver[p].head > expiry[n]

\* TxStatus decides what the pass does with the intent.
CheckStatus(p, n) ==
  LET r == [resolver[p] EXCEPT !.nonce = n]
  IN /\ resolver[p].at = "scan"
     /\ n \in resolver[p].todo
     /\ \/ /\ Finalized(n)
           /\ Resolve(p, [r EXCEPT !.at = "confirm", !.height = paidAt[n]])
        \/ /\ Processed(n) /\ ~Finalized(n)
           /\ Resolve(p, NextIntent(r))
        \/ /\ ~Processed(n) /\ ~PastExpiry(p, n)
           /\ Resolve(p, NextIntent(r))
        \/ /\ ~Processed(n) /\ PastExpiry(p, n)
           /\ Resolve(p, [r EXCEPT !.at = "ask"])
     /\ UNCHANGED <<chainVars, dbVars, sender, crashes>>

AskExpired(p) ==
  /\ resolver[p].at = "ask"
  /\ Resolve(p, [resolver[p] EXCEPT !.at =
                    IF Expired(resolver[p].nonce) THEN "recheck" ELSE "cancel"])
  /\ UNCHANGED <<chainVars, dbVars, sender, crashes>>

CancelNonce(p, inForce) ==
  /\ resolver[p].at = "cancel"
  /\ Cancel(resolver[p].nonce, inForce)
  /\ Resolve(p, IF inForce THEN [resolver[p] EXCEPT !.at = "recheck"]
                ELSE NextIntent(resolver[p]))
  /\ UNCHANGED <<dbVars, sender, crashes>>

RecheckExpired(p) ==
  /\ resolver[p].at = "recheck"
  /\ Resolve(p, IF Expired(resolver[p].nonce) THEN [resolver[p] EXCEPT !.at = "expire"]
                ELSE NextIntent(resolver[p]))
  /\ UNCHANGED <<chainVars, dbVars, sender, crashes>>

\* Store.Expire and Store.Confirm lock the row, look at the state it has now
\* and do nothing (or report a conflict the resolver skips) unless the intent
\* is still in flight.
Expire(p) ==
  LET n == resolver[p].nonce
  IN /\ resolver[p].at = "expire"
     /\ IF n \in InFlight /\ PastExpiry(p, n)
        THEN /\ intent' = [intent EXCEPT ![n] = "expired"]
             /\ posted' = [posted EXCEPT ![n] = @ \union {"refund"}]
        ELSE UNCHANGED <<intent, posted>>
     /\ Resolve(p, NextIntent(resolver[p]))
     /\ UNCHANGED <<chainVars, block, outbox, sender, crashes>>

\* fault: the locked row's state is not looked at
ConfirmAlways(p) ==
  LET n == resolver[p].nonce
  IN /\ resolver[p].at = "confirm"
     /\ intent' = [intent EXCEPT ![n] = "confirmed"]
     /\ posted' = [posted EXCEPT ![n] = @ \union {"final"}]
     /\ block' = [block EXCEPT ![n] = resolver[p].height]
     /\ Resolve(p, NextIntent(resolver[p]))
     /\ UNCHANGED <<chainVars, outbox, sender, crashes>>

Confirm(p) ==
  LET n == resolver[p].nonce
  IN /\ resolver[p].at = "confirm"
     /\ IF n \in InFlight
        THEN /\ intent' = [intent EXCEPT ![n] = "confirmed"]
             /\ posted' = [posted EXCEPT ![n] = @ \union {"final"}]
             /\ block' = [block EXCEPT ![n] = resolver[p].height]
        ELSE UNCHANGED <<intent, posted, block>>
     /\ Resolve(p, NextIntent(resolver[p]))
     /\ UNCHANGED <<chainVars, outbox, sender, crashes>>

-----------------------------------------------------------------------------
(* The chain and failures *)

MineBlock(depth, short) ==
  /\ Mine(depth, short)
  /\ UNCHANGED <<dbVars, sender, resolver, crashes>>

\* SIGKILL: both workers lose what they held in memory.
Crash(p) ==
  /\ crashes < MaxCrashes
  /\ crashes' = crashes + 1
  /\ LoseUnsaved
  /\ sender' = [sender EXCEPT ![p] = IdleSender]
  /\ resolver' = [resolver EXCEPT ![p] = IdleResolver]
  /\ UNCHANGED dbVars

\* A database error ends the tick and leaves the leased rows in `sending'.
AbortOutboxTick(p) ==
  /\ crashes < MaxCrashes
  /\ sender[p].at \in {"mark", "row"}
  /\ crashes' = crashes + 1
  /\ sender' = [sender EXCEPT ![p] = IdleSender]
  /\ UNCHANGED <<chainVars, dbVars, resolver>>

AbortResolverTick(p) ==
  /\ crashes < MaxCrashes
  /\ resolver[p].at \in {"confirm", "expire"}
  /\ crashes' = crashes + 1
  /\ Resolve(p, IdleResolver)
  /\ UNCHANGED <<chainVars, dbVars, sender>>

-----------------------------------------------------------------------------

OutboxStep(p) ==
  \/ \E due \in SUBSET Leasable : LeaseOutbox(p, due)
  \/ \E n \in Nonces, acked \in BOOLEAN : SubmitJob(p, n, acked)
  \/ MarkSubmitted(p)
  \/ SettleRow(p)

ResolverStep(p) ==
  \/ ListInFlight(p)
  \/ ReadHead(p)
  \/ \E n \in Nonces : CheckStatus(p, n)
  \/ AskExpired(p)
  \/ \E inForce \in BOOLEAN : CancelNonce(p, inForce)
  \/ RecheckExpired(p)
  \/ Expire(p)
  \/ Confirm(p)

\* fault: finalised blocks can be orphaned too
MineStepAnyDepth ==
  \E depth \in 0..head, short \in SUBSET Nonces : MineBlock(depth, short)

MineStep ==
  \E depth \in 0..(head - finalHeight), short \in SUBSET Nonces : MineBlock(depth, short)

Next ==
  \/ \E n \in Nonces : ReadHeadForRequest(n) \/ RequestWithdraw(n)
  \/ \E p \in Procs : OutboxStep(p) \/ ResolverStep(p)
  \/ MineStep
  \/ \E p \in Procs : Crash(p) \/ AbortOutboxTick(p) \/ AbortResolverTick(p)

Spec == Init /\ [][Next]_vars

\* Each worker is a loop on a ticker and the chain keeps producing blocks; no
\* fairness for requests, faults, crashes or reorgs.
Fairness ==
  /\ \A p \in Procs : WF_vars(OutboxStep(p)) /\ WF_vars(ResolverStep(p))
  /\ WF_vars(\E short \in SUBSET Nonces : MineBlock(0, short))

FairSpec == Spec /\ Fairness
=============================================================================
