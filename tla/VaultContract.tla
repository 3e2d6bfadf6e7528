--------------------------- MODULE VaultContract ---------------------------
(***************************************************************************)
(* The vault contract as deployed (contracts/vault/src/lib.rs): what each  *)
(* call needs and does, and the replay of a recorded history through it    *)
(* (contracts/vault/src/bin/replay.rs).  The simulator's own copy of these *)
(* rules is in ChainSim; the two are written, and here modelled, apart.    *)
(*                                                                         *)
(* A market without an escrow entry is one with escrow 0.  The outcome of  *)
(* a market and the deposits per user are recorded and never read, so only *)
(* the fact of settlement is kept.                                         *)
(***************************************************************************)
EXTENDS Integers, SequencesExt

CONSTANTS
  Nonces,        \* fact ids of deposits and intent ids of everything else
  Markets

Kinds == {"deposit", "withdraw", "escrow_set", "settle_market", "cancel"}

\* amount is the target of an escrow_set, which is absolute; expiry 0 is none,
\* and a deposit, which has no such field, has none.
Call == {call \in [nonce : Nonces, kind : Kinds, market : Markets, amount : Nat, expiry : Nat] :
           call.kind = "deposit" => call.expiry = 0}

Vaults == [balance : Nat, escrow : [Markets -> Nat], settled : SUBSET Markets,
           processed : SUBSET Nonces, cancelled : SUBSET Nonces]

NewVault == [balance |-> 0, escrow |-> [m \in Markets |-> 0], settled |-> {},
             processed |-> {}, cancelled |-> {}]

EscrowTotal(vault) == SumFunction(vault.escrow)

Free(vault) == vault.balance - EscrowTotal(vault)

-----------------------------------------------------------------------------
(* Vault::execute, at the vault's height *)

\* Call::expiry
Expiry(call) == IF call.kind = "deposit" THEN 0 ELSE call.expiry

\* A cancellation must come after the expiry, any other call not after it.
InTime(call, height) ==
  IF call.kind = "cancel"
  THEN call.expiry > 0 /\ height > call.expiry
  ELSE Expiry(call) = 0 \/ height <= Expiry(call)

\* A withdrawal and a raised escrow draw on free custody only, and a settled
\* market takes no more calls.
Funded(vault, call) ==
  /\ call.kind \in {"deposit", "withdraw"} => call.amount > 0
  /\ call.kind = "withdraw" => call.amount <= Free(vault)
  /\ call.kind = "escrow_set" =>
       call.amount - vault.escrow[call.market] <= Free(vault)
  /\ call.kind \in {"escrow_set", "settle_market"} => call.market \notin vault.settled

Admits(vault, call, height) ==
  /\ call.nonce \notin vault.processed \union vault.cancelled
  /\ InTime(call, height)
  /\ Funded(vault, call)

\* A call that is not admitted changes nothing.  A cancellation uses up its
\* nonce as cancelled, every other call as processed.
Execute(vault, call, height) ==
  IF ~Admits(vault, call, height) THEN vault
  ELSE CASE call.kind = "deposit" ->
              [vault EXCEPT !.balance = @ + call.amount, !.processed = @ \union {call.nonce}]
         [] call.kind = "withdraw" ->
              [vault EXCEPT !.balance = @ - call.amount, !.processed = @ \union {call.nonce}]
         [] call.kind = "escrow_set" ->
              [vault EXCEPT !.escrow[call.market] = call.amount,
                            !.processed = @ \union {call.nonce}]
         [] call.kind = "settle_market" ->
              [vault EXCEPT !.escrow[call.market] = 0,
                            !.settled = @ \union {call.market},
                            !.processed = @ \union {call.nonce}]
         [] call.kind = "cancel" ->
              [vault EXCEPT !.cancelled = @ \union {call.nonce}]

-----------------------------------------------------------------------------
(* Vault::check and the replay tool *)

\* Escrow is a claim on money held, and a settled market holds none.
Check(vault) ==
  /\ EscrowTotal(vault) <= vault.balance
  /\ \A m \in vault.settled : vault.escrow[m] = 0

\* The tool runs every recorded call at the height it was recorded with, and
\* counts the refused ones.
Replay(trace) ==
  FoldLeft(LAMBDA run, entry :
             [vault |-> Execute(run.vault, entry.call, entry.height),
              refused |-> run.refused
                + IF Admits(run.vault, entry.call, entry.height) THEN 0 ELSE 1],
           [vault |-> NewVault, refused |-> 0],
           trace)
=============================================================================
