------------------------------ MODULE MCEscrow ------------------------------
(* A small instance of escrow synchronisation for TLC: custody for one market's *)
(* collateral, so that a raise may come before the release that funds it.      *)
EXTENDS EscrowProperties, TLC

TheStakes == (1 :> 0) @@ (2 :> 0)

TheEscrow == (1 :> 0) @@ (2 :> 1)

TheIds == (<<"settle_market", 1>> :> {1}) @@ (<<"settle_market", 2>> :> {2})
            @@ (<<"escrow_set", 1>> :> {3, 4}) @@ (<<"escrow_set", 2>> :> {5, 6})

TheInstructions == {<<1, 1>>}

TheMoves == {<<1, 1>>}
=============================================================================
