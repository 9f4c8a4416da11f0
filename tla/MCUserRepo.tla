----------------------------- MODULE MCUserRepo -----------------------------
(***************************************************************************)
(* Instances of UserRepo for TLC: two spellings of one address, and        *)
(* another address.                                                        *)
(***************************************************************************)
EXTENDS UserRepo, TLC

CONSTANTS alice, Alice, bob, n, api, cli

TwoAddresses == {alice, Alice, bob}
Lowered == (alice :> alice) @@ (Alice :> alice) @@ (bob :> bob)
TwoIds == 1 .. 2
ThreeIds == 1 .. 3
=============================================================================
