----------------------------- MODULE MCJackpot -----------------------------
(***************************************************************************)
(* Small instances of Jackpot for TLC.                                     *)
(***************************************************************************)
EXTENDS Jackpot, TLC

CONSTANTS admin, team, p1, p2, p3, f1, f2

(* Settings as the authority writes them; fees in basis points.            *)
Settings(payer_wallet, fee, max_joiners) ==
    [authority |-> admin, payer_wallet |-> payer_wallet, team_wallet |-> team,
     game_round |-> 0, platform_fee |-> fee, min_deposit_amount |-> 1,
     max_joiner_count |-> max_joiners]

NoFee == {Settings(admin, 0, 3)}

(* No fee; a fee of the whole deposit; a fee above it, which no join can   *)
(* pay.                                                                    *)
EdgeFees == {Settings(admin, 0, 3), Settings(admin, 10000, 3), Settings(admin, 20000, 3)}

(* The command-line default: one key joins and pays for the platform, and  *)
(* half of every deposit goes to the team.                                 *)
SharedKey == {Settings(p1, 5000, 2)}

(* Platform wallets can pay every rent; a player can spend a few lamports  *)
(* over the rent of the wallet.  The team's wallet is enough for one gift, *)
(* and empty after it.                                                     *)
PlatformLamports == 20000000
WalletRent == RentMinimum(0)
PlayerLamports == WalletRent + 3

Balances == [w \in Wallets |->
    IF w = admin THEN PlatformLamports ELSE IF w = team THEN WalletRent ELSE PlayerLamports]

OneGift == {WalletRent}

(* Here the authority pays for nothing, and can afford one gift.           *)
SharedKeyBalances == [Balances EXCEPT ![p1] = PlatformLamports, ![admin] = WalletRent]

PlayerSymmetry == Permutations(Players)
ForceSymmetry == Permutations(Forces)
=============================================================================
