---------------------------- MODULE JackpotErrors ----------------------------
(***************************************************************************)
(* Why an instruction is refused.  For each instruction, the tests it      *)
(* makes in the order it makes them: the ledger checks the signatures,     *)
(* Anchor reads the accounts, creates those marked init and evaluates the  *)
(* constraints, the handler runs, and the runtime checks what is left.     *)
(* The first test that fails names the error, and the instruction has no   *)
(* effect.                                                                 *)
(*                                                                         *)
(* The accounts a transaction names are a function acc from the names of   *)
(* the interface to addresses.                                             *)
(***************************************************************************)
EXTENDS Jackpot, JackpotInterface

NoError == "none"

(* Errors of Anchor, the system program and the runtime, and panics.       *)
OtherErrors ==
    {"accountNotInitialized", "constraintSeeds", "accountInUse", "insufficientFunds",
     "insufficientFundsForRent", "uninitializedAccount", "panic"}

(* What a list of checks comes to: the error of the first that fails.      *)
Check(holds, error) == IF holds THEN NoError ELSE error

Failed(checks) == {i \in 1..Len(checks) : checks[i] # NoError}

FirstError_Last(checks) ==
    IF Failed(checks) = {} THEN NoError
    ELSE checks[CHOOSE i \in Failed(checks) : \A j \in Failed(checks) : i >= j]
FirstError(checks) ==
    IF Failed(checks) = {} THEN NoError
    ELSE checks[CHOOSE i \in Failed(checks) : \A j \in Failed(checks) : i <= j]

(***************************************************************************)
(* The addresses the program derives, and the keys it requires.            *)
(***************************************************************************)
ConfigAddress == Pda("jackpot", "config", Unkeyed)

VaultAddress == Pda("jackpot", "global", Unkeyed)

RoundAddress(r) == Pda("jackpot", "BONDING_CURVE", r)

RandomnessAddress(f) == Pda("vrf", "orao-vrf-randomness-request", f)

PaysForPlatform(acc) == acc.payer = config.payer_wallet

IsTeamWallet(acc) == acc.teamWallet = config.team_wallet

IsAuthority(acc) == acc.creator = config.authority

IsWinner(acc, r) == acc.winner = games[r].winner

(* The runtime looks at the balances a transaction leaves behind.          *)
KeepsRent(balances) ==
    Check(\A w \in Wallets : LeavesRent(balances[w]), "insufficientFundsForRent")

(***************************************************************************)
(* configure reads its account by hand: an account the program does not    *)
(* own yet is created, whoever signs.  The account is at the derived       *)
(* address, and what the program owns there this instruction has made, so  *)
(* the test of its discriminator (IncorrectConfigAccount) cannot fail.     *)
(***************************************************************************)
ConfigureChecks(acc) ==
    << Check(Configured => IsAuthority([creator |-> acc.payer]), "incorrectAuthority"),
       Check(wallet[acc.payer] >= ConfigureCost, "insufficientFunds"),
       KeepsRent([wallet EXCEPT ![acc.payer] = @ - ConfigureCost]) >>

(***************************************************************************)
(* create_game: the account marked init is created before any constraint   *)
(* is evaluated, so a round that exists and a payer that cannot pay its    *)
(* rent are found before the platform's key is compared.                   *)
(***************************************************************************)
CreateGameChecks(acc, force, round_time, min_deposit, max_joiners) ==
    LET rent == RentDue(GameGroundSpace(0), games[config.game_round].lamports)
    IN  << Check(Configured, "accountNotInitialized"),
           Check(acc.gameGround = RoundAddress(config.game_round), "constraintSeeds"),
           Check(Vacant(config.game_round), "accountInUse"),
           Check(wallet[acc.payer] >= rent, "insufficientFunds"),
           Check(PaysForPlatform(acc), "incorrectPayerAuthority"),
           Check(round_time > 0, "roundTimeError"),
           Check(min_deposit >= config.min_deposit_amount, "minDepositAmountError"),
           Check(max_joiners <= config.max_joiner_count, "maxJoinerCountError"),
           Check(random[force].status = "none", "accountInUse"),
           Check(wallet[acc.payer] >= rent + VrfCost, "insufficientFunds"),
           Check(NextCounter(config.game_round) <= MaxRound, "panic"),
           KeepsRent([wallet EXCEPT ![acc.payer] = @ - (rent + VrfCost)]) >>

(***************************************************************************)
(* join_game: the seats are counted last, after the money has moved and    *)
(* the clock was restarted.  A fee of more than 64 bits has no value to    *)
(* subtract.                                                               *)
(***************************************************************************)
FeeError(fee) == IF fee > MaxU64 THEN "panic" ELSE "invalidAmount"

JoinGameChecks(acc, r, amount) ==
    LET g == games[r]
        fee == BpsMul(config.platform_fee, amount)
        joined == WithClock(WithDeposit(Resized(g), acc.joiner, AmountApplied(amount, fee)))
        left == [wallet EXCEPT ![acc.joiner] = @ - amount]
        transferred == [left EXCEPT ![acc.teamWallet] = @ + fee]
        rent == RentMoved(g, joined)
    IN  << Check(Configured /\ g.exists, "accountNotInitialized"),
           Check(IsTeamWallet(acc), "incorrectTeamWalletAuthority"),
           Check(PaysForPlatform(acc), "incorrectPayerAuthority"),
           Check(amount > 0, "invalidAmount"),
           Check(r < config.game_round, "roundNumberError"),
           Check(amount >= g.min_deposit_amount, "depositAmountError"),
           Check(OpenToJoin(g), "gameAlreadyCompleted"),
           Check(FeeFits(fee, amount), FeeError(fee)),
           Check(wallet[acc.joiner] >= amount, "insufficientFunds"),
           Check(transferred[acc.payer] >= rent, "insufficientFunds"),
           Check(NoOverflow(joined), "panic"),
           Check(HasSeat(joined), "userCountOverError"),
           KeepsRent([transferred EXCEPT ![acc.payer] = @ - rent]) >>

(***************************************************************************)
(* set_winner.  Its account for the randomness is only read by the handler *)
(* and may be empty, while the round must exist for its seed to be read.   *)
(***************************************************************************)
SetWinnerChecks(acc, r) ==
    LET g == games[r]
    IN  << Check(Configured /\ g.exists, "accountNotInitialized"),
           Check(IsAuthority(acc), "incorrectAuthority"),
           Check(acc.random = RandomnessAddress(g.force), "constraintSeeds"),
           Check(r < config.game_round, "roundNumberError"),
           Check(Ended(g), "gameNotCompleted"),
           Check(NotDrawn(g), "setWinnerCompleted"),
           Check(g.exists => random[g.force].status # "none", "uninitializedAccount"),
           Check(g.exists => CurrentState(g.force) # 0, "stillProcessing"),
           Check(g.total_deposit > 0, "panic") >>

(***************************************************************************)
(* claim_reward: who is not the winner learns that, whatever the state of  *)
(* the round.                                                              *)
(***************************************************************************)
ClaimRewardChecks(acc, r) ==
    LET g == games[r]
    IN  << Check(Configured /\ g.exists, "accountNotInitialized"),
           Check(IsWinner(acc, r), "incorrectAuthority"),
           Check(PaysForPlatform(acc), "incorrectPayerAuthority"),
           Check(r < config.game_round, "roundNumberError"),
           Check(~g.is_claimed, "winnerClaimed"),
           Check(g.is_completed, "gameNotCompleted"),
           Check(vault >= g.total_deposit, "insufficientFunds"),
           Check(LeavesRent(vault - g.total_deposit), "insufficientFundsForRent"),
           KeepsRent([wallet EXCEPT ![acc.winner] = @ + g.total_deposit]) >>

(***************************************************************************)
(* The winner of a drawn round within reach can always collect it, signing *)
(* with the platform's payer: no test of claim_reward fails, whatever the  *)
(* other instructions did to the vault, but the runtime's last one, for an *)
(* empty wallet that the pot would leave below its rent.                   *)
(***************************************************************************)
ClaimSigners(r) == [winner |-> games[r].winner, payer |-> config.payer_wallet]

PotBelowRent(r) ==
    wallet[games[r].winner] = 0 /\ games[r].total_deposit < RentMinimum(0)

WinnersCanClaim ==
    \A r \in Rounds : Addressable(r) /\ games[r].is_completed /\ ~games[r].is_claimed =>
        FirstError(ClaimRewardChecks(ClaimSigners(r), r))
        = IF PotBelowRent(r) THEN "insufficientFundsForRent" ELSE NoError
=============================================================================
