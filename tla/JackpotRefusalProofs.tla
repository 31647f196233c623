------------------------ MODULE JackpotRefusalProofs ------------------------
(***************************************************************************)
(* The errors of an instruction against what the instruction does: for     *)
(* each of the five, the list of tests names an error exactly where the    *)
(* action cannot be taken, and an instruction that is taken has one        *)
(* outcome.                                                                *)
(***************************************************************************)
EXTENDS JackpotClientProofs

(***************************************************************************)
(* Reading a list of tests.                                                *)
(***************************************************************************)
LEMMA NothingFails ==
    ASSUME NEW checks, NEW n \in Nat, Len(checks) = n
    PROVE  FirstError(checks) = NoError <=> \A i \in 1..n : checks[i] = NoError
<1>1. ASSUME \A i \in 1..Len(checks) : checks[i] = NoError
      PROVE  FirstError(checks) = NoError
  BY <1>1 DEF FirstError, Failed
<1> QED BY <1>1, Refuses

LEMMA KeepsRentPasses ==
    ASSUME NEW balances
    PROVE  KeepsRent(balances) = NoError <=> \A w \in Wallets : LeavesRent(balances[w])
BY DEF KeepsRent, Check, NoError

(***************************************************************************)
(* What each instruction makes of the state: one value for every variable. *)
(***************************************************************************)
ConfigureOutcome(payer, c) ==
    /\ config' = c
    /\ vault' = vault + SeedDue
    /\ wallet' = [wallet EXCEPT ![payer] = @ - ConfigureCost]
    /\ reserve' = reserve + SeedDue
    /\ UNCHANGED <<games, random, now, paid>>

CreateCost ==
    RentDue(GameGroundSpace(0), games[config.game_round].lamports) + VrfCost

CreateGameOutcome(payer, force, round_time, min_deposit, max_joiners) ==
    /\ games' = [games EXCEPT ![config.game_round] =
                    NewGame(games[config.game_round].lamports, force, round_time, min_deposit,
                            max_joiners)]
    /\ config' = [config EXCEPT !.game_round = NextCounter(@)]
    /\ random' = [random EXCEPT ![force].status = "pending"]
    /\ wallet' = [wallet EXCEPT ![payer] = @ - CreateCost]
    /\ UNCHANGED <<vault, now, paid, reserve>>

JoinFee(amount) == BpsMul(config.platform_fee, amount)

Transferred(joiner, team, amount) ==
    [[wallet EXCEPT ![joiner] = @ - amount] EXCEPT ![team] = @ + JoinFee(amount)]

JoinRent(r, joiner, amount) == RentMoved(games[r], JoinedBy(r, joiner, amount))

JoinGameOutcome(r, joiner, team, payer, amount) ==
    /\ games' = [games EXCEPT ![r] = JoinedBy(r, joiner, amount)]
    /\ vault' = vault + (amount - JoinFee(amount))
    /\ wallet' = [Transferred(joiner, team, amount) EXCEPT
                      ![payer] = @ - JoinRent(r, joiner, amount)]
    /\ UNCHANGED <<config, random, now, paid, reserve>>

SetWinnerOutcome(r) ==
    /\ games' = [games EXCEPT ![r] = WithWinner(games[r], CurrentState(games[r].force))]
    /\ UNCHANGED <<config, vault, wallet, random, now, paid, reserve>>

ClaimRewardOutcome(r, winner) ==
    /\ games' = [games EXCEPT ![r] = AfterClaim(games[r])]
    /\ vault' = vault - games[r].total_deposit
    /\ wallet' = [wallet EXCEPT ![winner] = @ + games[r].total_deposit]
    /\ paid' = [paid EXCEPT ![r] = @ + games[r].total_deposit]
    /\ UNCHANGED <<config, random, now, reserve>>

(***************************************************************************)
(* For each instruction, executing it is passing its tests and having its  *)
(* outcome.                                                                *)
(***************************************************************************)
LEMMA ConfigureDetermined ==
    ASSUME NEW acc, NEW c
    PROVE  Configure(acc.payer, c)
           <=> /\ FirstError(ConfigureChecks(acc)) = NoError
               /\ ConfigureOutcome(acc.payer, c)
<1> DEFINE checks == ConfigureChecks(acc)
           left == [wallet EXCEPT ![acc.payer] = @ - ConfigureCost]
<1>1. Len(checks) = 3
  BY ConfigureList
<1>2. /\ checks[1] = Check(Configured => IsAuthority([creator |-> acc.payer]),
                           "incorrectAuthority")
      /\ checks[2] = Check(wallet[acc.payer] >= ConfigureCost, "insufficientFunds")
      /\ checks[3] = KeepsRent(left)
  BY DEF ConfigureChecks
<1> HIDE DEF checks
<1>3. FirstError(checks) = NoError
      <=> /\ Configured => config.authority = acc.payer
          /\ wallet[acc.payer] >= ConfigureCost
          /\ \A w \in Wallets : LeavesRent(left[w])
  <2>1. FirstError(checks) = NoError <=> \A i \in 1..3 : checks[i] = NoError
    BY <1>1, NothingFails, 3 \in Nat
  <2>2. (\A i \in 1..3 : checks[i] = NoError)
        <=> checks[1] = NoError /\ checks[2] = NoError /\ checks[3] = NoError
    <3>1. \A i \in 1..3 : i \in {1, 2, 3}
      OBVIOUS
    <3> QED BY <3>1
  <2> HIDE DEF left
  <2>3. /\ checks[1] = NoError <=> (Configured => config.authority = acc.payer)
        /\ checks[2] = NoError <=> wallet[acc.payer] >= ConfigureCost
        /\ checks[3] = NoError <=> \A w \in Wallets : LeavesRent(left[w])
    BY <1>2, KeepsRentPasses DEF Check, NoError, IsAuthority
  <2> QED BY <2>1, <2>2, <2>3
<1>4. wallet' = left => (WalletsKeepRent <=> \A w \in Wallets : LeavesRent(left[w]))
  BY DEF WalletsKeepRent
<1>5. ConfigureOutcome(acc.payer, c) => wallet' = left
  BY DEF ConfigureOutcome
<1>6. Configure(acc.payer, c)
      <=> /\ Configured => config.authority = acc.payer
          /\ wallet[acc.payer] >= ConfigureCost
          /\ WalletsKeepRent
          /\ ConfigureOutcome(acc.payer, c)
  BY DEF Configure, ConfigureOutcome
<1> HIDE DEF left
<1> QED BY <1>3, <1>4, <1>5, <1>6 DEF checks

LEMMA CreateGameDetermined ==
    ASSUME TypeOK, NEW acc, NEW f, NEW t, NEW d, NEW j, acc.payer \in Wallets
    PROVE  PaysForPlatform(acc) /\ NamesNextRound(acc) /\ CreateGame(f, t, d, j)
           <=> /\ FirstError(CreateGameChecks(acc, f, t, d, j)) = NoError
               /\ CreateGameOutcome(acc.payer, f, t, d, j)
<1> DEFINE checks == CreateGameChecks(acc, f, t, d, j)
           rent == RentDue(GameGroundSpace(0), games[config.game_round].lamports)
           cost == rent + VrfCost
           left == [wallet EXCEPT ![acc.payer] = @ - cost]
           Rest == /\ Configured
                   /\ acc.gameGround = RoundAddress(config.game_round)
                   /\ Vacant(config.game_round)
                   /\ PaysForPlatform(acc)
                   /\ t > 0
                   /\ d >= config.min_deposit_amount
                   /\ j <= config.max_joiner_count
                   /\ random[f].status = "none"
                   /\ NextCounter(config.game_round) <= MaxRound
                   /\ wallet[acc.payer] >= cost
<1>1. Len(checks) = 12
  BY CreateGameList
<1>2. wallet[acc.payer] >= cost => wallet[acc.payer] >= rent
  <2>1. games[config.game_round] \in GameGround
    BY DEF TypeOK, ConfigData
  <2>2. rent \in Nat
    BY <2>1, RentDueIsNat DEF GameGround
  <2> HIDE DEF rent
  <2> QED BY <2>2, InputsAssumption DEF TypeOK
<1>3. FirstError(checks) = NoError <=> Rest /\ \A w \in Wallets : LeavesRent(left[w])
  <2>1. FirstError(checks) = NoError <=> \A i \in 1..12 : checks[i] = NoError
    BY <1>1, NothingFails, 12 \in Nat
  <2>2. /\ checks[1] = Check(Configured, "accountNotInitialized")
        /\ checks[2] = Check(acc.gameGround = RoundAddress(config.game_round),
                             "constraintSeeds")
        /\ checks[3] = Check(Vacant(config.game_round), "accountInUse")
        /\ checks[4] = Check(wallet[acc.payer] >= rent, "insufficientFunds")
        /\ checks[5] = Check(PaysForPlatform(acc), "incorrectPayerAuthority")
        /\ checks[6] = Check(t > 0, "roundTimeError")
        /\ checks[7] = Check(d >= config.min_deposit_amount, "minDepositAmountError")
        /\ checks[8] = Check(j <= config.max_joiner_count, "maxJoinerCountError")
        /\ checks[9] = Check(random[f].status = "none", "accountInUse")
        /\ checks[10] = Check(wallet[acc.payer] >= cost, "insufficientFunds")
        /\ checks[11] = Check(NextCounter(config.game_round) <= MaxRound, "panic")
        /\ checks[12] = KeepsRent(left)
    BY DEF CreateGameChecks
  <2> HIDE DEF checks, rent, cost, left
  <2>3. \A i \in 1..12 : i \in {1, 2, 3, 4, 5, 6, 7, 8, 9, 10, 11, 12}
    OBVIOUS
  <2>4. checks[12] = NoError <=> \A w \in Wallets : LeavesRent(left[w])
    BY <2>2, KeepsRentPasses
  <2>5. (\A i \in 1..11 : checks[i] = NoError) <=> Rest
    BY <1>2, <2>2, <2>3 DEF Check, NoError
  <2>6. (\A i \in 1..12 : checks[i] = NoError)
        <=> checks[12] = NoError /\ \A i \in 1..11 : checks[i] = NoError
    BY <2>3
  <2> QED BY <2>1, <2>4, <2>5, <2>6
<1>4. PaysForPlatform(acc) /\ NamesNextRound(acc) /\ CreateGame(f, t, d, j)
      <=> Rest /\ WalletsKeepRent /\ CreateGameOutcome(acc.payer, f, t, d, j)
  BY DEF CreateGame, CreateGameOutcome, CreateCost, PaysForPlatform, NamesNextRound
<1>5. CreateGameOutcome(acc.payer, f, t, d, j)
      => (WalletsKeepRent <=> \A w \in Wallets : LeavesRent(left[w]))
  BY DEF CreateGameOutcome, CreateCost, WalletsKeepRent
<1> HIDE DEF Rest, left
<1> QED BY <1>3, <1>4, <1>5 DEF checks

LEMMA JoinGameDetermined ==
    ASSUME TypeOK, NEW acc, NEW r \in Rounds, NEW a
    PROVE  PaysForPlatform(acc) /\ IsTeamWallet(acc) /\ JoinGame(r, acc.joiner, a)
           <=> /\ FirstError(JoinGameChecks(acc, r, a)) = NoError
               /\ JoinGameOutcome(r, acc.joiner, acc.teamWallet, acc.payer, a)
<1> DEFINE checks == JoinGameChecks(acc, r, a)
           g == games[r]
           fee == JoinFee(a)
           joined == JoinedBy(r, acc.joiner, a)
           transferred == Transferred(acc.joiner, acc.teamWallet, a)
           rent == JoinRent(r, acc.joiner, a)
           left == [transferred EXCEPT ![acc.payer] = @ - rent]
           Rest == /\ Configured /\ g.exists
                   /\ IsTeamWallet(acc)
                   /\ PaysForPlatform(acc)
                   /\ a > 0
                   /\ r < config.game_round
                   /\ a >= g.min_deposit_amount
                   /\ OpenToJoin(g)
                   /\ FeeFits(fee, a)
                   /\ wallet[acc.joiner] >= a
                   /\ transferred[acc.payer] >= rent
                   /\ NoOverflow(joined)
                   /\ HasSeat(joined)
<1>1. Len(checks) = 13
  BY JoinGameList
<1>2. FirstError(checks) = NoError <=> Rest /\ \A w \in Wallets : LeavesRent(left[w])
  <2>1. FirstError(checks) = NoError <=> \A i \in 1..13 : checks[i] = NoError
    BY <1>1, NothingFails, 13 \in Nat
  <2>2. /\ checks[1] = Check(Configured /\ g.exists, "accountNotInitialized")
        /\ checks[2] = Check(IsTeamWallet(acc), "incorrectTeamWalletAuthority")
        /\ checks[3] = Check(PaysForPlatform(acc), "incorrectPayerAuthority")
        /\ checks[4] = Check(a > 0, "invalidAmount")
        /\ checks[5] = Check(r < config.game_round, "roundNumberError")
        /\ checks[6] = Check(a >= g.min_deposit_amount, "depositAmountError")
        /\ checks[7] = Check(OpenToJoin(g), "gameAlreadyCompleted")
        /\ checks[8] = Check(FeeFits(fee, a), FeeError(fee))
        /\ checks[9] = Check(wallet[acc.joiner] >= a, "insufficientFunds")
        /\ checks[10] = Check(transferred[acc.payer] >= rent, "insufficientFunds")
        /\ checks[11] = Check(NoOverflow(joined), "panic")
        /\ checks[12] = Check(HasSeat(joined), "userCountOverError")
        /\ checks[13] = KeepsRent(left)
    BY DEF JoinGameChecks, JoinFee, JoinedBy, Joined, Transferred, JoinRent
  <2> HIDE DEF checks, g, fee, joined, transferred, rent, left
  <2>3. \A i \in 1..13 : i \in {1, 2, 3, 4, 5, 6, 7, 8, 9, 10, 11, 12, 13}
    OBVIOUS
  <2>4. checks[13] = NoError <=> \A w \in Wallets : LeavesRent(left[w])
    BY <2>2, KeepsRentPasses
  <2>5. (\A i \in 1..12 : checks[i] = NoError) <=> Rest
    BY <2>2, <2>3 DEF Check, FeeError, NoError
  <2>6. (\A i \in 1..13 : checks[i] = NoError)
        <=> checks[13] = NoError /\ \A i \in 1..12 : checks[i] = NoError
    BY <2>3
  <2> QED BY <2>1, <2>4, <2>5, <2>6
<1>3. PaysForPlatform(acc) /\ IsTeamWallet(acc) /\ JoinGame(r, acc.joiner, a)
      <=> /\ Rest /\ WalletsKeepRent
          /\ JoinGameOutcome(r, acc.joiner, acc.teamWallet, acc.payer, a)
  <2>1. Addressable(r) <=> Configured /\ g.exists /\ r < config.game_round
    BY AddressableConfigured DEF Addressable
  <2> QED BY <2>1 DEF JoinGame, JoinGameOutcome, JoinFee, JoinedBy, Joined, Transferred,
                      JoinRent, PaysForPlatform, IsTeamWallet
<1>4. JoinGameOutcome(r, acc.joiner, acc.teamWallet, acc.payer, a)
      => (WalletsKeepRent <=> \A w \in Wallets : LeavesRent(left[w]))
  BY DEF JoinGameOutcome, WalletsKeepRent
<1> HIDE DEF Rest, left
<1> QED BY <1>2, <1>3, <1>4 DEF checks

LEMMA SetWinnerDetermined ==
    ASSUME TypeOK, NEW acc, NEW r \in Rounds
    PROVE  /\ IsAuthority(acc) /\ acc.random = RandomnessAddress(games[r].force)
           /\ SetWinner(r)
           <=> /\ FirstError(SetWinnerChecks(acc, r)) = NoError
               /\ SetWinnerOutcome(r)
<1> DEFINE checks == SetWinnerChecks(acc, r)
           g == games[r]
           Rest == /\ Configured /\ g.exists
                   /\ IsAuthority(acc)
                   /\ acc.random = RandomnessAddress(g.force)
                   /\ r < config.game_round
                   /\ Ended(g)
                   /\ NotDrawn(g)
                   /\ random[g.force].status # "none"
                   /\ CurrentState(g.force) # 0
                   /\ g.total_deposit > 0
<1>1. Len(checks) = 9
  BY SetWinnerList
<1>2. FirstError(checks) = NoError <=> Rest
  <2>1. FirstError(checks) = NoError <=> \A i \in 1..9 : checks[i] = NoError
    BY <1>1, NothingFails, 9 \in Nat
  <2>2. /\ checks[1] = Check(Configured /\ g.exists, "accountNotInitialized")
        /\ checks[2] = Check(IsAuthority(acc), "incorrectAuthority")
        /\ checks[3] = Check(acc.random = RandomnessAddress(g.force), "constraintSeeds")
        /\ checks[4] = Check(r < config.game_round, "roundNumberError")
        /\ checks[5] = Check(Ended(g), "gameNotCompleted")
        /\ checks[6] = Check(NotDrawn(g), "setWinnerCompleted")
        /\ checks[7] = Check(g.exists => random[g.force].status # "none",
                             "uninitializedAccount")
        /\ checks[8] = Check(g.exists => CurrentState(g.force) # 0, "stillProcessing")
        /\ checks[9] = Check(g.total_deposit > 0, "panic")
    BY DEF SetWinnerChecks
  <2> HIDE DEF checks, g
  <2>3. \A i \in 1..9 : i \in {1, 2, 3, 4, 5, 6, 7, 8, 9}
    OBVIOUS
  <2>4. (\A i \in 1..9 : checks[i] = NoError) <=> Rest
    BY <2>2, <2>3 DEF Check, NoError
  <2> QED BY <2>1, <2>4
<1>3. /\ IsAuthority(acc) /\ acc.random = RandomnessAddress(games[r].force)
      /\ SetWinner(r)
      <=> Rest /\ SetWinnerOutcome(r)
  <2>1. Addressable(r) <=> Configured /\ g.exists /\ r < config.game_round
    BY AddressableConfigured DEF Addressable
  <2> QED BY <2>1 DEF SetWinner, SetWinnerOutcome
<1> HIDE DEF Rest
<1> QED BY <1>2, <1>3 DEF checks

LEMMA ClaimRewardDetermined ==
    ASSUME TypeOK, NEW acc, NEW r \in Rounds, acc.winner \in Wallets
    PROVE  PaysForPlatform(acc) /\ IsWinner(acc, r) /\ ClaimReward(r)
           <=> /\ FirstError(ClaimRewardChecks(acc, r)) = NoError
               /\ ClaimRewardOutcome(r, acc.winner)
<1> DEFINE checks == ClaimRewardChecks(acc, r)
           g == games[r]
           left == [wallet EXCEPT ![acc.winner] = @ + g.total_deposit]
           Rest == /\ Configured /\ g.exists
                   /\ IsWinner(acc, r)
                   /\ PaysForPlatform(acc)
                   /\ r < config.game_round
                   /\ ~g.is_claimed
                   /\ g.is_completed
                   /\ vault >= g.total_deposit
                   /\ LeavesRent(vault - g.total_deposit)
<1>1. Len(checks) = 9
  BY ClaimRewardList
<1>2. FirstError(checks) = NoError <=> Rest /\ \A w \in Wallets : LeavesRent(left[w])
  <2>1. FirstError(checks) = NoError <=> \A i \in 1..9 : checks[i] = NoError
    BY <1>1, NothingFails, 9 \in Nat
  <2>2. /\ checks[1] = Check(Configured /\ g.exists, "accountNotInitialized")
        /\ checks[2] = Check(IsWinner(acc, r), "incorrectAuthority")
        /\ checks[3] = Check(PaysForPlatform(acc), "incorrectPayerAuthority")
        /\ checks[4] = Check(r < config.game_round, "roundNumberError")
        /\ checks[5] = Check(~g.is_claimed, "winnerClaimed")
        /\ checks[6] = Check(g.is_completed, "gameNotCompleted")
        /\ checks[7] = Check(vault >= g.total_deposit, "insufficientFunds")
        /\ checks[8] = Check(LeavesRent(vault - g.total_deposit), "insufficientFundsForRent")
        /\ checks[9] = KeepsRent(left)
    BY DEF ClaimRewardChecks
  <2> HIDE DEF checks, g, left
  <2>3. \A i \in 1..9 : i \in {1, 2, 3, 4, 5, 6, 7, 8, 9}
    OBVIOUS
  <2>4. checks[9] = NoError <=> \A w \in Wallets : LeavesRent(left[w])
    BY <2>2, KeepsRentPasses
  <2>5. (\A i \in 1..8 : checks[i] = NoError) <=> Rest
    BY <2>2, <2>3 DEF Check, NoError
  <2>6. (\A i \in 1..9 : checks[i] = NoError)
        <=> checks[9] = NoError /\ \A i \in 1..8 : checks[i] = NoError
    BY <2>3
  <2> QED BY <2>1, <2>4, <2>5, <2>6
<1>3. PaysForPlatform(acc) /\ IsWinner(acc, r) /\ ClaimReward(r)
      <=> Rest /\ WalletsKeepRent /\ ClaimRewardOutcome(r, acc.winner)
  <2>1. Addressable(r) <=> Configured /\ g.exists /\ r < config.game_round
    BY AddressableConfigured DEF Addressable
  <2> QED BY <2>1 DEF ClaimReward, ClaimRewardOutcome, IsWinner
<1>4. ClaimRewardOutcome(r, acc.winner)
      => (WalletsKeepRent <=> \A w \in Wallets : LeavesRent(left[w]))
  BY DEF ClaimRewardOutcome, WalletsKeepRent
<1> HIDE DEF Rest, left
<1> QED BY <1>2, <1>3, <1>4 DEF checks

-----------------------------------------------------------------------------
(***************************************************************************)
(* What executing a transaction makes of the state.                        *)
(***************************************************************************)
Outcome(tx) ==
    LET acc == AccountsOf(tx)
        c == tx.command
    IN  /\ c.name = "config" =>
              ConfigureOutcome(acc.payer, [CliSettings EXCEPT !.game_round = tx.game_round])
        /\ c.name = "create" =>
              CreateGameOutcome(acc.payer, tx.force, c.time, c.min_deposit, c.max_joiner)
        /\ c.name = "join" =>
              JoinGameOutcome(tx.round, acc.joiner, acc.teamWallet, acc.payer, c.amount)
        /\ c.name = "winner" => SetWinnerOutcome(tx.round)
        /\ c.name = "claim" => ClaimRewardOutcome(tx.round, acc.winner)

LEMMA ExecutesDetermined ==
    ASSUME TypeOK, NEW tx \in Transaction, tx.command \in Commands
    PROVE  Executes(tx) <=> Refusal(tx) = NoError /\ Outcome(tx)
<1> DEFINE acc == AccountsOf(tx)
           c == tx.command
<1>1. /\ c.name \in {"config", "create", "join", "winner", "claim"}
      /\ c.user \in Wallets /\ tx.round \in Rounds
  BY CommandFields DEF Transaction
<1>2. CASE c.name = "config"
  <2>1. Executes(tx)
        <=> Configure(acc.payer, [CliSettings EXCEPT !.game_round = tx.game_round])
    BY <1>2 DEF Executes, ExecutesConfig, ExecutesCreate, ExecutesJoin, ExecutesWinner,
       ExecutesClaim
  <2>2. Refusal(tx) = FirstError(ConfigureChecks(acc))
    BY <1>2 DEF Refusal, ChecksOf
  <2>3. Outcome(tx)
        <=> ConfigureOutcome(acc.payer, [CliSettings EXCEPT !.game_round = tx.game_round])
    BY <1>2 DEF Outcome
  <2> HIDE DEF acc
  <2> QED BY <2>1, <2>2, <2>3, ConfigureDetermined
<1>3. CASE c.name = "create"
  <2>1. Executes(tx)
        <=> /\ PaysForPlatform(acc) /\ NamesNextRound(acc)
            /\ CreateGame(tx.force, c.time, c.min_deposit, c.max_joiner)
    BY <1>3 DEF Executes, ExecutesConfig, ExecutesCreate, ExecutesJoin, ExecutesWinner,
       ExecutesClaim
  <2>2. Refusal(tx)
        = FirstError(CreateGameChecks(acc, tx.force, c.time, c.min_deposit, c.max_joiner))
    BY <1>3 DEF Refusal, ChecksOf
  <2>3. Outcome(tx)
        <=> CreateGameOutcome(acc.payer, tx.force, c.time, c.min_deposit, c.max_joiner)
    BY <1>3 DEF Outcome
  <2>4. acc.payer \in Wallets
    BY <1>3, CreateNames, ClientAssumption
  <2> HIDE DEF acc
  <2> QED BY <2>1, <2>2, <2>3, <2>4, CreateGameDetermined
<1>4. CASE c.name = "join"
  <2>1. Executes(tx)
        <=> /\ PaysForPlatform(acc) /\ IsTeamWallet(acc)
            /\ JoinGame(tx.round, acc.joiner, c.amount)
    BY <1>4 DEF Executes, ExecutesConfig, ExecutesCreate, ExecutesJoin, ExecutesWinner,
       ExecutesClaim
  <2>2. Refusal(tx) = FirstError(JoinGameChecks(acc, tx.round, c.amount))
    BY <1>4 DEF Refusal, ChecksOf
  <2>3. Outcome(tx)
        <=> JoinGameOutcome(tx.round, acc.joiner, acc.teamWallet, acc.payer, c.amount)
    BY <1>4 DEF Outcome
  <2> HIDE DEF acc
  <2> QED BY <1>1, <2>1, <2>2, <2>3, JoinGameDetermined
<1>5. CASE c.name = "winner"
  <2>1. Executes(tx)
        <=> /\ IsAuthority(acc) /\ acc.random = RandomnessAddress(games[tx.round].force)
            /\ SetWinner(tx.round)
    BY <1>5 DEF Executes, ExecutesConfig, ExecutesCreate, ExecutesJoin, ExecutesWinner,
       ExecutesClaim
  <2>2. Refusal(tx) = FirstError(SetWinnerChecks(acc, tx.round))
    BY <1>5 DEF Refusal, ChecksOf
  <2>3. Outcome(tx) <=> SetWinnerOutcome(tx.round)
    BY <1>5 DEF Outcome
  <2> HIDE DEF acc
  <2> QED BY <1>1, <2>1, <2>2, <2>3, SetWinnerDetermined
<1>6. CASE c.name = "claim"
  <2>1. Executes(tx)
        <=> PaysForPlatform(acc) /\ IsWinner(acc, tx.round) /\ ClaimReward(tx.round)
    BY <1>6 DEF Executes, ExecutesConfig, ExecutesCreate, ExecutesJoin, ExecutesWinner,
       ExecutesClaim
  <2>2. Refusal(tx) = FirstError(ClaimRewardChecks(acc, tx.round))
    BY <1>6 DEF Refusal, ChecksOf
  <2>3. Outcome(tx) <=> ClaimRewardOutcome(tx.round, acc.winner)
    BY <1>6 DEF Outcome
  <2>4. acc.winner \in Wallets
    BY <1>1, <1>6, ClaimNames
  <2> HIDE DEF acc
  <2> QED BY <1>1, <2>1, <2>2, <2>3, <2>4, ClaimRewardDetermined
<1> QED BY <1>1, <1>2, <1>3, <1>4, <1>5, <1>6

(***************************************************************************)
(* For any number of runs and in every state they can reach: a transaction *)
(* on its way is executed with exactly one outcome unless one of the tests *)
(* of its instruction names an error.  The lists of errors are complete,   *)
(* and no error is raised where the instruction would go through.          *)
(***************************************************************************)
THEOREM ExecutionIsDetermined ==
    ClientSpec => [][\A s \in Runs : InFlight(s) =>
                       LET tx == run[s].tx
                       IN  Executes(tx) <=> Refusal(tx) = NoError /\ Outcome(tx)]_allVars
<1>1. ASSUME ClientInv, NEW s \in Runs, InFlight(s)
      PROVE  Executes(run[s].tx) <=> Refusal(run[s].tx) = NoError /\ Outcome(run[s].tx)
  <2>1. run[s].tx \in Transaction /\ run[s].tx.command \in Commands /\ TypeOK
    BY <1>1 DEF InFlight, ClientInv, IInv, RunInv, RunState, Resolved
  <2> QED BY <2>1, ExecutesDetermined
<1>2. ClientInv => \A s \in Runs : InFlight(s) =>
                     LET tx == run[s].tx
                     IN  Executes(tx) <=> Refusal(tx) = NoError /\ Outcome(tx)
  BY <1>1
<1> QED BY <1>2, ClientInvariance, PTL

-----------------------------------------------------------------------------
(***************************************************************************)
(* What the holders of keys can rely on.  The runtime leaves no wallet     *)
(* with less than its rent, whatever is executed.                          *)
(***************************************************************************)
WalletsExempt == \A w \in Wallets : LeavesRent(wallet[w])

LEMMA WalletsStayExempt == Spec => []WalletsExempt
<1>1. Init => WalletsExempt
  BY InputsAssumption DEF Init, WalletsExempt
<1>2. ASSUME WalletsExempt, [Next]_vars
      PROVE  WalletsExempt'
  <2>1. CASE wallet' = wallet
    BY <1>2, <2>1 DEF WalletsExempt
  <2>2. CASE WalletsKeepRent
    BY <2>2 DEF WalletsKeepRent, WalletsExempt
  <2>3. CASE \E payer \in Wallets, c \in Configs, n \in {config.game_round} \cup CounterResets :
                Configure(payer, [c EXCEPT !.game_round = n])
    BY <2>2, <2>3 DEF Configure
  <2>4. CASE \E f \in Forces, t \in RoundTimes, d \in MinDeposits, j \in JoinerLimits :
                CreateGame(f, t, d, j)
    BY <2>2, <2>4 DEF CreateGame
  <2>5. CASE \E r \in Rounds, p \in Players, a \in DepositAmounts : JoinGame(r, p, a)
    BY <2>2, <2>5 DEF JoinGame
  <2>6. CASE \E r \in Rounds : SetWinner(r)
    BY <2>1, <2>6 DEF SetWinner
  <2>7. CASE \E r \in Rounds : ClaimReward(r)
    BY <2>2, <2>7 DEF ClaimReward
  <2>8. CASE (\E f \in Forces, v \in RandomValues : Fulfill(f, v)) \/ Tick
    BY <2>1, <2>8 DEF Fulfill, Tick
  <2>9. CASE \/ \E w \in Donors, a \in Gifts : EndowVault(w, a)
             \/ \E w \in Donors, r \in Rounds, a \in Gifts : EndowRound(w, r, a)
    BY <2>2, <2>9 DEF EndowVault, EndowRound
  <2>10. CASE UNCHANGED vars
    BY <2>1, <2>10 DEF vars
  <2> QED BY <1>2, <2>3, <2>4, <2>5, <2>6, <2>7, <2>8, <2>9, <2>10 DEF Next
<1> QED BY <1>1, <1>2, PTL DEF Spec

(* When only the last of a list of tests can fail, it decides.             *)
LEMMA LastDecides ==
    ASSUME NEW checks, NEW n \in Nat, n > 0, Len(checks) = n,
           \A i \in 1..(n - 1) : checks[i] = NoError
    PROVE  FirstError(checks) = checks[n]
<1>1. CASE checks[n] = NoError
  <2>1. \A i \in 1..n : checks[i] = NoError
    BY <1>1
  <2> QED BY <1>1, <2>1, NothingFails
<1>2. CASE checks[n] # NoError
  <2>1. Failed(checks) = {n}
    BY <1>2 DEF Failed
  <2> QED BY <2>1 DEF FirstError
<1> QED BY <1>1, <1>2

LEMMA ClaimMeetsRentOnly ==
    ASSUME IInv, WalletsExempt, ClaimsAreFunded, NEW r \in Rounds,
           Addressable(r), games[r].is_completed, ~games[r].is_claimed
    PROVE  FirstError(ClaimRewardChecks(ClaimSigners(r), r))
           = IF PotBelowRent(r) THEN "insufficientFundsForRent" ELSE NoError
<1> DEFINE g == games[r]
           acc == ClaimSigners(r)
           checks == ClaimRewardChecks(acc, r)
           left == [wallet EXCEPT ![acc.winner] = @ + g.total_deposit]
<1>1. g.total_deposit \in Nat /\ g.total_deposit > 0 /\ g.winner \in Wallets
  BY PotOfDrawn
<1>2. acc.winner = g.winner /\ IsWinner(acc, r) /\ PaysForPlatform(acc)
  BY DEF ClaimSigners, IsWinner, PaysForPlatform
<1>3. Configured /\ g.exists /\ r < config.game_round
  BY AddressableConfigured DEF Addressable, IInv
<1>4. vault >= g.total_deposit /\ LeavesRent(vault - g.total_deposit)
  BY DEF ClaimsAreFunded
<1>5. Len(checks) = 9
  BY ClaimRewardList
<1>6. /\ checks[1] = Check(Configured /\ g.exists, "accountNotInitialized")
      /\ checks[2] = Check(IsWinner(acc, r), "incorrectAuthority")
      /\ checks[3] = Check(PaysForPlatform(acc), "incorrectPayerAuthority")
      /\ checks[4] = Check(r < config.game_round, "roundNumberError")
      /\ checks[5] = Check(~g.is_claimed, "winnerClaimed")
      /\ checks[6] = Check(g.is_completed, "gameNotCompleted")
      /\ checks[7] = Check(vault >= g.total_deposit, "insufficientFunds")
      /\ checks[8] = Check(LeavesRent(vault - g.total_deposit), "insufficientFundsForRent")
      /\ checks[9] = KeepsRent(left)
  BY DEF ClaimRewardChecks
<1> HIDE DEF checks, acc
<1>7. \A i \in 1..8 : checks[i] = NoError
  <2>1. \A i \in 1..8 : i \in {1, 2, 3, 4, 5, 6, 7, 8}
    OBVIOUS
  <2> QED BY <1>2, <1>3, <1>4, <1>6, <2>1 DEF Check
<1>8. FirstError(checks) = KeepsRent(left)
  <2>1. 9 \in Nat /\ 9 > 0 /\ 9 - 1 = 8
    OBVIOUS
  <2> QED BY <1>5, <1>6, <1>7, <2>1, LastDecides
<1>9. (\A w \in Wallets : LeavesRent(left[w])) <=> LeavesRent(wallet[g.winner] + g.total_deposit)
  <2>1. wallet \in [Wallets -> Nat]
    BY DEF IInv, TypeOK
  <2>2. \A w \in Wallets :
           left[w] = IF w = g.winner THEN wallet[g.winner] + g.total_deposit ELSE wallet[w]
    BY <1>2, <2>1
  <2> HIDE DEF left
  <2> QED BY <1>1, <2>2 DEF WalletsExempt
<1>10. LeavesRent(wallet[g.winner] + g.total_deposit) <=> ~PotBelowRent(r)
  <2>1. wallet[g.winner] \in Nat /\ LeavesRent(wallet[g.winner])
    BY <1>1 DEF WalletsExempt, IInv, TypeOK
  <2>2. RentMinimum(0) \in Nat
    BY DEF RentMinimum
  <2> QED BY <1>1, <2>1, <2>2 DEF LeavesRent, PotBelowRent
<1> HIDE DEF left
<1> QED BY <1>8, <1>9, <1>10 DEF KeepsRent, Check, NoError, checks, acc

(***************************************************************************)
(* A claim signed by the winner and the payer of a drawn, unclaimed round  *)
(* within reach passes every test of claim_reward: the winner is somebody  *)
(* with a stake, the vault was never spent below what the round is owed,   *)
(* and no wallet is below its rent.  The one exception is the runtime's:   *)
(* an empty wallet and a pot smaller than a wallet's rent.                 *)
(***************************************************************************)
THEOREM WinnersCollect == Spec => []WinnersCanClaim
<1>1. IInv /\ WalletsExempt /\ ClaimsAreFunded => WinnersCanClaim
  BY ClaimMeetsRentOnly DEF WinnersCanClaim
<1> QED BY <1>1, Invariance, WalletsStayExempt, ClaimsCanBePaid, PTL

(***************************************************************************)
(* The authority and the draw of a decided round.                          *)
(***************************************************************************)
DrawSigners(r) ==
    [creator |-> config.authority, random |-> RandomnessAddress(games[r].force)]

AwaitsDraw(r) ==
    /\ Decided(r)
    /\ ~games[r].is_completed
    /\ CurrentState(games[r].force) # 0

LEMMA DrawPasses ==
    ASSUME IInv, NEW r \in Rounds, AwaitsDraw(r), r < config.game_round
    PROVE  FirstError(SetWinnerChecks(DrawSigners(r), r)) = NoError
<1> DEFINE g == games[r]
           acc == DrawSigners(r)
           checks == SetWinnerChecks(acc, r)
<1>1. IsAuthority(acc) /\ acc.random = RandomnessAddress(g.force)
  BY DEF DrawSigners, IsAuthority
<1>2. g.exists
  <2>1. ~g.exists => Blank(g)
    BY DEF IInv, RoundInv
  <2>2. Blank(g) => g.total_deposit = 0
    BY DEF Blank, NoGame
  <2> QED BY <2>1, <2>2 DEF AwaitsDraw, Decided
<1>3. Addressable(r)
  BY <1>2 DEF Addressable
<1>4. Configured /\ r < config.game_round
  BY <1>3, AddressableConfigured DEF IInv
<1>5. Ended(g) /\ NotDrawn(g) /\ g.total_deposit > 0
  BY DEF AwaitsDraw, Decided, Closed, Ended, NotDrawn
<1>6. random[g.force].status # "none" /\ CurrentState(g.force) # 0
  BY DEF AwaitsDraw, Decided
<1>7. Len(checks) = 9
  BY SetWinnerList
<1>8. /\ checks[1] = Check(Configured /\ g.exists, "accountNotInitialized")
      /\ checks[2] = Check(IsAuthority(acc), "incorrectAuthority")
      /\ checks[3] = Check(acc.random = RandomnessAddress(g.force), "constraintSeeds")
      /\ checks[4] = Check(r < config.game_round, "roundNumberError")
      /\ checks[5] = Check(Ended(g), "gameNotCompleted")
      /\ checks[6] = Check(NotDrawn(g), "setWinnerCompleted")
      /\ checks[7] = Check(g.exists => random[g.force].status # "none",
                           "uninitializedAccount")
      /\ checks[8] = Check(g.exists => CurrentState(g.force) # 0, "stillProcessing")
      /\ checks[9] = Check(g.total_deposit > 0, "panic")
  BY DEF SetWinnerChecks
<1> HIDE DEF checks, acc, g
<1>9. \A i \in 1..9 : i \in {1, 2, 3, 4, 5, 6, 7, 8, 9}
  OBVIOUS
<1>10. \A i \in 1..9 : checks[i] = NoError
  BY <1>1, <1>2, <1>4, <1>5, <1>6, <1>8, <1>9 DEF Check
<1> QED BY <1>7, <1>10, NothingFails, 9 \in Nat DEF checks, acc

LEMMA DrawIsAwaited ==
    ASSUME IInv, Next, NEW r \in Rounds, AwaitsDraw(r)
    PROVE  AwaitsDraw(r)' \/ games'[r].is_completed
<1>1. Decided(r)' \/ games'[r].is_completed
  BY DecisionStays DEF DecisionKept, AwaitsDraw
<1>2. games[r].exists
  <2>1. ~games[r].exists => Blank(games[r])
    BY DEF IInv, RoundInv
  <2>2. Blank(games[r]) => games[r].total_deposit = 0
    BY DEF Blank, NoGame
  <2> QED BY <2>1, <2>2 DEF AwaitsDraw, Decided
<1>3. games'[r].force = games[r].force
  BY <1>2, DepositsStay DEF DepositsKept
<1>4. random'[games[r].force] = random[games[r].force]
  <2>1. games[r].force \in Forces
    BY <1>2 DEF IInv, TypeOK
  <2> QED BY <2>1, AnswersStay DEF IInv, AwaitsDraw, Decided
<1>5. CurrentState(games[r].force)' = CurrentState(games[r].force)
  BY <1>3, <1>4 DEF CurrentState
<1> QED BY <1>1, <1>5 DEF AwaitsDraw

(***************************************************************************)
(* From the moment a round of three or more users has closed with a pot    *)
(* and a random word that is not 0, set_winner signed by the authority of  *)
(* the moment passes every test, at any time, until it has drawn the       *)
(* round; only while configure holds the counter at or below the round's   *)
(* number is it refused.  Nothing else takes the chance away, so that weak *)
(* fairness is all the draw needs.                                         *)
(***************************************************************************)
THEOREM StaysDrawable ==
    ASSUME NEW CONSTANT r \in Rounds
    PROVE  Spec => [](AwaitsDraw(r)
                      => [](~games[r].is_completed /\ r < config.game_round =>
                               FirstError(SetWinnerChecks(DrawSigners(r), r)) = NoError))
<1> DEFINE Waiting == AwaitsDraw(r)
           Drawn == games[r].is_completed
           Reached == r < config.game_round
           Accepted == FirstError(SetWinnerChecks(DrawSigners(r), r)) = NoError
<1>1. ASSUME IInv, Waiting \/ Drawn, Next
      PROVE  Waiting' \/ Drawn'
  BY <1>1, DrawIsAwaited, DrawStays DEF DrawKept
<1>2. (Waiting \/ Drawn) /\ UNCHANGED vars => Waiting' \/ Drawn'
  BY DEF vars, AwaitsDraw, Decided, Closed, CurrentState
<1>3. IInv /\ (Waiting \/ Drawn) /\ [Next]_vars => (Waiting \/ Drawn)'
  BY <1>1, <1>2
<1>4. IInv /\ (Waiting \/ Drawn) => (~Drawn /\ Reached => Accepted)
  BY DrawPasses
<1> HIDE DEF Waiting, Drawn, Reached, Accepted
<1>5. Spec => [](Waiting => [](~Drawn /\ Reached => Accepted))
  BY <1>3, <1>4, Invariance, PTL DEF Spec
<1> QED BY <1>5 DEF Waiting, Drawn, Reached, Accepted
=============================================================================
