------------------------- MODULE JackpotMoneyProofs -------------------------
(***************************************************************************)
(* Where the money is: the lamports that a step takes from one account it  *)
(* adds to another, for any number of accounts and whichever of the keys   *)
(* of an instruction are the same.                                         *)
(***************************************************************************)
EXTENDS JackpotProofs, FiniteSums

LEMMA RoundsAreFinite == IsFiniteSet(Rounds)
BY BoundsAssumption, FS_Interval DEF Rounds

(***************************************************************************)
(* What each kind of account holds, and what one change of one account     *)
(* does to the sum over the accounts of its kind.                          *)
(***************************************************************************)
LEMMA HoldingsType ==
    ASSUME TypeOK
    PROVE  /\ wallet \in [Wallets -> Int] /\ SumFunction(wallet) \in Int
           /\ RoundLamports \in [Rounds -> Int] /\ SumFunction(RoundLamports) \in Int
           /\ OracleLamports \in [Forces -> Int] /\ SumFunction(OracleLamports) \in Int
           /\ ConfigLamports \in Int
           /\ vault \in Int
<1>1. wallet \in [Wallets -> Int] /\ vault \in Int
  BY DEF TypeOK
<1>2. RoundLamports \in [Rounds -> Int]
  BY DEF TypeOK, RoundLamports, GameGround
<1>3. OracleLamports \in [Forces -> Int]
  BY InputsAssumption DEF OracleLamports
<1>4. ConfigLamports \in Int
  BY DEF ConfigLamports, RentMinimum, ConfigLen
<1> QED BY <1>1, <1>2, <1>3, <1>4, SumFunctionInt, FiniteAssumption, RoundsAreFinite

LEMMA Moved ==
    ASSUME NEW v \in [Wallets -> Int], NEW w \in [Wallets -> Int], NEW a \in Wallets,
           NEW n \in Int, w[a] = v[a] + n, \A x \in Wallets : x # a => w[x] = v[x]
    PROVE  SumFunction(w) = SumFunction(v) + n
<1>1. SumFunction(w) = SumFunction(v) + (w[a] - v[a])
  BY FiniteAssumption, SumFunctionChange
<1>2. w[a] - v[a] = n
  <2>1. v[a] \in Int
    OBVIOUS
  <2> QED BY <2>1
<1> QED BY <1>1, <1>2

LEMMA Credited ==
    ASSUME NEW w \in [Wallets -> Int], NEW a \in Wallets, NEW n \in Int
    PROVE  /\ [w EXCEPT ![a] = @ + n] \in [Wallets -> Int]
           /\ SumFunction([w EXCEPT ![a] = @ + n]) = SumFunction(w) + n
<1> DEFINE v == [w EXCEPT ![a] = @ + n]
<1>1. /\ v \in [Wallets -> Int] /\ v[a] = w[a] + n /\ w[a] \in Int
      /\ \A x \in Wallets : x # a => v[x] = w[x]
  OBVIOUS
<1> HIDE DEF v
<1>2. SumFunction(v) = SumFunction(w) + (v[a] - w[a])
  BY <1>1, FiniteAssumption, SumFunctionChange
<1>3. v[a] - w[a] = n
  BY <1>1
<1> QED BY <1>1, <1>2, <1>3 DEF v

LEMMA Debited ==
    ASSUME NEW w \in [Wallets -> Int], NEW a \in Wallets, NEW n \in Int
    PROVE  /\ [w EXCEPT ![a] = @ - n] \in [Wallets -> Int]
           /\ SumFunction([w EXCEPT ![a] = @ - n]) = SumFunction(w) - n
<1> DEFINE v == [w EXCEPT ![a] = @ - n]
<1>1. /\ v \in [Wallets -> Int] /\ v[a] = w[a] - n /\ w[a] \in Int
      /\ \A x \in Wallets : x # a => v[x] = w[x]
  OBVIOUS
<1> HIDE DEF v
<1>2. SumFunction(v) = SumFunction(w) + (v[a] - w[a]) /\ SumFunction(w) \in Int
  BY <1>1, FiniteAssumption, SumFunctionChange, SumFunctionInt
<1>3. SumFunction(v) = SumFunction(w) - n
  BY <1>1, <1>2
<1> QED BY <1>1, <1>3 DEF v

LEMMA RoundFunded ==
    ASSUME TypeOK, TypeOK', NEW r \in Rounds,
           \A q \in Rounds : q # r => games'[q].lamports = games[q].lamports
    PROVE  SumFunction(RoundLamports)'
           = SumFunction(RoundLamports) + (games'[r].lamports - games[r].lamports)
<1>1. RoundLamports \in [Rounds -> Int] /\ RoundLamports' \in [Rounds -> Int]
  <2>1. \A q \in Rounds : games[q] \in GameGround /\ games'[q] \in GameGround
    BY DEF TypeOK
  <2>2. \A q \in Rounds : games[q].lamports \in Int /\ games'[q].lamports \in Int
    BY <2>1 DEF GameGround
  <2> QED BY <2>2 DEF RoundLamports
<1>2. \A q \in Rounds : RoundLamports[q] = games[q].lamports
                        /\ RoundLamports'[q] = games'[q].lamports
  BY DEF RoundLamports
<1>3. SumFunction(RoundLamports') = SumFunction(RoundLamports)
                                    + (RoundLamports'[r] - RoundLamports[r])
  BY <1>1, <1>2, RoundsAreFinite, SumFunctionChange
<1> QED BY <1>2, <1>3

LEMMA OracleFunded ==
    ASSUME NEW f \in Forces, \A e \in Forces : e # f => random'[e] = random[e],
           random[f].status = "none", random'[f].status # "none"
    PROVE  SumFunction(OracleLamports)' = SumFunction(OracleLamports) + VrfCost
<1>1. OracleLamports \in [Forces -> Int] /\ OracleLamports' \in [Forces -> Int]
  BY InputsAssumption DEF OracleLamports
<1>2. /\ OracleLamports[f] = 0 /\ OracleLamports'[f] = VrfCost
      /\ \A e \in Forces : e # f => OracleLamports'[e] = OracleLamports[e]
  BY DEF OracleLamports
<1>3. SumFunction(OracleLamports') = SumFunction(OracleLamports)
                                     + (OracleLamports'[f] - OracleLamports[f])
  BY <1>1, <1>2, FiniteAssumption, SumFunctionChange
<1>4. VrfCost - 0 = VrfCost
  BY InputsAssumption
<1> QED BY <1>2, <1>3, <1>4

LEMMA OracleKept ==
    ASSUME \A f \in Forces : (random'[f].status = "none") = (random[f].status = "none")
    PROVE  OracleLamports' = OracleLamports
BY DEF OracleLamports

LEMMA RoundsKept ==
    ASSUME \A r \in Rounds : games'[r].lamports = games[r].lamports
    PROVE  RoundLamports' = RoundLamports
BY DEF RoundLamports

(***************************************************************************)
(* The sum of everything.                                                  *)
(***************************************************************************)
Lamports ==
    SumFunction(wallet) + vault + SumFunction(RoundLamports) + ConfigLamports
    + SumFunction(OracleLamports)

LEMMA InitConserved == Init => LamportsAreConserved
<1> SUFFICES ASSUME Init PROVE LamportsAreConserved
  OBVIOUS
<1>1. TypeOK
  BY InitTypeOK
<1>2. /\ RoundLamports \in [Rounds -> Int] /\ OracleLamports \in [Forces -> Int]
      /\ SumFunction(wallet) \in Int
  BY <1>1, HoldingsType
<1>3. \A r \in Rounds : RoundLamports[r] = 0
  BY DEF Init, NoGame, RoundLamports
<1>4. \A f \in Forces : OracleLamports[f] = 0
  BY DEF Init, OracleLamports
<1>5. SumFunction(RoundLamports) = 0
  BY <1>2, <1>3, RoundsAreFinite, SumFunctionZero
<1>6. SumFunction(OracleLamports) = 0
  BY <1>2, <1>4, FiniteAssumption, SumFunctionZero
<1>7. ConfigLamports = 0
  BY DEF Init, ConfigLamports, Configured, NoConfig
<1>8. wallet = InitialLamports /\ vault = 0
  BY DEF Init
<1> QED BY <1>2, <1>5, <1>6, <1>7, <1>8 DEF LamportsAreConserved

LEMMA ConfigureConserves ==
    ASSUME TypeOK, NEW payer \in Wallets, NEW c, Configure(payer, c), TypeOK', Configured'
    PROVE  Lamports' = Lamports
<1>1. SeedDue \in Int /\ ConfigureCost \in Int
      /\ ConfigureCost = ConfigLamports' - ConfigLamports + SeedDue
  <2>1. RentMinimum(ConfigLen) \in Int /\ SeedDue \in Int
    BY DEF SeedDue, VaultSeed, RentMinimum, ConfigLen
  <2> QED BY <2>1 DEF ConfigLamports, ConfigureCost
<1>2. SumFunction(wallet') = SumFunction(wallet) - ConfigureCost
  BY <1>1, HoldingsType, Debited DEF Configure
<1>3. /\ vault' = vault + SeedDue
      /\ RoundLamports' = RoundLamports /\ OracleLamports' = OracleLamports
  BY RoundsKept, OracleKept DEF Configure
<1>4. ConfigLamports' \in Int
  BY DEF ConfigLamports, RentMinimum, ConfigLen
<1> QED BY <1>1, <1>2, <1>3, <1>4, HoldingsType DEF Lamports

LEMMA CreateGameConserves ==
    ASSUME TypeOK, NEW f \in Forces, NEW t, NEW d, NEW j, CreateGame(f, t, d, j), TypeOK'
    PROVE  Lamports' = Lamports
<1> DEFINE k == config.game_round
           held == games[k].lamports
           due == RentDue(GameGroundSpace(0), held)
<1>1. k \in Rounds /\ config.payer_wallet \in Wallets
  BY DEF TypeOK, ConfigData, CreateGame
<1>2. games[k] \in GameGround
  BY <1>1 DEF TypeOK
<1>3. held \in Nat /\ due \in Nat /\ VrfCost \in Nat
  BY <1>2, RentDueIsNat, InputsAssumption DEF GameGround
<1>4. /\ games' = [games EXCEPT ![k] = NewGame(held, f, t, d, j)]
      /\ NewGame(held, f, t, d, j).lamports = held + due
      /\ wallet' = [wallet EXCEPT ![config.payer_wallet] = @ - (due + VrfCost)]
      /\ vault' = vault
      /\ random[f].status = "none"
      /\ random' = [random EXCEPT ![f].status = "pending"]
      /\ config' = [config EXCEPT !.game_round = NextCounter(k)]
  BY DEF CreateGame, NewGame, NoGame
<1> HIDE DEF due
<1>5. SumFunction(wallet') = SumFunction(wallet) - (due + VrfCost)
  <2>1. due + VrfCost \in Int
    BY <1>3
  <2> DEFINE cost == due + VrfCost
  <2>2. wallet' = [wallet EXCEPT ![config.payer_wallet] = @ - cost] /\ cost \in Int
    BY <1>4, <2>1
  <2> HIDE DEF cost
  <2>3. SumFunction(wallet') = SumFunction(wallet) - cost
    BY <1>1, <2>2, HoldingsType, Debited
  <2> QED BY <2>3 DEF cost
<1>6. SumFunction(RoundLamports)' = SumFunction(RoundLamports) + ((held + due) - held)
  <2>1. /\ games'[k].lamports = held + due
        /\ \A q \in Rounds : q # k => games'[q].lamports = games[q].lamports
    BY <1>1, <1>4 DEF TypeOK
  <2> QED BY <1>1, <2>1, RoundFunded
<1>7. SumFunction(OracleLamports)' = SumFunction(OracleLamports) + VrfCost
  <2>1. /\ random'[f].status = "pending"
        /\ \A e \in Forces : e # f => random'[e] = random[e]
    BY <1>4 DEF TypeOK, Randomness
  <2> QED BY <1>4, <2>1, OracleFunded
<1>8. ConfigLamports' = ConfigLamports
  BY <1>4 DEF ConfigLamports, Configured, TypeOK, ConfigData
<1> QED BY <1>3, <1>4, <1>5, <1>6, <1>7, <1>8, HoldingsType DEF Lamports

LEMMA JoinGameConserves ==
    ASSUME TypeOK, NEW r \in Rounds, NEW p \in Players, NEW a \in Int, JoinGame(r, p, a), TypeOK'
    PROVE  Lamports' = Lamports
<1> DEFINE g == games[r]
           fee == BpsMul(config.platform_fee, a)
           joined == Joined(g, p, AmountApplied(a, fee))
           debited == [wallet EXCEPT ![p] = @ - a]
           transferred == [debited EXCEPT ![config.team_wallet] = @ + fee]
           rent == RentMoved(g, joined)
<1>1. config.payer_wallet \in Wallets /\ config.team_wallet \in Wallets /\ p \in Wallets
  BY AddressableConfigured, WalletsAssumption DEF JoinGame
<1>2. fee \in Nat
  <2>1. config.platform_fee \in Nat /\ a \in Nat
    BY DEF TypeOK, ConfigData, JoinGame
  <2> HIDE DEF g
  <2> QED BY <2>1, FeeIsNat
<1>3. /\ games' = [games EXCEPT ![r] = joined]
      /\ vault' = vault + (a - fee)
      /\ wallet' = [transferred EXCEPT ![config.payer_wallet] = @ - rent]
      /\ UNCHANGED <<config, random>>
  BY DEF JoinGame, Joined
<1> HIDE DEF fee, joined
<1>4. rent = joined.lamports - g.lamports /\ joined.lamports \in Int /\ g.lamports \in Int
  <2>1. games'[r] = joined
    BY <1>3 DEF TypeOK
  <2>2. joined \in GameGround /\ g \in GameGround
    BY <2>1 DEF TypeOK
  <2> QED BY <2>2 DEF GameGround, RentMoved
<1>5. rent \in Int
  BY <1>4
<1> HIDE DEF rent
<1>6. debited \in [Wallets -> Int] /\ SumFunction(debited) = SumFunction(wallet) - a
  BY <1>1, HoldingsType, Debited
<1> HIDE DEF debited
<1>7. transferred \in [Wallets -> Int] /\ SumFunction(transferred) = SumFunction(debited) + fee
  <2>1. fee \in Int
    BY <1>2
  <2> DEFINE team == config.team_wallet
  <2>2. team \in Wallets /\ transferred = [debited EXCEPT ![team] = @ + fee]
    BY <1>1
  <2> HIDE DEF transferred, team
  <2>3. /\ transferred \in [Wallets -> Int] /\ transferred[team] = debited[team] + fee
        /\ \A x \in Wallets : x # team => transferred[x] = debited[x]
    BY <1>6, <2>1, <2>2
  <2>4. team \in Wallets /\ debited \in [Wallets -> Int]
    BY <1>6, <2>2
  <2>5. SumFunction(transferred) = SumFunction(debited) + fee
    BY ONLY <2>1, <2>3, <2>4, Moved, Zenon
  <2> QED BY <2>3, <2>5
<1> HIDE DEF transferred
<1>8. SumFunction(wallet') = SumFunction(transferred) - rent
  <2> DEFINE payer == config.payer_wallet
  <2>1. payer \in Wallets /\ wallet' = [transferred EXCEPT ![payer] = @ - rent]
    BY <1>1, <1>3
  <2>2. transferred \in [Wallets -> Int]
    BY <1>7
  <2> HIDE DEF payer
  <2>3. /\ wallet' \in [Wallets -> Int] /\ wallet'[payer] = transferred[payer] + (-rent)
        /\ -rent \in Int /\ transferred[payer] \in Int
        /\ \A x \in Wallets : x # payer => wallet'[x] = transferred[x]
    BY <1>5, <2>1, <2>2
  <2>4. SumFunction(wallet') = SumFunction(transferred) + (-rent)
    <3>1. payer \in Wallets
      BY <2>1
    <3> DEFINE after == wallet'
               change == -rent
    <3>2. /\ after \in [Wallets -> Int] /\ after[payer] = transferred[payer] + change
          /\ change \in Int
          /\ \A x \in Wallets : x # payer => after[x] = transferred[x]
      BY <2>3
    <3> HIDE DEF after, change
    <3>3. SumFunction(after) = SumFunction(transferred) + change
      BY ONLY <2>2, <3>1, <3>2, Moved, Zenon
    <3> QED BY <3>3 DEF after, change
  <2>5. SumFunction(transferred) \in Int
    BY <2>2, FiniteAssumption, SumFunctionInt
  <2> QED BY <1>5, <2>4, <2>5
<1>9. SumFunction(RoundLamports)' = SumFunction(RoundLamports) + (joined.lamports - g.lamports)
  <2>1. /\ games'[r].lamports = joined.lamports
        /\ \A q \in Rounds : q # r => games'[q].lamports = games[q].lamports
    BY <1>3 DEF TypeOK
  <2> QED BY <2>1, RoundFunded
<1>10. ConfigLamports' = ConfigLamports /\ OracleLamports' = OracleLamports
  BY <1>3 DEF ConfigLamports, Configured, OracleLamports
<1> HIDE DEF g
<1> QED BY <1>2, <1>3, <1>4, <1>5, <1>6, <1>7, <1>8, <1>9, <1>10, HoldingsType DEF Lamports

LEMMA SetWinnerConserves ==
    ASSUME TypeOK, NEW r \in Rounds, SetWinner(r)
    PROVE  Lamports' = Lamports
<1>1. /\ games' = [games EXCEPT ![r] = WithWinner(games[r], CurrentState(games[r].force))]
      /\ UNCHANGED <<config, vault, wallet, random>>
  BY DEF SetWinner
<1>2. \A word : WithWinner(games[r], word).lamports = games[r].lamports
  BY DEF WithWinner, TypeOK, GameGround
<1>3. RoundLamports' = RoundLamports
  BY <1>1, <1>2, RoundsKept DEF TypeOK
<1> QED BY <1>1, <1>3 DEF Lamports, ConfigLamports, Configured, OracleLamports

LEMMA ClaimRewardConserves ==
    ASSUME TypeOK, NEW r \in Rounds, ClaimReward(r)
    PROVE  Lamports' = Lamports
<1> DEFINE pot == games[r].total_deposit
<1>1. pot \in Int /\ games[r].winner \in Wallets
  BY DEF TypeOK, GameGround, ClaimReward
<1>2. /\ games' = [games EXCEPT ![r] = AfterClaim(games[r])]
      /\ vault' = vault - pot
      /\ wallet' = [wallet EXCEPT ![games[r].winner] = @ + pot]
      /\ UNCHANGED <<config, random>>
  BY DEF ClaimReward
<1>3. AfterClaim(games[r]).lamports = games[r].lamports
  BY DEF AfterClaim, TypeOK, GameGround
<1>4. RoundLamports' = RoundLamports
  BY <1>2, <1>3, RoundsKept DEF TypeOK
<1> HIDE DEF pot
<1>5. SumFunction(wallet') = SumFunction(wallet) + pot
  BY <1>1, <1>2, HoldingsType, Credited
<1>6. ConfigLamports' = ConfigLamports /\ OracleLamports' = OracleLamports
  BY <1>2 DEF ConfigLamports, Configured, OracleLamports
<1> QED BY <1>1, <1>2, <1>4, <1>5, <1>6, HoldingsType DEF Lamports

LEMMA EndowVaultConserves ==
    ASSUME TypeOK, NEW w \in Donors, NEW a \in Gifts, EndowVault(w, a)
    PROVE  Lamports' = Lamports
<1>1. w \in Wallets /\ a \in Int
  BY WalletsAssumption, InputsAssumption
<1>2. SumFunction(wallet') = SumFunction(wallet) - a
  BY <1>1, HoldingsType, Debited DEF EndowVault
<1>3. /\ vault' = vault + a /\ ConfigLamports' = ConfigLamports
      /\ RoundLamports' = RoundLamports /\ OracleLamports' = OracleLamports
  BY DEF EndowVault, ConfigLamports, Configured, RoundLamports, OracleLamports
<1> QED BY <1>1, <1>2, <1>3, HoldingsType DEF Lamports

LEMMA EndowRoundConserves ==
    ASSUME TypeOK, NEW w \in Donors, NEW r \in Rounds, NEW a \in Gifts, EndowRound(w, r, a),
           TypeOK'
    PROVE  Lamports' = Lamports
<1>1. w \in Wallets /\ a \in Int
  BY WalletsAssumption, InputsAssumption
<1>2. SumFunction(wallet') = SumFunction(wallet) - a
  BY <1>1, HoldingsType, Debited DEF EndowRound
<1>3. games[r].lamports \in Int
  BY DEF TypeOK, GameGround
<1>4. SumFunction(RoundLamports)'
      = SumFunction(RoundLamports) + ((games[r].lamports + a) - games[r].lamports)
  <2>1. /\ games'[r].lamports = games[r].lamports + a
        /\ \A q \in Rounds : q # r => games'[q].lamports = games[q].lamports
    BY DEF EndowRound, TypeOK, GameGround
  <2> QED BY <2>1, RoundFunded
<1>5. vault' = vault /\ ConfigLamports' = ConfigLamports /\ OracleLamports' = OracleLamports
  BY DEF EndowRound, ConfigLamports, Configured, OracleLamports
<1> QED BY <1>1, <1>2, <1>3, <1>4, <1>5, HoldingsType DEF Lamports

LEMMA EnvironmentConserves ==
    ASSUME TypeOK,
           \/ \E f \in Forces, v \in RandomValues : Fulfill(f, v)
           \/ Tick
           \/ UNCHANGED vars
    PROVE  Lamports' = Lamports
<1>1. /\ UNCHANGED <<config, games, vault, wallet>>
      /\ \A f \in Forces : (random'[f].status = "none") = (random[f].status = "none")
  BY DEF Fulfill, Tick, vars, TypeOK
<1>2. RoundLamports' = RoundLamports /\ ConfigLamports' = ConfigLamports
  BY <1>1 DEF RoundLamports, ConfigLamports, Configured
<1>3. OracleLamports' = OracleLamports
  BY <1>1, OracleKept
<1> QED BY <1>1, <1>2, <1>3 DEF Lamports

LEMMA NextConserves == TypeOK /\ [Next]_vars => Lamports' = Lamports
<1> SUFFICES ASSUME TypeOK, [Next]_vars PROVE Lamports' = Lamports
  OBVIOUS
<1>1. ASSUME NEW payer \in Wallets, NEW c \in Configs,
             NEW n \in {config.game_round} \cup CounterResets,
             Configure(payer, [c EXCEPT !.game_round = n])
      PROVE  Lamports' = Lamports
  <2>1. c \in ConfigData /\ c.authority \in Wallets
    BY ConfigsAssumption
  <2>2. config' = [c EXCEPT !.game_round = n]
    BY <1>1 DEF Configure
  <2>3. Configured'
    BY <2>1, <2>2, WalletsAssumption DEF Configured, ConfigData
  <2> QED BY <1>1, <2>3, ConfigureTypeOK, ConfigureConserves
<1>2. ASSUME NEW f \in Forces, NEW t \in RoundTimes, NEW d \in MinDeposits,
             NEW j \in JoinerLimits, CreateGame(f, t, d, j)
      PROVE  Lamports' = Lamports
  BY <1>2, CreateGameTypeOK, CreateGameConserves
<1>3. ASSUME NEW r \in Rounds, NEW p \in Players, NEW a \in DepositAmounts, JoinGame(r, p, a)
      PROVE  Lamports' = Lamports
  BY <1>3, JoinGameTypeOK, JoinGameConserves, InputsAssumption
<1>4. ASSUME NEW r \in Rounds, SetWinner(r)
      PROVE  Lamports' = Lamports
  BY <1>4, SetWinnerConserves
<1>5. ASSUME NEW r \in Rounds, ClaimReward(r)
      PROVE  Lamports' = Lamports
  BY <1>5, ClaimRewardConserves
<1>6. ASSUME NEW w \in Donors, NEW a \in Gifts, EndowVault(w, a)
      PROVE  Lamports' = Lamports
  BY <1>6, EndowVaultConserves
<1>7. ASSUME NEW w \in Donors, NEW r \in Rounds, NEW a \in Gifts, EndowRound(w, r, a)
      PROVE  Lamports' = Lamports
  BY <1>7, EndowRoundTypeOK, EndowRoundConserves
<1> QED BY <1>1, <1>2, <1>3, <1>4, <1>5, <1>6, <1>7, EnvironmentConserves DEF Next

(***************************************************************************)
(* No instruction, gift or answer of the oracle makes or loses a lamport,  *)
(* for any number of accounts: not a join whose player, team wallet and    *)
(* payer are one key, and not a resize of an account that was sent money.  *)
(***************************************************************************)
THEOREM NoLamportIsLost == Spec => []LamportsAreConserved
<1>1. LamportsAreConserved /\ TypeOK /\ [Next]_vars => LamportsAreConserved'
  BY NextConserves DEF LamportsAreConserved, Lamports
<1> QED BY <1>1, InitConserved, TypeCorrect, PTL DEF Spec
=============================================================================
