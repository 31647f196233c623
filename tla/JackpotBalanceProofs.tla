------------------------ MODULE JackpotBalanceProofs ------------------------
(***************************************************************************)
(* A player's balance follows the transactions the player signed, for any  *)
(* number of runs, players and rounds, and whatever is retried, given up   *)
(* or executed late.                                                       *)
(***************************************************************************)
EXTENDS JackpotClientProofs, JackpotMoneyProofs

(***************************************************************************)
(* What the balance depends on besides ClientInv: the settings in force    *)
(* name no user, and there are finitely many records to add up.            *)
(***************************************************************************)
PlatformIsNoUser ==
    Configured => config.payer_wallet \notin Users /\ config.team_wallet \notin Users

BalanceInv ==
    /\ ClientInv
    /\ PlatformIsNoUser
    /\ IsFiniteSet(ledger)
    /\ BalanceFollowsTransactions

LEMMA UserIsWallet ==
    ASSUME NEW u \in Users
    PROVE  u \in Wallets /\ u # NoWallet
BY ClientAssumption, WalletsAssumption

LEMMA WonType ==
    ASSUME TypeOK, NEW u
    PROVE  Won(u) \in [Rounds -> Int] /\ SumFunction(Won(u)) \in Int
<1>1. Won(u) \in [Rounds -> Int]
  BY DEF Won, TypeOK
<1> QED BY <1>1, RoundsAreFinite, SumFunctionInt

LEMMA SpentType ==
    ASSUME ClientInv, IsFiniteSet(ledger), NEW u
    PROVE  /\ IsFiniteSet(JoinsOf(u))
           /\ Spent(u) \in [JoinsOf(u) -> Int]
           /\ SumFunction(Spent(u)) \in Int
<1>1. IsFiniteSet(JoinsOf(u))
  BY FS_Subset DEF JoinsOf
<1>2. ASSUME NEW e \in JoinsOf(u)
      PROVE  e.tx.command.amount \in Int
  <2>1. e.tx.command \in Commands \cup {NoCommand} /\ e.tx.command.name = "join"
    BY DEF JoinsOf, ClientInv, LedgerInv, Transaction
  <2>2. e.tx.command \in Commands
    BY <2>1 DEF NoCommand
  <2>3. e.tx.command.amount \in DepositAmounts
    BY <2>1, <2>2, ClientAssumption DEF CommandType
  <2>4. e.tx.command.amount \in Nat
    BY <2>3, InputsAssumption
  <2> QED BY <2>4
<1>3. Spent(u) \in [JoinsOf(u) -> Int]
  BY <1>2 DEF Spent
<1> QED BY <1>1, <1>3, SumFunctionInt

(***************************************************************************)
(* A step of the program earns a user what it adds to the user's balance,  *)
(* unless it is a join the user signed.                                    *)
(***************************************************************************)
Earns(u) == wallet'[u] = wallet[u] + (SumFunction(Won(u))' - SumFunction(Won(u)))

LEMMA EarnsNothing ==
    ASSUME TypeOK, NEW u \in Wallets, wallet'[u] = wallet[u],
           \A r \in Rounds : Won(u)'[r] = Won(u)[r]
    PROVE  Earns(u)
<1>1. Won(u)' = Won(u)
  BY DEF Won
<1>2. SumFunction(Won(u)) \in Int /\ wallet[u] \in Int
  BY WonType DEF TypeOK
<1> QED BY <1>1, <1>2 DEF Earns

LEMMA VaultStaysSeeded ==
    ASSUME IInv, Configured
    PROVE  ConfigureCost = 0
<1>1. vault = reserve + Owed /\ Owed \in Nat /\ reserve \in Nat /\ reserve >= RentMinimum(0)
  BY VaultIsOwed, HeldType DEF IInv, TypeOK, ReserveInv
<1>2. vault # 0
  BY <1>1 DEF RentMinimum
<1> QED BY <1>2 DEF ConfigureCost, SeedDue

LEMMA ConfigureEarns ==
    ASSUME IInv, NEW u \in Users, NEW payer \in Wallets, NEW c, Configure(payer, c),
           Configured \/ payer # u
    PROVE  Earns(u)
<1>1. u \in Wallets /\ wallet \in [Wallets -> Nat] /\ TypeOK
  BY UserIsWallet DEF IInv, TypeOK
<1>2. wallet' = [wallet EXCEPT ![payer] = @ - ConfigureCost] /\ games' = games /\ paid' = paid
  BY DEF Configure
<1>3. wallet'[u] = wallet[u]
  BY <1>1, <1>2, VaultStaysSeeded
<1>4. \A r \in Rounds : Won(u)'[r] = Won(u)[r]
  BY <1>2 DEF Won
<1> QED BY <1>1, <1>3, <1>4, EarnsNothing

LEMMA CreateGameEarns ==
    ASSUME IInv, PlatformIsNoUser, NEW u \in Users, NEW f, NEW t, NEW d, NEW j,
           CreateGame(f, t, d, j)
    PROVE  Earns(u)
<1> DEFINE k == config.game_round
           new == NewGame(games[k].lamports, f, t, d, j)
<1>1. u \in Wallets /\ u # NoWallet /\ TypeOK /\ k \in Rounds
  BY UserIsWallet DEF IInv, TypeOK, ConfigData
<1>2. games[k].winner = NoWallet
  <2>1. ~games[k].exists
    BY DEF CreateGame, Vacant
  <2> QED BY <1>1, <2>1, BlankFields DEF IInv, RoundInv
<1>3. new.winner = NoWallet
  BY DEF NewGame, NoGame
<1>4. games' = [games EXCEPT ![k] = new] /\ paid' = paid
  BY DEF CreateGame
<1> HIDE DEF new, k
<1>5. \A r \in Rounds : games'[r].winner = games[r].winner
  BY <1>1, <1>2, <1>3, <1>4 DEF TypeOK
<1>6. \A r \in Rounds : Won(u)'[r] = Won(u)[r]
  BY <1>4, <1>5 DEF Won
<1>7. wallet'[u] = wallet[u]
  BY <1>1 DEF CreateGame, PlatformIsNoUser, TypeOK
<1> QED BY <1>1, <1>6, <1>7, EarnsNothing

(* A join takes the whole amount from the player's wallet and touches only *)
(* the platform's otherwise.                                               *)
LEMMA JoinGameTakes ==
    ASSUME IInv, PlatformIsNoUser, NEW u \in Users, NEW r \in Rounds, NEW p \in Players,
           NEW a \in Int, JoinGame(r, p, a)
    PROVE  /\ wallet'[u] = IF p = u THEN wallet[u] - a ELSE wallet[u]
           /\ \A q \in Rounds : Won(u)'[q] = Won(u)[q]
<1> DEFINE g == games[r]
           fee == BpsMul(config.platform_fee, a)
           applied == AmountApplied(a, fee)
           joined == Joined(g, p, applied)
           debited == [wallet EXCEPT ![p] = @ - a]
           transferred == [debited EXCEPT ![config.team_wallet] = @ + fee]
           rent == RentMoved(g, joined)
<1>1. /\ u \in Wallets /\ TypeOK
      /\ Configured /\ g \in GameGround
      /\ config.payer_wallet # u /\ config.team_wallet # u
  BY UserIsWallet, AddressableConfigured DEF IInv, JoinGame, PlatformIsNoUser
<1>2. /\ games' = [games EXCEPT ![r] = joined]
      /\ paid' = paid
      /\ wallet' = [transferred EXCEPT ![config.payer_wallet] = @ - rent]
  BY DEF JoinGame, Joined
<1>3. joined.winner = g.winner
  <2>1. a \in Nat /\ config.platform_fee \in Nat
    BY <1>1 DEF JoinGame, TypeOK, ConfigData
  <2>2. fee \in Nat /\ fee <= a
    BY <2>1, FeeIsNat DEF JoinGame, FeeFits
  <2>3. applied \in Nat
    BY <2>1, <2>2 DEF AmountApplied
  <2> HIDE DEF applied
  <2> QED BY <1>1, <2>3, JoinedFields DEF SameDraw
<1> HIDE DEF joined, fee, rent
<1>4. wallet'[u] = IF p = u THEN wallet[u] - a ELSE wallet[u]
  BY <1>1, <1>2 DEF TypeOK
<1>5. \A q \in Rounds : games'[q].winner = games[q].winner
  BY <1>1, <1>2, <1>3 DEF TypeOK
<1> QED BY <1>2, <1>4, <1>5 DEF Won

LEMMA SetWinnerEarns ==
    ASSUME IInv, NEW u \in Users, NEW r \in Rounds, SetWinner(r)
    PROVE  Earns(u)
<1>1. u \in Wallets /\ TypeOK
  BY UserIsWallet DEF IInv
<1>2. paid[r] = 0
  BY DEF SetWinner, NotDrawn, IInv, RoundInv
<1>3. wallet' = wallet /\ paid' = paid /\ \A q \in Rounds : q # r => games'[q] = games[q]
  BY <1>1 DEF SetWinner, TypeOK
<1>4. \A q \in Rounds : Won(u)'[q] = Won(u)[q]
  BY <1>2, <1>3 DEF Won
<1> QED BY <1>1, <1>3, <1>4, EarnsNothing

LEMMA ClaimRewardEarns ==
    ASSUME IInv, NEW u \in Users, NEW r \in Rounds, ClaimReward(r), TypeOK'
    PROVE  Earns(u)
<1> DEFINE pot == games[r].total_deposit
           w == games[r].winner
<1>1. u \in Wallets /\ TypeOK /\ games[r] \in GameGround /\ paid[r] \in Int
  BY UserIsWallet DEF IInv, TypeOK
<1>2. pot \in Int /\ w \in Wallets
  BY <1>1 DEF ClaimReward, GameGround
<1>3. /\ games' = [games EXCEPT ![r] = AfterClaim(games[r])]
      /\ wallet' = [wallet EXCEPT ![w] = @ + pot]
      /\ paid' = [paid EXCEPT ![r] = @ + pot]
  BY DEF ClaimReward
<1>4. AfterClaim(games[r]).winner = w
  BY <1>1, AfterClaimFields
<1> HIDE DEF pot
<1>5. /\ games'[r].winner = w /\ paid'[r] = paid[r] + pot
      /\ \A q \in Rounds : q # r => games'[q] = games[q] /\ paid'[q] = paid[q]
  BY <1>1, <1>3, <1>4 DEF TypeOK
<1>6. \A q \in Rounds : q # r => Won(u)'[q] = Won(u)[q]
  BY <1>5 DEF Won
<1>7. CASE w = u
  <2>1. Won(u)[r] = paid[r] /\ Won(u)'[r] = paid[r] + pot
    BY <1>5, <1>7 DEF Won
  <2>2. Won(u) \in [Rounds -> Int] /\ Won(u)' \in [Rounds -> Int]
    <3>1. Won(u)' \in [Rounds -> Int]
      BY DEF Won, TypeOK
    <3> QED BY <1>1, <3>1, WonType
  <2>3. SumFunction(Won(u)') = SumFunction(Won(u)) + (Won(u)'[r] - Won(u)[r])
    BY <1>6, <2>2, RoundsAreFinite, SumFunctionChange
  <2>4. wallet'[u] = wallet[u] + pot /\ wallet[u] \in Int
    BY <1>1, <1>3, <1>7 DEF TypeOK
  <2> QED BY <1>1, <1>2, <2>1, <2>3, <2>4, WonType DEF Earns
<1>8. CASE w # u
  <2>1. wallet'[u] = wallet[u]
    BY <1>1, <1>3, <1>8 DEF TypeOK
  <2>2. Won(u)'[r] = Won(u)[r]
    BY <1>5, <1>8 DEF Won
  <2> QED BY <1>1, <1>6, <2>1, <2>2, EarnsNothing
<1> QED BY <1>7, <1>8

-----------------------------------------------------------------------------
(***************************************************************************)
(* The records of a user's joins grow by one when such a join is executed, *)
(* and by nothing else.                                                    *)
(***************************************************************************)
LEMMA BalanceKept ==
    ASSUME BalanceInv, ClientInv', NEW u \in Users, Earns(u), JoinsOf(u)' = JoinsOf(u)
    PROVE  wallet'[u]
           = InitialLamports[u] - SumFunction(Spent(u))' + SumFunction(Won(u))'
<1>1. u \in Wallets /\ TypeOK /\ TypeOK'
  BY UserIsWallet DEF BalanceInv, ClientInv, IInv
<1>2. Spent(u)' = Spent(u)
  BY DEF Spent
<1>3. /\ SumFunction(Spent(u)) \in Int /\ SumFunction(Won(u)) \in Int
      /\ InitialLamports[u] \in Int
  BY <1>1, SpentType, WonType, InputsAssumption DEF BalanceInv
<1>4. SumFunction(Won(u))' \in Int
  <2>1. Won(u)' \in [Rounds -> Int]
    BY <1>1 DEF Won, TypeOK
  <2>2. SumFunction(Won(u)') \in Int
    BY <2>1, RoundsAreFinite, SumFunctionInt
  <2> QED BY <2>2
<1>5. wallet[u] = InitialLamports[u] - SumFunction(Spent(u)) + SumFunction(Won(u))
  BY DEF BalanceInv, BalanceFollowsTransactions
<1> QED BY <1>2, <1>3, <1>4, <1>5 DEF Earns

LEMMA BalanceSpent ==
    ASSUME BalanceInv, ClientInv', IsFiniteSet(ledger'), NEW u \in Users,
           NEW e, e \notin ledger, e.tx.command.amount \in Int,
           JoinsOf(u)' = JoinsOf(u) \cup {e},
           wallet'[u] = wallet[u] - e.tx.command.amount, Won(u)' = Won(u)
    PROVE  wallet'[u]
           = InitialLamports[u] - SumFunction(Spent(u))' + SumFunction(Won(u))'
<1> DEFINE n == e.tx.command.amount
<1>1. u \in Wallets /\ TypeOK
  BY UserIsWallet DEF BalanceInv, ClientInv, IInv
<1>2. /\ IsFiniteSet(JoinsOf(u)) /\ Spent(u) \in [JoinsOf(u) -> Int]
      /\ SumFunction(Spent(u)) \in Int /\ SumFunction(Won(u)) \in Int
      /\ InitialLamports[u] \in Int
  BY <1>1, SpentType, WonType, InputsAssumption DEF BalanceInv
<1>3. /\ e \notin JoinsOf(u)
      /\ Spent(u)' \in [JoinsOf(u) \cup {e} -> Int]
      /\ Spent(u)'[e] = n
      /\ \A d \in JoinsOf(u) : Spent(u)'[d] = Spent(u)[d]
  <2>1. e \notin JoinsOf(u)
    BY DEF JoinsOf
  <2>2. \A d \in JoinsOf(u) : d.tx.command.amount \in Int
    BY <1>2 DEF Spent
  <2> QED BY <2>1, <2>2 DEF Spent
<1>4. SumFunction(Spent(u)') = SumFunction(Spent(u)) + Spent(u)'[e]
  <2> DEFINE S == JoinsOf(u)
             T == S \cup {e}
             f == Spent(u)
             g == Spent(u)'
  <2>1. /\ IsFiniteSet(S) /\ f \in [S -> Int] /\ e \notin S
        /\ T = S \cup {e} /\ g \in [T -> Int] /\ \A d \in S : g[d] = f[d]
    BY <1>2, <1>3
  <2> HIDE DEF S, T, f, g
  <2>2. SumFunction(g) = SumFunction(f) + g[e]
    BY <2>1, SumFunctionExtend
  <2> QED BY <2>2 DEF f, g
<1>5. wallet[u] = InitialLamports[u] - SumFunction(Spent(u)) + SumFunction(Won(u))
  BY DEF BalanceInv, BalanceFollowsTransactions
<1>6. SumFunction(Spent(u))' = SumFunction(Spent(u)) + n
  BY <1>3, <1>4
<1>7. SumFunction(Won(u))' = SumFunction(Won(u))
  OBVIOUS
<1> HIDE DEF n
<1> QED BY <1>2, <1>5, <1>6, <1>7 DEF n

(***************************************************************************)
(* Each way the program can move, seen from a user.                        *)
(***************************************************************************)
LEMMA ElsewhereEarns ==
    ASSUME BalanceInv, ClientInv', Elsewhere, NEW u \in Users
    PROVE  Earns(u) /\ ledger' = ledger
<1>1. IInv /\ PlatformIsNoUser /\ TypeOK /\ TypeOK' /\ ledger' = ledger /\ u \in Wallets
  BY UserIsWallet DEF BalanceInv, ClientInv, IInv, Elsewhere, clientVars
<1>2. ASSUME NEW payer \in Wallets \ Users, NEW c,  Configure(payer, c)
      PROVE  Earns(u)
  BY <1>1, <1>2, ConfigureEarns
<1>3. ASSUME NEW f \in Forces, NEW t, NEW d, NEW j, CreateGame(f, t, d, j)
      PROVE  Earns(u)
  BY <1>1, <1>3, CreateGameEarns
<1>4. ASSUME NEW r \in Rounds, NEW p \in Players \ Users, NEW a \in DepositAmounts,
             JoinGame(r, p, a)
      PROVE  Earns(u)
  <2>1. a \in Int /\ p # u
    BY InputsAssumption
  <2>2. wallet'[u] = wallet[u] /\ \A q \in Rounds : Won(u)'[q] = Won(u)[q]
    BY <1>1, <1>4, <2>1, JoinGameTakes
  <2> QED BY <1>1, <2>2, EarnsNothing
<1>5. ASSUME NEW r \in Rounds, SetWinner(r) \/ ClaimReward(r)
      PROVE  Earns(u)
  BY <1>1, <1>5, SetWinnerEarns, ClaimRewardEarns
<1>6. ASSUME Tick \/ \E f \in Forces, v \in RandomValues : Fulfill(f, v)
      PROVE  Earns(u)
  <2>1. wallet' = wallet /\ games' = games /\ paid' = paid
    BY <1>6 DEF Tick, Fulfill
  <2>2. \A q \in Rounds : Won(u)'[q] = Won(u)[q]
    BY <2>1 DEF Won
  <2> QED BY <1>1, <2>1, <2>2, EarnsNothing
<1> QED BY <1>1, <1>2, <1>3, <1>4, <1>5, <1>6 DEF Elsewhere

LEMMA LandBalance ==
    ASSUME BalanceInv, ClientInv', NEW s \in Runs, Land(s), NEW u \in Users
    PROVE  wallet'[u]
           = InitialLamports[u] - SumFunction(Spent(u))' + SumFunction(Won(u))'
<1> DEFINE tx == run[s].tx
           acc == AccountsOf(tx)
           e == [tx |-> tx, error |-> NoError]
<1>1. /\ tx \in Transaction /\ Resolved(tx) /\ tx.command \in Commands
      /\ Configured /\ IInv /\ PlatformIsNoUser /\ TypeOK' /\ Executes(tx)
  BY DEF Land, InFlight, BalanceInv, ClientInv, IInv, RunInv, RunState, Resolved
<1>2. ledger' = ledger \cup {e} /\ e \notin ledger
  BY DEF Land, InFlight, Unprocessed, Executed
<1> HIDE DEF tx
<1>3. JoinsOf(u)' = IF tx.command.name = "join" /\ tx.command.user = u
                    THEN JoinsOf(u) \cup {e} ELSE JoinsOf(u)
  BY <1>2 DEF JoinsOf
<1>4. CASE ExecutesJoin(tx, acc) /\ tx.command.user = u
  <2>1. /\ tx.command.name = "join" /\ acc.joiner = u
        /\ JoinGame(tx.round, acc.joiner, tx.command.amount)
    BY <1>4, JoinNames DEF ExecutesJoin
  <2>2. u \in Players /\ tx.round \in Rounds /\ tx.command.amount \in Int
    <3>1. tx.command.amount \in DepositAmounts
      BY <1>1, <2>1, ClientAssumption DEF CommandType
    <3>2. tx.command.amount \in Nat
      BY <3>1, InputsAssumption
    <3> QED BY <1>1, <3>2, ClientAssumption DEF Transaction
  <2>3. JoinGame(tx.round, u, tx.command.amount)
    BY <2>1
  <2>4. /\ wallet'[u] = wallet[u] - tx.command.amount
        /\ \A q \in Rounds : Won(u)'[q] = Won(u)[q]
    BY <1>1, <2>2, <2>3, JoinGameTakes
  <2>5. Won(u)' = Won(u)
    BY <2>4 DEF Won
  <2>6. IsFiniteSet(ledger')
    BY <1>2, FS_AddElement DEF BalanceInv
  <2>7. JoinsOf(u)' = JoinsOf(u) \cup {e} /\ e.tx = tx
    BY <1>3, <1>4, <2>1
  <2> HIDE DEF e
  <2> QED BY <1>2, <2>2, <2>4, <2>5, <2>6, <2>7, BalanceSpent
<1>5. ASSUME Earns(u), tx.command.name # "join" \/ tx.command.user # u
      PROVE  wallet'[u]
             = InitialLamports[u] - SumFunction(Spent(u))' + SumFunction(Won(u))'
  BY <1>3, <1>5, BalanceKept
<1>6. CASE ExecutesJoin(tx, acc) /\ tx.command.user # u
  <2>1. /\ tx.command.name = "join" /\ acc.joiner = tx.command.user
        /\ JoinGame(tx.round, acc.joiner, tx.command.amount)
    BY <1>6, JoinNames DEF ExecutesJoin
  <2>2. tx.command.user \in Players /\ tx.round \in Rounds /\ tx.command.amount \in Int
    <3>1. tx.command.amount \in DepositAmounts /\ tx.command.user \in Players
      BY <1>1, <2>1, ClientAssumption DEF CommandType
    <3>2. tx.command.amount \in Nat
      BY <3>1, InputsAssumption
    <3> QED BY <1>1, <3>1, <3>2 DEF Transaction
  <2>3. JoinGame(tx.round, tx.command.user, tx.command.amount)
    BY <2>1
  <2>4. wallet'[u] = wallet[u] /\ \A q \in Rounds : Won(u)'[q] = Won(u)[q]
    BY <1>1, <1>6, <2>2, <2>3, JoinGameTakes
  <2>5. Earns(u)
    BY <1>1, <2>4, UserIsWallet, EarnsNothing DEF IInv
  <2> QED BY <1>5, <1>6, <2>5
<1>7. CASE ExecutesConfig(tx, acc)
  <2>1. acc.payer \in Wallets /\ tx.command.name # "join"
    BY <1>1, <1>7, ConfigNames, CommandFields DEF ExecutesConfig
  <2>2. Earns(u)
    BY <1>1, <1>7, <2>1, ConfigureEarns DEF ExecutesConfig
  <2> QED BY <1>5, <2>1, <2>2
<1>8. CASE ExecutesCreate(tx, acc)
  <2>1. Earns(u) /\ tx.command.name # "join"
    BY <1>1, <1>8, CreateGameEarns DEF ExecutesCreate
  <2> QED BY <1>5, <2>1
<1>9. CASE ExecutesWinner(tx, acc)
  <2>1. Earns(u) /\ tx.command.name # "join"
    BY <1>1, <1>9, SetWinnerEarns DEF ExecutesWinner, Transaction
  <2> QED BY <1>5, <2>1
<1>10. CASE ExecutesClaim(tx, acc)
  <2>1. Earns(u) /\ tx.command.name # "join"
    BY <1>1, <1>10, ClaimRewardEarns DEF ExecutesClaim, Transaction
  <2> QED BY <1>5, <2>1
<1> QED BY <1>1, <1>4, <1>6, <1>7, <1>8, <1>9, <1>10 DEF Executes

LEMMA LandFailedKeeps ==
    ASSUME BalanceInv, NEW s \in Runs, LandFailed(s), NEW u \in Users
    PROVE  UNCHANGED vars /\ JoinsOf(u)' = JoinsOf(u)
BY DEF LandFailed, JoinsOf

(***************************************************************************)
(* The other parts of the invariant.                                       *)
(***************************************************************************)
LEMMA PlatformStays ==
    ASSUME PlatformIsNoUser, IInv, [Next]_vars
    PROVE  PlatformIsNoUser'
<1>1. ASSUME NEW payer, NEW c \in Configs, NEW n, Configure(payer, [c EXCEPT !.game_round = n])
      PROVE  PlatformIsNoUser'
  <2>1. c \in ConfigData /\ c.payer_wallet \notin Users /\ c.team_wallet \notin Users
    BY ConfigsAssumption, ClientAssumption
  <2>2. config' = [c EXCEPT !.game_round = n]
    BY <1>1 DEF Configure
  <2>3. config'.payer_wallet = c.payer_wallet /\ config'.team_wallet = c.team_wallet
    BY <2>1, <2>2 DEF ConfigData
  <2> QED BY <2>1, <2>3 DEF PlatformIsNoUser
<1>2. ASSUME NEW f, NEW t, NEW d, NEW j, CreateGame(f, t, d, j)
      PROVE  PlatformIsNoUser'
  <2>1. config' = [config EXCEPT !.game_round = NextCounter(@)] /\ Configured
    BY <1>2 DEF CreateGame
  <2>2. config'.payer_wallet = config.payer_wallet /\ config'.team_wallet = config.team_wallet
    BY <2>1 DEF IInv, TypeOK, ConfigData
  <2> QED BY <2>1, <2>2 DEF PlatformIsNoUser
<1>3. CASE config' = config
  BY <1>3 DEF PlatformIsNoUser, Configured
<1>4. ASSUME NEW r, NEW p, NEW a, JoinGame(r, p, a)
      PROVE  config' = config
  BY <1>4 DEF JoinGame
<1>5. ASSUME NEW r, SetWinner(r) \/ ClaimReward(r)
      PROVE  config' = config
  BY <1>5 DEF SetWinner, ClaimReward
<1>6. CASE UNCHANGED vars
  BY <1>3, <1>6 DEF vars
<1>7. ASSUME NEW f, NEW v, Fulfill(f, v) \/ EndowVault(f, v) \/ Tick
      PROVE  config' = config
  BY <1>7 DEF Fulfill, EndowVault, Tick
<1>8. ASSUME NEW w, NEW r, NEW a, EndowRound(w, r, a)
      PROVE  config' = config
  BY <1>8 DEF EndowRound
<1> QED BY <1>1, <1>2, <1>3, <1>4, <1>5, <1>6, <1>7, <1>8 DEF Next

LEMMA LedgerIsFinite ==
    ASSUME IsFiniteSet(ledger), [ClientNext]_allVars
    PROVE  IsFiniteSet(ledger')
<1>1. ledger' = ledger \/ \E e : ledger' = ledger \cup {e}
  BY DEF ClientNext, Fetch, ResolveCreate, ResolveWinner, Send, Abort, Land, LandFailed,
         Confirm, GiveUp, PrintWinner, Elsewhere, clientVars, allVars
<1> QED BY <1>1, FS_AddElement

LEMMA InitBalanceInv == ClientInit => BalanceInv
<1> SUFFICES ASSUME ClientInit PROVE BalanceInv
  OBVIOUS
<1>1. ClientInv /\ TypeOK
  BY InitClientInv, InitTypeOK DEF ClientInit
<1>2. PlatformIsNoUser
  BY DEF ClientInit, Init, NoConfig, PlatformIsNoUser, Configured
<1>3. IsFiniteSet(ledger)
  BY FS_EmptySet DEF ClientInit
<1>4. ASSUME NEW u \in Users
      PROVE  wallet[u] = InitialLamports[u] - SumFunction(Spent(u)) + SumFunction(Won(u))
  <2>1. SumFunction(Spent(u)) = 0
    <3>1. DOMAIN Spent(u) = {}
      BY DEF ClientInit, Spent, JoinsOf
    <3> QED BY <3>1, SumFunctionEmpty
  <2>2. SumFunction(Won(u)) = 0
    <3>1. Won(u) \in [Rounds -> Int] /\ \A r \in Rounds : Won(u)[r] = 0
      BY <1>1, WonType DEF Won, ClientInit, Init
    <3> QED BY <3>1, RoundsAreFinite, SumFunctionZero
  <2>3. wallet[u] = InitialLamports[u] /\ InitialLamports[u] \in Int
    BY UserIsWallet, InputsAssumption DEF ClientInit, Init
  <2> QED BY <2>1, <2>2, <2>3
<1> QED BY <1>1, <1>2, <1>3, <1>4 DEF BalanceInv, BalanceFollowsTransactions

LEMMA NextBalanceInv == BalanceInv /\ [ClientNext]_allVars => BalanceInv'
<1> SUFFICES ASSUME BalanceInv, [ClientNext]_allVars PROVE BalanceInv'
  OBVIOUS
<1>1. ClientInv /\ ClientInv' /\ [Next]_vars
  BY ClientNextInv, ClientStep DEF BalanceInv
<1>2. PlatformIsNoUser' /\ IsFiniteSet(ledger')
  BY <1>1, PlatformStays, LedgerIsFinite DEF BalanceInv, ClientInv
<1>3. ASSUME NEW u \in Users
      PROVE  wallet'[u]
             = InitialLamports[u] - SumFunction(Spent(u))' + SumFunction(Won(u))'
  <2>1. CASE Elsewhere
    <3>1. Earns(u) /\ ledger' = ledger
      BY <1>1, <2>1, ElsewhereEarns
    <3>2. JoinsOf(u)' = JoinsOf(u)
      BY <3>1 DEF JoinsOf
    <3> QED BY <1>1, <3>1, <3>2, BalanceKept
  <2>2. ASSUME NEW s \in Runs, Land(s)
        PROVE  wallet'[u]
               = InitialLamports[u] - SumFunction(Spent(u))' + SumFunction(Won(u))'
    BY <1>1, <2>2, LandBalance
  <2>3. CASE UNCHANGED vars /\ JoinsOf(u)' = JoinsOf(u)
    <3>1. wallet' = wallet /\ games' = games /\ paid' = paid
      BY <2>3 DEF vars
    <3>2. \A q \in Rounds : Won(u)'[q] = Won(u)[q]
      BY <3>1 DEF Won
    <3>3. Earns(u)
      BY <1>1, <3>1, <3>2, UserIsWallet, EarnsNothing DEF ClientInv, IInv
    <3> QED BY <1>1, <2>3, <3>3, BalanceKept
  <2>4. CASE UNCHANGED vars /\ ledger' = ledger
    BY <2>3, <2>4 DEF JoinsOf
  <2>5. CASE ClientNext
    BY <2>1, <2>2, <2>3, <2>4, <2>5, LandFailedKeeps
       DEF ClientNext, Fetch, ResolveCreate, ResolveWinner, Send, Abort, Confirm, GiveUp,
           PrintWinner
  <2> QED BY <2>4, <2>5 DEF allVars, vars
<1> QED BY <1>1, <1>2, <1>3 DEF BalanceInv, BalanceFollowsTransactions

(***************************************************************************)
(* A player who joins, gives up and tries again has paid for exactly the   *)
(* joins that the ledger records as executed, and has what was won: for    *)
(* any number of runs and players, and whatever the fee was changed to in  *)
(* between.                                                                *)
(***************************************************************************)
THEOREM BalancesFollowTransactions == ClientSpec => []BalanceFollowsTransactions
<1>1. BalanceInv => BalanceFollowsTransactions
  BY DEF BalanceInv
<1> QED BY <1>1, InitBalanceInv, NextBalanceInv, PTL DEF ClientSpec
=============================================================================
