---------------------------- MODULE JackpotProofs ----------------------------
(***************************************************************************)
(* Theorems about the jackpot program for any number of wallets, rounds,   *)
(* deposits and settings, and any interleaving of its instructions.        *)
(***************************************************************************)
EXTENDS Jackpot, JackpotArithProofs

(***************************************************************************)
(* What the parts of a step compute has the type they should have.         *)
(***************************************************************************)
LEMMA FeeIsNat ==
    ASSUME NEW bps \in Nat, NEW value \in Nat
    PROVE  BpsMul(bps, value) \in Nat
<1>1. bps * value \in Nat /\ value * bps \in Nat
  BY SMT
<1> QED BY <1>1 DEF BpsMul, BpsDivisor

LEMMA RentIsNat ==
    ASSUME NEW n \in Nat
    PROVE  GameGroundSpace(n) \in Nat /\ RentMinimum(GameGroundSpace(n)) \in Nat
BY DEF GameGroundSpace, GameGroundInitSpace, DepositInfoSpace, RentMinimum

LEMMA ConfigureCostType == TypeOK => ConfigureCost \in Nat
BY DEF ConfigureCost, SeedDue, RentMinimum, ConfigLen, VaultSeed

LEMMA RentDueIsNat ==
    ASSUME NEW n \in Nat, NEW held \in Nat
    PROVE  RentDue(GameGroundSpace(n), held) \in Nat
<1>1. RentMinimum(GameGroundSpace(n)) \in Nat
  BY RentIsNat
<1> QED BY <1>1 DEF RentDue

LEMMA NewGameType ==
    ASSUME TypeOK, NEW held \in Nat, NEW force \in Forces, NEW t \in Nat, NEW d \in Nat,
           NEW j \in Nat
    PROVE  NewGame(held, force, t, d, j) \in GameGround
<1>1. NextCounter(config.game_round) \in Nat
  BY DEF TypeOK, ConfigData, Rounds, NextCounter
<1>2. GameGroundSpace(0) \in Nat /\ held + RentDue(GameGroundSpace(0), held) \in Nat
  <2>1. GameGroundSpace(0) \in Nat
    BY RentIsNat
  <2>2. RentDue(GameGroundSpace(0), held) \in Nat
    BY RentDueIsNat
  <2> QED BY <2>1, <2>2
<1>3. NoGame \in GameGround
  BY DEF NoGame, GameGround
<1> QED BY <1>1, <1>2, <1>3 DEF NewGame, GameGround

LEMMA ResizedType ==
    ASSUME NEW g \in GameGround
    PROVE  Resized(g) \in GameGround
<1>1. g.deposit_list \in Seq(DepositInfo)
  BY DEF GameGround
<1>2. Len(g.deposit_list) \in Nat
  BY <1>1
<1>3. /\ GameGroundSpace(Len(g.deposit_list)) \in Nat
      /\ RentMinimum(GameGroundSpace(Len(g.deposit_list))) \in Nat
  BY <1>2, RentIsNat
<1> QED BY <1>3 DEF Resized, GameGround

LEMMA EntryOfInList ==
    ASSUME NEW g \in GameGround, NEW user \in Players, HasEntry(g, user)
    PROVE  EntryOf(g, user) \in 1..Len(g.deposit_list)
           /\ g.deposit_list[EntryOf(g, user)].user = user
<1> DEFINE T == {i \in 1..Len(g.deposit_list) : g.deposit_list[i].user = user}
<1>1. T \subseteq Nat /\ T # {}
  BY DEF HasEntry
<1>2. PICK k \in T : \A y \in T : k <= y
  <2> HIDE DEF T
  <2> QED BY <1>1, LeastElement
<1>3. /\ k \in 1..Len(g.deposit_list)
      /\ g.deposit_list[k].user = user
      /\ \A j \in 1..(k - 1) : g.deposit_list[j].user # user
  <2>1. ASSUME NEW j \in 1..(k - 1), g.deposit_list[j].user = user
        PROVE  FALSE
    <3>1. Len(g.deposit_list) \in Nat
      BY DEF GameGround
    <3>2. j \in T /\ ~ (k <= j)
      BY <2>1, <3>1
    <3> QED BY <1>2, <3>2
  <2> QED BY <2>1
<1> QED BY <1>3 DEF EntryOf

LEMMA RaisedType ==
    ASSUME NEW list \in Seq(DepositInfo), NEW k \in 1..Len(list), NEW amount \in Nat
    PROVE  Raised(list, k, amount) \in Seq(DepositInfo)
<1>1. list[k] \in DepositInfo
  OBVIOUS
<1>2. [list[k] EXCEPT !.amount = @ + amount] \in DepositInfo
  BY <1>1 DEF DepositInfo
<1> QED BY <1>2 DEF Raised

LEMMA WithDepositType ==
    ASSUME NEW g \in GameGround, NEW user \in Players, NEW amount \in Nat
    PROVE  WithDeposit(g, user, amount) \in GameGround
<1>1. g.deposit_list \in Seq(DepositInfo) /\ g.total_deposit \in Nat /\ g.user_count \in Nat
  BY DEF GameGround
<1>2. ASSUME NEW list \in Seq(DepositInfo), NEW n \in Nat, NEW t \in Nat
      PROVE  /\ [g EXCEPT !.deposit_list = list, !.total_deposit = t] \in GameGround
             /\ [g EXCEPT !.deposit_list = list, !.user_count = n, !.total_deposit = t]
                   \in GameGround
  BY DEF GameGround
<1>3. g.total_deposit + amount \in Nat /\ g.user_count + 1 \in Nat
  BY <1>1
<1>4. CASE HasEntry(g, user)
  <2>1. Raised(g.deposit_list, EntryOf(g, user), amount) \in Seq(DepositInfo)
    BY <1>1, <1>4, EntryOfInList, RaisedType
  <2> QED BY <1>2, <1>3, <1>4, <2>1 DEF WithDeposit
<1>5. CASE ~HasEntry(g, user)
  <2>1. [user |-> user, amount |-> amount] \in DepositInfo
    BY DEF DepositInfo
  <2>2. Append(g.deposit_list, [user |-> user, amount |-> amount]) \in Seq(DepositInfo)
    BY <1>1, <2>1
  <2> QED BY <1>2, <1>3, <1>5, <2>2 DEF WithDeposit
<1> QED BY <1>4, <1>5

LEMMA WithClockType ==
    ASSUME TypeOK, NEW g \in GameGround
    PROVE  WithClock(g) \in GameGround
<1>1. now \in 1..MaxI64
  BY DEF TypeOK
<1>2. g.round_time \in Nat
  BY DEF GameGround
<1>3. now \in Nat /\ now + g.round_time \in Nat
  BY <1>1, <1>2, BoundsAssumption
<1> QED BY <1>3 DEF WithClock, GameGround

LEMMA WithWinnerType ==
    ASSUME NEW g \in GameGround, NEW randomness \in Nat
    PROVE  WithWinner(g, randomness) \in GameGround
<1> DEFINE ticket == Ticket(g.total_deposit, randomness)
           list == g.deposit_list
<1>1. ASSUME HasStop(list, ticket)
      PROVE  DrawnUser(list, ticket) \in Wallets
  <2> DEFINE i == CHOOSE j \in 1..Len(list) : StopsAt(list, ticket, j)
  <2>1. i \in 1..Len(list)
    BY <1>1 DEF HasStop
  <2>2. list \in Seq(DepositInfo)
    BY DEF GameGround
  <2> HIDE DEF i, list
  <2>3. list[i] \in DepositInfo
    BY <2>1, <2>2
  <2>4. list[i].user \in Players
    BY <2>3 DEF DepositInfo
  <2> QED BY <2>4, WalletsAssumption DEF DrawnUser, i
<1>2. g.winner \in Wallets \cup {NoWallet}
  BY DEF GameGround
<1> HIDE DEF ticket, list
<1>3. (IF HasStop(list, ticket) THEN DrawnUser(list, ticket) ELSE g.winner)
         \in Wallets \cup {NoWallet}
  BY <1>1, <1>2
<1> QED BY <1>3 DEF WithWinner, GameGround, ticket, list

(***************************************************************************)
(* What a join changes in a round, and what it leaves alone.               *)
(***************************************************************************)
Joined(g, user, amount) == WithClock(WithDeposit(Resized(g), user, amount))

SameDraw(g, h) ==
    /\ h.exists = g.exists
    /\ h.force = g.force
    /\ h.winner = g.winner
    /\ h.rand = g.rand
    /\ h.is_completed = g.is_completed
    /\ h.is_claimed = g.is_claimed
    /\ h.max_joiner_count = g.max_joiner_count

LEMMA ResizedFields ==
    ASSUME NEW g \in GameGround
    PROVE  /\ SameDraw(g, Resized(g))
           /\ Resized(g).deposit_list = g.deposit_list
           /\ Resized(g).user_count = g.user_count
           /\ Resized(g).total_deposit = g.total_deposit
           /\ Resized(g).space = GameGroundSpace(Len(g.deposit_list))
BY DEF Resized, GameGround, SameDraw

LEMMA WithDepositFields ==
    ASSUME NEW g \in GameGround, NEW user, NEW amount
    PROVE  /\ SameDraw(g, WithDeposit(g, user, amount))
           /\ WithDeposit(g, user, amount).deposit_list =
                 IF HasEntry(g, user)
                 THEN Raised(g.deposit_list, EntryOf(g, user), amount)
                 ELSE Append(g.deposit_list, [user |-> user, amount |-> amount])
           /\ WithDeposit(g, user, amount).user_count =
                 IF HasEntry(g, user) THEN g.user_count ELSE g.user_count + 1
           /\ WithDeposit(g, user, amount).total_deposit = g.total_deposit + amount
           /\ WithDeposit(g, user, amount).space = g.space
<1>1. CASE HasEntry(g, user)
  BY <1>1 DEF WithDeposit, GameGround, SameDraw
<1>2. CASE ~HasEntry(g, user)
  BY <1>2 DEF WithDeposit, GameGround, SameDraw
<1> QED BY <1>1, <1>2

LEMMA WithClockFields ==
    ASSUME NEW g \in GameGround
    PROVE  /\ SameDraw(g, WithClock(g))
           /\ WithClock(g).deposit_list = g.deposit_list
           /\ WithClock(g).user_count = g.user_count
           /\ WithClock(g).total_deposit = g.total_deposit
           /\ WithClock(g).space = g.space
BY DEF WithClock, GameGround, SameDraw

LEMMA JoinedFields ==
    ASSUME TypeOK, NEW g \in GameGround, NEW user \in Players, NEW amount \in Nat
    PROVE  /\ Joined(g, user, amount) \in GameGround
           /\ SameDraw(g, Joined(g, user, amount))
           /\ Joined(g, user, amount).deposit_list =
                 IF HasEntry(g, user)
                 THEN Raised(g.deposit_list, EntryOf(g, user), amount)
                 ELSE Append(g.deposit_list, [user |-> user, amount |-> amount])
           /\ Joined(g, user, amount).user_count =
                 IF HasEntry(g, user) THEN g.user_count ELSE g.user_count + 1
           /\ Joined(g, user, amount).total_deposit = g.total_deposit + amount
           /\ Joined(g, user, amount).space = GameGroundSpace(Len(g.deposit_list))
<1> DEFINE h == Resized(g)
           d == WithDeposit(h, user, amount)
<1>1. h \in GameGround /\ d \in GameGround
  BY ResizedType, WithDepositType
<1>2. Joined(g, user, amount) = WithClock(d)
  BY DEF Joined
<1>3. WithClock(d) \in GameGround
  BY <1>1, WithClockType
<1>4. HasEntry(h, user) = HasEntry(g, user) /\ EntryOf(h, user) = EntryOf(g, user)
  BY ResizedFields DEF HasEntry, EntryOf
<1>5. /\ SameDraw(g, h)
      /\ h.deposit_list = g.deposit_list
      /\ h.user_count = g.user_count
      /\ h.total_deposit = g.total_deposit
      /\ h.space = GameGroundSpace(Len(g.deposit_list))
  BY ResizedFields
<1> HIDE DEF h
<1>6. /\ SameDraw(h, d)
      /\ d.deposit_list = IF HasEntry(h, user)
                          THEN Raised(h.deposit_list, EntryOf(h, user), amount)
                          ELSE Append(h.deposit_list, [user |-> user, amount |-> amount])
      /\ d.user_count = IF HasEntry(h, user) THEN h.user_count ELSE h.user_count + 1
      /\ d.total_deposit = h.total_deposit + amount
      /\ d.space = h.space
  BY <1>1, WithDepositFields
<1> HIDE DEF d
<1>7. /\ SameDraw(d, WithClock(d))
      /\ WithClock(d).deposit_list = d.deposit_list
      /\ WithClock(d).user_count = d.user_count
      /\ WithClock(d).total_deposit = d.total_deposit
      /\ WithClock(d).space = d.space
  BY <1>1, WithClockFields
<1>8. SameDraw(g, WithClock(d))
  BY <1>5, <1>6, <1>7 DEF SameDraw
<1> QED BY <1>2, <1>3, <1>4, <1>5, <1>6, <1>7, <1>8

LEMMA WithWinnerFields ==
    ASSUME NEW g \in GameGround, NEW word \in Nat
    PROVE  LET h == WithWinner(g, word)
               ticket == Ticket(g.total_deposit, word)
           IN  /\ h.exists = g.exists
               /\ h.force = g.force
               /\ h.is_completed
               /\ h.is_claimed = g.is_claimed
               /\ h.max_joiner_count = g.max_joiner_count
               /\ h.deposit_list = g.deposit_list
               /\ h.user_count = g.user_count
               /\ h.total_deposit = g.total_deposit
               /\ h.space = g.space
               /\ h.winner = IF HasStop(g.deposit_list, ticket)
                             THEN DrawnUser(g.deposit_list, ticket)
                             ELSE g.winner
BY DEF WithWinner, GameGround

LEMMA AfterClaimFields ==
    ASSUME NEW g \in GameGround
    PROVE  LET h == AfterClaim(g)
           IN  /\ h \in GameGround
               /\ h.exists = g.exists
               /\ h.force = g.force
               /\ h.winner = g.winner
               /\ h.rand = g.rand
               /\ h.is_completed = g.is_completed
               /\ h.is_claimed
               /\ h.max_joiner_count = g.max_joiner_count
               /\ h.deposit_list = g.deposit_list
               /\ h.user_count = g.user_count
               /\ h.total_deposit = g.total_deposit
               /\ h.space = g.space
BY DEF AfterClaim, GameGround

Endowed(g, amount) == [g EXCEPT !.lamports = @ + amount]

LEMMA EndowedFields ==
    ASSUME NEW g \in GameGround, NEW amount \in Nat
    PROVE  LET h == Endowed(g, amount)
           IN  /\ h \in GameGround
               /\ SameDraw(g, h)
               /\ h.deposit_list = g.deposit_list
               /\ h.user_count = g.user_count
               /\ h.total_deposit = g.total_deposit
               /\ h.space = g.space
<1>1. g.lamports + amount \in Nat
  BY DEF GameGround
<1> QED BY <1>1 DEF Endowed, GameGround, SameDraw

LEMMA EndowRoundStep ==
    ASSUME NEW w, NEW r, NEW amount, EndowRound(w, r, amount)
    PROVE  games' = [games EXCEPT ![r] = Endowed(games[r], amount)]
BY DEF EndowRound, Endowed

-----------------------------------------------------------------------------
(***************************************************************************)
(* TypeOK is inductive by itself.                                          *)
(***************************************************************************)
InRange(g) == g.total_deposit <= MaxU64 /\ g.end_date <= MaxI64

LEMMA InitTypeOK == Init => TypeOK
<1> SUFFICES ASSUME Init PROVE TypeOK
  OBVIOUS
<1>1. NoGame \in GameGround
  BY DEF NoGame, GameGround
<1>2. config \in ConfigData /\ ~Configured /\ config.game_round = 0
  BY BoundsAssumption DEF Init, NoConfig, ConfigData, Configured, Rounds
<1>3. random \in [Forces -> Randomness]
  BY DEF Init, Randomness
<1>4. now \in 1..MaxI64
  BY BoundsAssumption DEF Init
<1>5. \A r \in Rounds : ~games[r].exists /\ InRange(games[r])
  BY BoundsAssumption DEF Init, NoGame, InRange
<1> QED BY <1>1, <1>2, <1>3, <1>4, <1>5, InputsAssumption DEF Init, TypeOK, InRange

(***************************************************************************)
(* An addressable round belongs to a configured program, and the wallets   *)
(* its settings name exist.                                                *)
(***************************************************************************)
LEMMA AddressableConfigured ==
    ASSUME TypeOK, NEW r \in Rounds, Addressable(r)
    PROVE  /\ Configured
           /\ config.payer_wallet \in Wallets /\ config.team_wallet \in Wallets
           /\ games[r] \in GameGround
<1>1. config.game_round \in Nat /\ r \in Nat
  BY BoundsAssumption DEF TypeOK, ConfigData, Rounds
<1>2. config.game_round # 0
  BY <1>1 DEF Addressable
<1> QED BY <1>2 DEF TypeOK

LEMMA ConfigureTypeOK ==
    ASSUME TypeOK, NEW payer \in Wallets, NEW c \in Configs,
           NEW n \in {config.game_round} \cup CounterResets,
           Configure(payer, [c EXCEPT !.game_round = n])
    PROVE  TypeOK'
<1> DEFINE d == [c EXCEPT !.game_round = n]
<1>1. c \in ConfigData /\ {c.authority, c.payer_wallet, c.team_wallet} \subseteq Wallets
  BY ConfigsAssumption
<1>2. n \in Rounds
  BY ConfigsAssumption DEF TypeOK, ConfigData
<1>3. d \in ConfigData /\ {d.authority, d.payer_wallet, d.team_wallet} \subseteq Wallets
  BY <1>1, <1>2 DEF ConfigData
<1>4. config' = d
  BY DEF Configure
<1>5. Configured'
  BY <1>3, <1>4, WalletsAssumption DEF Configured
<1>6. vault' \in Nat /\ reserve' \in Nat
  BY DEF Configure, SeedDue, VaultSeed, TypeOK
<1>7. ConfigureCost \in Nat /\ wallet[payer] \in Nat /\ wallet[payer] >= ConfigureCost
  BY ConfigureCostType DEF Configure, TypeOK
<1>8. wallet' \in [Wallets -> Nat]
  <2>1. wallet[payer] - ConfigureCost \in Nat
    BY <1>7
  <2> QED BY <2>1 DEF Configure, TypeOK
<1> HIDE DEF d
<1> QED BY <1>3, <1>4, <1>5, <1>6, <1>8 DEF Configure, TypeOK

LEMMA CreateGameTypeOK ==
    ASSUME TypeOK, NEW f \in Forces, NEW t \in RoundTimes, NEW d \in MinDeposits,
           NEW j \in JoinerLimits, CreateGame(f, t, d, j)
    PROVE  TypeOK'
<1> DEFINE held == games[config.game_round].lamports
           cost == RentDue(GameGroundSpace(0), held) + VrfCost
<1>1. t \in Nat /\ d \in Nat /\ j \in Nat /\ VrfCost \in Nat
  BY InputsAssumption DEF CreateGame
<1>11. held \in Nat
  <2>1. games[config.game_round] \in GameGround
    BY DEF TypeOK, ConfigData
  <2> QED BY <2>1 DEF GameGround
<1>2. NewGame(held, f, t, d, j) \in GameGround
  BY <1>1, <1>11, NewGameType
<1>3. games' \in [Rounds -> GameGround]
  BY <1>2 DEF CreateGame, TypeOK
<1>10. \A r \in Rounds : games'[r].exists => games'[r].force \in Forces
  <2>1. NewGame(held, f, t, d, j).force = f
    BY DEF NewGame, NoGame
  <2> QED BY <2>1 DEF CreateGame, TypeOK
<1>12. \A r \in Rounds : InRange(games'[r])
  <2>1. InRange(NewGame(held, f, t, d, j))
    BY BoundsAssumption DEF NewGame, NoGame, InRange
  <2> QED BY <2>1 DEF CreateGame, TypeOK, InRange
<1>4. NextCounter(config.game_round) \in Rounds
  <2>1. config.game_round \in Nat /\ MaxRound \in Nat
    BY BoundsAssumption DEF TypeOK, ConfigData, Rounds
  <2>2. NextCounter(config.game_round) <= MaxRound
    BY DEF CreateGame
  <2> QED BY <2>1, <2>2 DEF Rounds, NextCounter
<1>5. config' = [config EXCEPT !.game_round = NextCounter(config.game_round)]
  BY DEF CreateGame
<1>6. /\ config' \in ConfigData
      /\ config'.authority = config.authority
      /\ config'.payer_wallet = config.payer_wallet
      /\ config'.team_wallet = config.team_wallet
  BY <1>4, <1>5 DEF TypeOK, ConfigData
<1>7. Configured /\ Configured'
  BY <1>6 DEF CreateGame, Configured
<1>8. random' \in [Forces -> Randomness]
  <2>1. random[f] \in Randomness
    BY DEF TypeOK
  <2>2. [random[f] EXCEPT !.status = "pending"] \in Randomness
    BY <2>1 DEF Randomness
  <2> QED BY <2>2 DEF CreateGame, TypeOK
<1>9. wallet' \in [Wallets -> Nat]
  <2>1. config.payer_wallet \in Wallets
    BY <1>7 DEF TypeOK
  <2>2. RentDue(GameGroundSpace(0), held) \in Nat
    BY <1>11, RentDueIsNat
  <2>3. wallet[config.payer_wallet] - cost \in Nat
    BY <1>1, <2>1, <2>2 DEF CreateGame, TypeOK
  <2> QED BY <2>3 DEF CreateGame, TypeOK
<1> QED BY <1>3, <1>6, <1>7, <1>8, <1>9, <1>10, <1>12 DEF CreateGame, TypeOK, InRange

LEMMA JoinGameTypeOK ==
    ASSUME TypeOK, NEW r \in Rounds, NEW p \in Players, NEW a \in DepositAmounts,
           JoinGame(r, p, a)
    PROVE  TypeOK'
<1> DEFINE g == games[r]
           fee == BpsMul(config.platform_fee, a)
           applied == AmountApplied(a, fee)
           joined == Joined(g, p, applied)
           debited == [wallet EXCEPT ![p] = @ - a]
           transferred == [debited EXCEPT ![config.team_wallet] = @ + fee]
           rent == RentMoved(g, joined)
<1>1. /\ Configured
      /\ config.payer_wallet \in Wallets /\ config.team_wallet \in Wallets
      /\ g \in GameGround
  BY AddressableConfigured DEF JoinGame
<1>2. a \in Nat /\ config.platform_fee \in Nat /\ fee \in Nat
  BY InputsAssumption, FeeIsNat DEF TypeOK, ConfigData
<1>3. fee <= a /\ applied = a - fee /\ applied \in Nat
  BY <1>2 DEF JoinGame, FeeFits, AmountApplied
<1> HIDE DEF fee
<1>4. joined \in GameGround /\ joined.exists = g.exists /\ joined.force = g.force
  BY <1>1, <1>3, JoinedFields DEF SameDraw
<1> HIDE DEF joined, applied
<1>5. rent \in Int
  <2>1. joined.lamports \in Nat
    BY <1>4 DEF GameGround
  <2>2. g.lamports \in Nat
    BY <1>1 DEF GameGround
  <2> QED BY <2>1, <2>2 DEF RentMoved
<1>6. p \in Wallets /\ wallet[p] \in Nat /\ wallet[p] >= a
  BY WalletsAssumption DEF JoinGame, TypeOK
<1>7. transferred \in [Wallets -> Nat]
  <2>1. debited \in [Wallets -> Nat]
    BY <1>2, <1>6 DEF TypeOK
  <2> HIDE DEF debited
  <2>2. debited[config.team_wallet] + fee \in Nat
    BY <1>1, <1>2, <2>1
  <2> QED BY <2>1, <2>2
<1>8. /\ transferred[config.payer_wallet] >= rent
      /\ games' = [games EXCEPT ![r] = joined]
      /\ vault' = vault + (a - fee)
      /\ wallet' = [transferred EXCEPT ![config.payer_wallet] = @ - rent]
      /\ UNCHANGED <<config, random, now, paid, reserve>>
      /\ InRange(joined)
  BY DEF JoinGame, joined, Joined, applied, fee, NoOverflow, InRange
<1> HIDE DEF transferred, rent
<1>9. wallet' \in [Wallets -> Nat]
  <2>1. transferred[config.payer_wallet] \in Nat
    BY <1>1, <1>7
  <2>2. transferred[config.payer_wallet] - rent \in Nat
    BY <1>5, <1>8, <2>1
  <2> QED BY <1>7, <1>8, <2>2
<1>10. games' \in [Rounds -> GameGround]
  BY <1>4, <1>8 DEF TypeOK
<1>13. \A q \in Rounds : games'[q].exists => games'[q].force \in Forces
  BY <1>4, <1>8 DEF TypeOK
<1>11. vault' \in Nat
  BY <1>2, <1>3, <1>8 DEF TypeOK
<1>12. Configured' = Configured
  BY <1>8 DEF Configured
<1>14. \A q \in Rounds : InRange(games'[q])
  BY <1>8 DEF TypeOK, InRange
<1> QED BY <1>8, <1>9, <1>10, <1>11, <1>12, <1>13, <1>14 DEF TypeOK, InRange

LEMMA SetWinnerTypeOK ==
    ASSUME TypeOK, NEW r \in Rounds, SetWinner(r)
    PROVE  TypeOK'
<1> DEFINE word == CurrentState(games[r].force)
<1>1. games[r] \in GameGround
  BY DEF TypeOK
<1>2. word \in Nat
  <2>1. CASE random[games[r].force].status = "fulfilled"
    <3>1. games[r].force \in Forces
      BY DEF SetWinner, Addressable, TypeOK
    <3>2. random[games[r].force] \in Randomness
      BY <3>1 DEF TypeOK
    <3> QED BY <2>1, <3>2 DEF CurrentState, Randomness
  <2>2. CASE random[games[r].force].status # "fulfilled"
    BY <2>2 DEF CurrentState
  <2> QED BY <2>1, <2>2
<1>3. WithWinner(games[r], word) \in GameGround
  BY <1>1, <1>2, WithWinnerType
<1>4. games' \in [Rounds -> GameGround]
  BY <1>3 DEF SetWinner, TypeOK
<1>5. \A q \in Rounds : games'[q].exists => games'[q].force \in Forces
  <2>1. /\ WithWinner(games[r], word).exists = games[r].exists
        /\ WithWinner(games[r], word).force = games[r].force
    BY <1>1, <1>2, WithWinnerFields
  <2> QED BY <2>1 DEF SetWinner, TypeOK
<1>6. Configured' = Configured
  BY DEF SetWinner, Configured
<1>7. \A q \in Rounds : InRange(games'[q])
  <2>1. InRange(WithWinner(games[r], word))
    <3> HIDE DEF word
    <3> QED BY <1>1 DEF WithWinner, GameGround, TypeOK, InRange
  <2> HIDE DEF word
  <2>2. games' = [games EXCEPT ![r] = WithWinner(games[r], word)]
    BY DEF SetWinner, word
  <2> QED BY <2>1, <2>2 DEF TypeOK, InRange
<1> QED BY <1>4, <1>5, <1>6, <1>7 DEF SetWinner, TypeOK, InRange

LEMMA ClaimRewardTypeOK ==
    ASSUME TypeOK, NEW r \in Rounds, ClaimReward(r)
    PROVE  TypeOK'
<1> DEFINE g == games[r]
<1>1. g \in GameGround
  BY DEF TypeOK
<1>2. g.total_deposit \in Nat /\ g.winner \in Wallets
  BY <1>1 DEF GameGround, ClaimReward
<1>3. /\ AfterClaim(g) \in GameGround
      /\ AfterClaim(g).exists = g.exists
      /\ AfterClaim(g).force = g.force
  BY <1>1, AfterClaimFields
<1> HIDE DEF g
<1>4. games' \in [Rounds -> GameGround]
  BY <1>3 DEF ClaimReward, TypeOK, g
<1>5. vault' \in Nat
  BY <1>2 DEF ClaimReward, TypeOK, g
<1>6. wallet' \in [Wallets -> Nat]
  <2>1. wallet[g.winner] + g.total_deposit \in Nat
    BY <1>2 DEF TypeOK
  <2>2. wallet' = [wallet EXCEPT ![g.winner] = @ + g.total_deposit]
    BY DEF ClaimReward, g
  <2> QED BY <2>1, <2>2 DEF TypeOK
<1>7. paid' \in [Rounds -> Nat]
  <2>1. paid[r] + g.total_deposit \in Nat
    BY <1>2 DEF TypeOK
  <2>2. paid' = [paid EXCEPT ![r] = @ + g.total_deposit]
    BY DEF ClaimReward, g
  <2> QED BY <2>1, <2>2 DEF TypeOK
<1>8. \A q \in Rounds : games'[q].exists => games'[q].force \in Forces
  BY <1>3 DEF ClaimReward, TypeOK, g
<1>9. Configured' = Configured
  BY DEF ClaimReward, Configured
<1>10. \A q \in Rounds : InRange(games'[q])
  <2>1. games' = [games EXCEPT ![r] = AfterClaim(g)]
    BY DEF ClaimReward, g
  <2>2. InRange(g)
    BY DEF TypeOK, InRange, g
  <2>3. InRange(AfterClaim(g))
    BY <1>1, <2>2 DEF AfterClaim, GameGround, InRange
  <2> QED BY <2>1, <2>3 DEF TypeOK, InRange
<1> QED BY <1>4, <1>5, <1>6, <1>7, <1>8, <1>9, <1>10 DEF ClaimReward, TypeOK, InRange

LEMMA EnvironmentTypeOK ==
    ASSUME TypeOK,
           \/ \E f \in Forces, v \in RandomValues : Fulfill(f, v)
           \/ Tick
    PROVE  TypeOK'
<1>1. CASE \E f \in Forces, v \in RandomValues : Fulfill(f, v)
  <2>1. PICK f \in Forces, v \in RandomValues : Fulfill(f, v)
    BY <1>1
  <2>2. [status |-> "fulfilled", value |-> v] \in Randomness
    BY InputsAssumption DEF Randomness
  <2>3. random' \in [Forces -> Randomness]
    BY <2>1, <2>2 DEF Fulfill, TypeOK
  <2>4. Configured' = Configured
    BY <2>1 DEF Fulfill, Configured
  <2> QED BY <2>1, <2>3, <2>4 DEF Fulfill, TypeOK
<1>2. CASE Tick
  <2>1. now' \in 1..MaxI64
    BY <1>2, BoundsAssumption DEF Tick, TypeOK
  <2>2. Configured' = Configured
    BY <1>2 DEF Tick, Configured
  <2> QED BY <1>2, <2>1, <2>2 DEF Tick, TypeOK
<1> QED BY <1>1, <1>2

LEMMA EndowVaultTypeOK ==
    ASSUME TypeOK, NEW w \in Donors, NEW a \in Gifts, EndowVault(w, a)
    PROVE  TypeOK'
<1>1. w \in Wallets /\ a \in Nat /\ wallet[w] \in Nat /\ wallet[w] >= a
  BY WalletsAssumption, InputsAssumption DEF EndowVault, TypeOK
<1>2. wallet' \in [Wallets -> Nat]
  <2>1. wallet[w] - a \in Nat
    BY <1>1
  <2> QED BY <2>1 DEF EndowVault, TypeOK
<1>3. vault' \in Nat /\ reserve' \in Nat
  BY <1>1 DEF EndowVault, TypeOK
<1>4. Configured' = Configured
  BY DEF EndowVault, Configured
<1> QED BY <1>2, <1>3, <1>4 DEF EndowVault, TypeOK

LEMMA EndowRoundTypeOK ==
    ASSUME TypeOK, NEW w \in Donors, NEW r \in Rounds, NEW a \in Gifts, EndowRound(w, r, a)
    PROVE  TypeOK'
<1> DEFINE h == Endowed(games[r], a)
<1>1. w \in Wallets /\ a \in Nat /\ wallet[w] \in Nat /\ wallet[w] >= a
  BY WalletsAssumption, InputsAssumption DEF EndowRound, TypeOK
<1>2. wallet' \in [Wallets -> Nat]
  <2>1. wallet[w] - a \in Nat
    BY <1>1
  <2> QED BY <2>1 DEF EndowRound, TypeOK
<1>3. games[r] \in GameGround
  BY DEF TypeOK
<1>4. h \in GameGround /\ SameDraw(games[r], h)
  BY <1>1, <1>3, EndowedFields
<1>5. games' = [games EXCEPT ![r] = h]
  BY EndowRoundStep
<1> HIDE DEF h
<1>6. games' \in [Rounds -> GameGround]
  BY <1>4, <1>5 DEF TypeOK
<1>7. \A q \in Rounds : games'[q].exists => games'[q].force \in Forces
  BY <1>4, <1>5 DEF TypeOK, SameDraw
<1>8. Configured' = Configured
  BY DEF EndowRound, Configured
<1>9. \A q \in Rounds : InRange(games'[q])
  <2>1. InRange(h)
    BY <1>3 DEF Endowed, GameGround, TypeOK, InRange, h
  <2> QED BY <1>5, <2>1 DEF TypeOK, InRange
<1> QED BY <1>2, <1>6, <1>7, <1>8, <1>9 DEF EndowRound, TypeOK, InRange

LEMMA NextTypeOK == TypeOK /\ [Next]_vars => TypeOK'
<1> SUFFICES ASSUME TypeOK, [Next]_vars PROVE TypeOK'
  OBVIOUS
<1>1. CASE \E payer \in Wallets, c \in Configs, n \in {config.game_round} \cup CounterResets :
              Configure(payer, [c EXCEPT !.game_round = n])
  BY <1>1, ConfigureTypeOK
<1>2. CASE \E f \in Forces, t \in RoundTimes, d \in MinDeposits, j \in JoinerLimits :
              CreateGame(f, t, d, j)
  BY <1>2, CreateGameTypeOK
<1>3. CASE \E r \in Rounds, p \in Players, a \in DepositAmounts : JoinGame(r, p, a)
  BY <1>3, JoinGameTypeOK
<1>4. CASE \E r \in Rounds : SetWinner(r)
  BY <1>4, SetWinnerTypeOK
<1>5. CASE \E r \in Rounds : ClaimReward(r)
  BY <1>5, ClaimRewardTypeOK
<1>6. CASE (\E f \in Forces, v \in RandomValues : Fulfill(f, v)) \/ Tick
  BY <1>6, EnvironmentTypeOK
<1>7. CASE UNCHANGED vars
  <2>1. Configured' = Configured
    BY <1>7 DEF vars, Configured
  <2> QED BY <1>7, <2>1 DEF vars, TypeOK
<1>8. CASE \E w \in Donors, a \in Gifts : EndowVault(w, a)
  BY <1>8, EndowVaultTypeOK
<1>9. CASE \E w \in Donors, r \in Rounds, a \in Gifts : EndowRound(w, r, a)
  BY <1>9, EndowRoundTypeOK
<1> QED BY <1>1, <1>2, <1>3, <1>4, <1>5, <1>6, <1>7, <1>8, <1>9 DEF Next

(***************************************************************************)
(* Type correctness, for every choice of the constants: in particular no   *)
(* sequence of calls of the five instructions makes a balance, a deposit   *)
(* or the vault negative, or draws a winner that is not a wallet.          *)
(***************************************************************************)
THEOREM TypeCorrect == Spec => []TypeOK
BY InitTypeOK, NextTypeOK, PTL DEF Spec

-----------------------------------------------------------------------------
(***************************************************************************)
(* The inductive invariant.  The invariants of the runs are not inductive  *)
(* one by one: that a pot equals its list matters for the draw only        *)
(* together with the list having one entry per user; that the vault is     *)
(* balanced needs every claimed round to have been completed and paid at   *)
(* most its pot; a round that does not exist must read as zeros, but for   *)
(* lamports sent to its address, for create_game to change nothing that    *)
(* the vault owes; and the reserve must carry the vault's rent, although   *)
(* configure does not seed a vault that somebody else endowed first.       *)
(***************************************************************************)
OneEntryEach(list) ==
    \A i, j \in 1..Len(list) : list[i].user = list[j].user => i = j

HasStake(list, w) == \E i \in 1..Len(list) : list[i].user = w /\ list[i].amount > 0

Blank(g) == g = [NoGame EXCEPT !.lamports = g.lamports]

RoundInv(g, out) ==
    /\ ~g.exists => Blank(g)
    /\ g.total_deposit = TotalOf(g.deposit_list)
    /\ g.user_count = Len(g.deposit_list)
    /\ OneEntryEach(g.deposit_list)
    /\ Len(g.deposit_list) <= g.max_joiner_count
    /\ g.exists => SerializedLen(Len(g.deposit_list)) <= g.space
    /\ g.is_completed => HasStake(g.deposit_list, g.winner)
    /\ ~g.is_completed => g.winner = NoWallet /\ ~g.is_claimed
    /\ ~g.is_claimed => out = 0
    /\ g.is_claimed => out > 0
    /\ out <= g.total_deposit

ReserveInv ==
    /\ LeavesRent(reserve)
    /\ Configured => reserve >= RentMinimum(0)
    /\ ~Configured => vault = reserve

IInv ==
    /\ TypeOK
    /\ \A r \in Rounds : RoundInv(games[r], paid[r])
    /\ VaultBalanced
    /\ ReserveInv

LEMMA BlankFields ==
    ASSUME NEW g, Blank(g)
    PROVE  /\ ~g.exists
           /\ g.deposit_list = << >>
           /\ g.total_deposit = 0
           /\ g.winner = NoWallet
           /\ g.is_completed = FALSE
           /\ g.is_claimed = FALSE
BY DEF Blank, NoGame

LEMMA EndowedInv ==
    ASSUME NEW g \in GameGround, NEW amount \in Nat, NEW out, RoundInv(g, out)
    PROVE  RoundInv(Endowed(g, amount), out)
<1> DEFINE h == Endowed(g, amount)
<1>1. ASSUME Blank(g)
      PROVE  Blank(h)
  <2>1. g.lamports + amount \in Nat
    BY DEF GameGround
  <2> QED BY <1>1, <2>1 DEF Blank, NoGame, Endowed
<1>2. /\ SameDraw(g, h)
      /\ h.deposit_list = g.deposit_list
      /\ h.user_count = g.user_count
      /\ h.total_deposit = g.total_deposit
      /\ h.space = g.space
  BY EndowedFields
<1> HIDE DEF h
<1> QED BY <1>1, <1>2 DEF RoundInv, SameDraw, h

(***************************************************************************)
(* The deposit list after a join.                                          *)
(***************************************************************************)
DepositedList(g, user, amount) ==
    IF HasEntry(g, user)
    THEN Raised(g.deposit_list, EntryOf(g, user), amount)
    ELSE Append(g.deposit_list, [user |-> user, amount |-> amount])

LEMMA RaisedList ==
    ASSUME NEW list \in Seq(DepositInfo), NEW k \in 1..Len(list), NEW amount \in Nat,
           OneEntryEach(list)
    PROVE  LET new == Raised(list, k, amount)
           IN  /\ TotalOf(new) = TotalOf(list) + amount
               /\ Len(new) = Len(list)
               /\ OneEntryEach(new)
               /\ \A w : HasStake(new, w) <=>
                            HasStake(list, w) \/ (w = list[k].user /\ amount > 0)
<1> DEFINE new == Raised(list, k, amount)
<1>1. TotalOf(new) = TotalOf(list) + amount
  BY TotalOfRaise DEF Raised, DepositInfo
<1>2. Len(list) \in Nat /\ \A i \in 1..Len(list) : list[i].amount \in Nat
  BY EntryType DEF DepositInfo
<1>3. Len(new) = Len(list)
  BY DEF Raised
<1>4. ASSUME NEW i \in 1..Len(list)
      PROVE  /\ new[i].user = list[i].user
             /\ new[i].amount = IF i = k THEN list[i].amount + amount ELSE list[i].amount
  <2>1. list[i] \in [user : Players, amount : Nat]
    BY EntryType DEF DepositInfo
  <2>2. new[i] = IF i = k THEN [list[i] EXCEPT !.amount = @ + amount] ELSE list[i]
    BY DEF Raised
  <2> QED BY <2>1, <2>2
<1> HIDE DEF new
<1>5. OneEntryEach(new)
  BY <1>3, <1>4 DEF OneEntryEach
<1>6. ASSUME NEW w
      PROVE  HasStake(new, w) <=> HasStake(list, w) \/ (w = list[k].user /\ amount > 0)
  <2>1. ASSUME HasStake(new, w)
        PROVE  HasStake(list, w) \/ (w = list[k].user /\ amount > 0)
    <3>1. PICK i \in 1..Len(list) : new[i].user = w /\ new[i].amount > 0
      BY <1>3, <2>1 DEF HasStake
    <3>2. CASE i = k /\ ~ (list[i].amount > 0)
      <4>1. amount > 0
        BY <1>2, <1>4, <3>1, <3>2
      <4> QED BY <1>4, <3>1, <3>2, <4>1
    <3>3. CASE i # k \/ list[i].amount > 0
      <4>1. list[i].user = w /\ list[i].amount > 0
        BY <1>4, <3>1, <3>3
      <4> QED BY <4>1 DEF HasStake
    <3> QED BY <3>2, <3>3
  <2>2. ASSUME HasStake(list, w)
        PROVE  HasStake(new, w)
    <3>1. PICK i \in 1..Len(list) : list[i].user = w /\ list[i].amount > 0
      BY <2>2 DEF HasStake
    <3>2. new[i].user = w /\ new[i].amount > 0
      BY <1>2, <1>4, <3>1
    <3> QED BY <1>3, <3>2 DEF HasStake
  <2>3. ASSUME w = list[k].user, amount > 0
        PROVE  HasStake(new, w)
    <3>1. new[k].user = w /\ new[k].amount > 0
      BY <1>2, <1>4, <2>3
    <3> QED BY <1>3, <3>1 DEF HasStake
  <2> QED BY <2>1, <2>2, <2>3
<1> QED BY <1>1, <1>3, <1>5, <1>6 DEF new

LEMMA AppendedList ==
    ASSUME NEW list \in Seq(DepositInfo), NEW user \in Players, NEW amount \in Nat,
           OneEntryEach(list), \A i \in 1..Len(list) : list[i].user # user
    PROVE  LET new == Append(list, [user |-> user, amount |-> amount])
           IN  /\ TotalOf(new) = TotalOf(list) + amount
               /\ Len(new) = Len(list) + 1
               /\ OneEntryEach(new)
               /\ \A w : HasStake(new, w) <=>
                            HasStake(list, w) \/ (w = user /\ amount > 0)
<1> DEFINE e == [user |-> user, amount |-> amount]
           new == Append(list, e)
           n == Len(list)
<1>1. e \in [user : Players, amount : Nat] /\ e.amount = amount /\ e.user = user
  OBVIOUS
<1> HIDE DEF e
<1>2. TotalOf(new) = TotalOf(list) + amount
  BY <1>1, TotalOfAppend DEF DepositInfo
<1>3. n \in Nat /\ Len(new) = n + 1
  OBVIOUS
<1>4. \A i \in 1..n : new[i] = list[i]
  BY <1>3
<1>5. new[n + 1] = e
  BY <1>3
<1> HIDE DEF new, n
<1>6. OneEntryEach(new)
  <2> SUFFICES ASSUME NEW i \in 1..(n + 1), NEW j \in 1..(n + 1), new[i].user = new[j].user
               PROVE  i = j
    BY <1>3 DEF OneEntryEach
  <2>1. CASE i \in 1..n /\ j \in 1..n
    BY <1>4, <2>1 DEF OneEntryEach, n
  <2>2. CASE i \in 1..n /\ j = n + 1
    BY <1>1, <1>4, <1>5, <2>2 DEF n
  <2>3. CASE i = n + 1 /\ j \in 1..n
    BY <1>1, <1>4, <1>5, <2>3 DEF n
  <2>4. CASE i = n + 1 /\ j = n + 1
    BY <2>4
  <2> QED BY <1>3, <2>1, <2>2, <2>3, <2>4
<1>7. ASSUME NEW w
      PROVE  HasStake(new, w) <=> HasStake(list, w) \/ (w = user /\ amount > 0)
  <2>1. ASSUME HasStake(new, w)
        PROVE  HasStake(list, w) \/ (w = user /\ amount > 0)
    <3>1. PICK i \in 1..(n + 1) : new[i].user = w /\ new[i].amount > 0
      BY <1>3, <2>1 DEF HasStake
    <3>2. CASE i = n + 1
      BY <1>1, <1>5, <3>1, <3>2
    <3>3. CASE i \in 1..n
      BY <1>4, <3>1, <3>3 DEF HasStake, n
    <3> QED BY <1>3, <3>2, <3>3
  <2>2. ASSUME HasStake(list, w)
        PROVE  HasStake(new, w)
    <3>1. PICK i \in 1..n : list[i].user = w /\ list[i].amount > 0
      BY <2>2 DEF HasStake, n
    <3>2. i \in 1..(n + 1) /\ new[i] = list[i]
      BY <1>3, <1>4
    <3> QED BY <1>3, <3>1, <3>2 DEF HasStake
  <2>3. ASSUME w = user, amount > 0
        PROVE  HasStake(new, w)
    <3>1. n + 1 \in 1..(n + 1)
      BY <1>3
    <3> QED BY <1>1, <1>3, <1>5, <2>3, <3>1 DEF HasStake
  <2> QED BY <2>1, <2>2, <2>3
<1> QED BY <1>2, <1>3, <1>6, <1>7 DEF new, e, n

LEMMA DepositedListFields ==
    ASSUME NEW g \in GameGround, NEW user \in Players, NEW amount \in Nat,
           OneEntryEach(g.deposit_list)
    PROVE  LET new == DepositedList(g, user, amount)
           IN  /\ TotalOf(new) = TotalOf(g.deposit_list) + amount
               /\ Len(new) = IF HasEntry(g, user) THEN Len(g.deposit_list)
                                                  ELSE Len(g.deposit_list) + 1
               /\ OneEntryEach(new)
               /\ \A w : HasStake(new, w) <=>
                            HasStake(g.deposit_list, w) \/ (w = user /\ amount > 0)
<1>1. g.deposit_list \in Seq(DepositInfo)
  BY DEF GameGround
<1>2. CASE HasEntry(g, user)
  <2> DEFINE k == EntryOf(g, user)
  <2>1. k \in 1..Len(g.deposit_list) /\ g.deposit_list[k].user = user
    BY <1>2, EntryOfInList
  <2>2. DepositedList(g, user, amount) = Raised(g.deposit_list, k, amount)
    BY <1>2 DEF DepositedList
  <2> HIDE DEF k
  <2> QED BY <1>1, <1>2, <2>1, <2>2, RaisedList
<1>3. CASE ~HasEntry(g, user)
  <2>1. \A i \in 1..Len(g.deposit_list) : g.deposit_list[i].user # user
    BY <1>3 DEF HasEntry
  <2>2. DepositedList(g, user, amount) =
           Append(g.deposit_list, [user |-> user, amount |-> amount])
    BY <1>3 DEF DepositedList
  <2> QED BY <1>1, <1>3, <2>1, <2>2, AppendedList
<1> QED BY <1>2, <1>3

(***************************************************************************)
(* What the vault owes in total, and how a step that touches one round     *)
(* changes it.                                                             *)
(***************************************************************************)
Held == [i \in 1..(MaxRound + 1) |-> HeldFor(i - 1)]

Owed == SumTo(Held, MaxRound + 1)

LEMMA HeldType ==
    ASSUME IInv
    PROVE  /\ \A r \in Rounds : HeldFor(r) \in Nat
           /\ \A i \in 1..(MaxRound + 1) : Held[i] \in Nat
           /\ Owed \in Nat
           /\ \A r \in Rounds : HeldFor(r) <= Owed
<1> DEFINE n == MaxRound + 1
<1>1. n \in Nat /\ \A i \in 1..n : i - 1 \in Rounds /\ Held[i] = HeldFor(i - 1)
  BY BoundsAssumption DEF Rounds, Held
<1>2. ASSUME NEW r \in Rounds
      PROVE  HeldFor(r) \in Nat
  <2>1. games[r] \in GameGround /\ paid[r] \in Nat
    BY DEF IInv, TypeOK
  <2>2. games[r].total_deposit \in Nat
    BY <2>1 DEF GameGround
  <2>3. paid[r] <= games[r].total_deposit
    BY DEF IInv, RoundInv
  <2> QED BY <2>1, <2>2, <2>3 DEF HeldFor
<1>3. \A i \in 1..n : Held[i] \in Nat
  BY <1>1, <1>2
<1> DEFINE g == RunningTotal(Held, n)
<1>4. (\A i \in 0..n : g[i] \in Nat) /\ (\A i \in 1..n : g[i] <= g[n])
  BY <1>1, <1>3, RunningTotalNat
<1>5. \A i \in 1..n : g[i] = g[i - 1] + Held[i]
  BY <1>1, RunningTotalStep
<1>6. Owed = g[n] /\ g[n] \in Nat
  BY <1>1, <1>4 DEF Owed, SumTo
<1> HIDE DEF g, n
<1>7. ASSUME NEW r \in Rounds
      PROVE  HeldFor(r) <= g[n]
  <2> DEFINE i == r + 1
  <2>1. i \in 1..n /\ i - 1 \in 0..n /\ i - 1 = r
    BY BoundsAssumption DEF Rounds, n
  <2>2. g[i] = g[i - 1] + Held[i] /\ g[i] <= g[n] /\ g[i - 1] \in Nat /\ Held[i] = HeldFor(r)
    BY <1>1, <1>4, <1>5, <2>1
  <2> HIDE DEF i
  <2> QED BY <1>2, <1>6, <2>2
<1> QED BY <1>2, <1>3, <1>6, <1>7 DEF n

LEMMA OwedChange ==
    ASSUME IInv, NEW r \in Rounds, NEW d \in Int,
           \A q \in Rounds : HeldFor(q)' = IF q = r THEN HeldFor(q) + d ELSE HeldFor(q)
    PROVE  Owed' = Owed + d
<1> DEFINE n == MaxRound + 1
           k == r + 1
<1>1. n \in Nat /\ k \in 1..n
  BY BoundsAssumption DEF Rounds
<1>2. ASSUME NEW i \in 1..n
      PROVE  Held[i] \in Int /\ Held'[i] = IF i = k THEN Held[i] + d ELSE Held[i]
  <2>1. i - 1 \in Rounds /\ (i - 1 = r <=> i = k)
    BY BoundsAssumption DEF Rounds
  <2>2. Held[i] = HeldFor(i - 1) /\ Held'[i] = HeldFor(i - 1)'
    BY DEF Held
  <2>3. Held[i] \in Nat
    BY HeldType
  <2> QED BY <2>1, <2>2, <2>3
<1> HIDE DEF n, k
<1>3. Shifted(Held, Held', n, k, d)
  BY <1>2 DEF Shifted
<1>4. SumTo(Held', n) = SumTo(Held, n) + d
  BY <1>1, <1>3, SumChange
<1> QED BY <1>4 DEF Owed, n

LEMMA VaultIsOwed ==
    VaultBalanced <=> vault = reserve + Owed
BY DEF VaultBalanced, Owed, Held

-----------------------------------------------------------------------------
(***************************************************************************)
(* Every action preserves the invariant.                                   *)
(***************************************************************************)
LEMMA InitIInv == Init => IInv
<1> SUFFICES ASSUME Init PROVE IInv
  OBVIOUS
<1>1. TypeOK
  BY InitTypeOK
<1>2. TotalOf(<< >>) = 0
  <2>1. RunningTotal(Amounts(<< >>), 0)[0] = 0
    BY RunningTotalStep
  <2> QED BY <2>1 DEF TotalOf, SumTo
<1>3. RoundInv(NoGame, 0)
  <2>1. Blank(NoGame)
    BY DEF Blank, NoGame
  <2> QED BY <1>2, <2>1 DEF RoundInv, NoGame, OneEntryEach
<1>4. \A r \in Rounds : RoundInv(games[r], paid[r])
  BY <1>3 DEF Init
<1>5. ~Configured /\ vault = 0 /\ reserve = 0
  BY DEF Init, NoConfig, Configured
<1>6. Owed = 0
  <2> DEFINE n == MaxRound + 1
             g == RunningTotal(Held, n)
             S == {i \in Nat : i <= n => g[i] = 0}
  <2>1. n \in Nat /\ \A i \in 1..n : i - 1 \in Rounds /\ Held[i] = HeldFor(i - 1)
    BY BoundsAssumption DEF Rounds, Held
  <2>2. \A i \in 1..n : Held[i] = 0
    BY <2>1 DEF Init, HeldFor, NoGame
  <2>3. g[0] = 0 /\ \A i \in 1..n : g[i] = g[i - 1] + Held[i]
    BY <2>1, RunningTotalStep
  <2>4. n \in Nat
    BY <2>1
  <2> HIDE DEF g, n
  <2>5. 0 \in S
    BY <2>3
  <2>6. ASSUME NEW i \in Nat, i \in S
        PROVE  i + 1 \in S
    <3> SUFFICES ASSUME i + 1 <= n PROVE g[i + 1] = 0
      OBVIOUS
    <3>1. i + 1 \in 1..n /\ (i + 1) - 1 = i /\ i <= n
      BY <2>4
    <3> QED BY <2>2, <2>3, <2>6, <3>1
  <2>7. \A i \in Nat : i \in S
    <3> HIDE DEF S
    <3> QED BY <2>5, <2>6, SetInduction
  <2>8. g[n] = 0
    BY <2>4, <2>7
  <2> QED BY <2>8 DEF Owed, SumTo, g, n
<1> QED BY <1>1, <1>4, <1>5, <1>6, VaultIsOwed DEF IInv, ReserveInv, LeavesRent

RoundStep(r, h, out, d) ==
    /\ games' = [games EXCEPT ![r] = h]
    /\ paid' = [paid EXCEPT ![r] = out]
    /\ vault' = vault + d
    /\ reserve' = reserve
    /\ h.total_deposit - out = HeldFor(r) + d

LEMMA OneRoundChanges ==
    ASSUME IInv, TypeOK', NEW r \in Rounds, NEW h, NEW out, NEW d \in Int,
           RoundStep(r, h, out, d), RoundInv(h, out), Configured' <=> Configured,
           Configured \/ d = 0
    PROVE  IInv'
<1>1. \A q \in Rounds : RoundInv(games'[q], paid'[q])
  BY DEF IInv, TypeOK, RoundStep
<1>2. \A q \in Rounds : HeldFor(q)' = IF q = r THEN HeldFor(q) + d ELSE HeldFor(q)
  BY DEF HeldFor, IInv, TypeOK, RoundStep
<1>3. Owed' = Owed + d
  BY <1>2, OwedChange
<1>4. vault = reserve + Owed
  BY VaultIsOwed DEF IInv
<1>5. Owed \in Nat /\ reserve \in Nat /\ reserve' = reserve
  BY HeldType DEF IInv, TypeOK, RoundStep
<1>6. vault' = reserve' + Owed'
  BY <1>3, <1>4, <1>5 DEF RoundStep
<1>7. VaultBalanced'
  BY <1>6 DEF VaultBalanced, Owed, Held
<1>8. ReserveInv'
  <2>1. ~Configured => vault' = vault
    BY <1>4, <1>5 DEF RoundStep
  <2> QED BY <1>5, <2>1 DEF ReserveInv, LeavesRent, IInv
<1> QED BY <1>1, <1>7, <1>8 DEF IInv

LEMMA StutterIInv ==
    ASSUME IInv, TypeOK', UNCHANGED <<config, games, vault, paid, reserve>>
    PROVE  IInv'
<1>1. Configured' = Configured
  BY DEF Configured
<1>2. VaultBalanced' = VaultBalanced
  BY DEF VaultBalanced, HeldFor
<1>3. \A r \in Rounds : RoundInv(games'[r], paid'[r])
  BY DEF IInv
<1>4. ReserveInv'
  BY <1>1 DEF IInv, ReserveInv, LeavesRent
<1> QED BY <1>2, <1>3, <1>4 DEF IInv

LEMMA ConfigureIInv ==
    ASSUME IInv, TypeOK', NEW payer \in Wallets, NEW c \in Configs,
           NEW n \in {config.game_round} \cup CounterResets,
           Configure(payer, [c EXCEPT !.game_round = n])
    PROVE  IInv'
<1>1. Configured'
  <2>1. c \in ConfigData /\ {c.authority, c.payer_wallet, c.team_wallet} \subseteq Wallets
    BY ConfigsAssumption
  <2>2. config'.authority = c.authority
    BY <2>1 DEF Configure, ConfigData
  <2> QED BY <2>1, <2>2, WalletsAssumption DEF Configured
<1>2. Owed' = Owed
  BY DEF Configure, Owed, Held, HeldFor
<1>3. vault = reserve + Owed /\ Owed \in Nat /\ reserve \in Nat /\ vault \in Nat
  BY VaultIsOwed, HeldType DEF IInv, TypeOK
<1>4. VaultBalanced'
  <2>1. vault' = reserve' + Owed'
    BY <1>2, <1>3 DEF Configure, SeedDue, VaultSeed
  <2> QED BY <2>1 DEF VaultBalanced, Owed, Held
<1>6. reserve' >= RentMinimum(0)
  <2>1. CASE vault = 0
    <3>1. reserve' = VaultSeed
      BY <1>3, <2>1 DEF Configure, SeedDue, VaultSeed
    <3> QED BY <3>1 DEF VaultSeed, RentMinimum
  <2>2. CASE vault # 0
    <3>1. reserve' = reserve
      BY <1>3, <2>2 DEF Configure, SeedDue
    <3>2. reserve >= RentMinimum(0)
      BY <2>2 DEF IInv, ReserveInv, LeavesRent
    <3> QED BY <3>1, <3>2
  <2> QED BY <2>1, <2>2
<1>7. ReserveInv'
  BY <1>1, <1>6 DEF ReserveInv, LeavesRent
<1>5. \A r \in Rounds : RoundInv(games'[r], paid'[r])
  BY DEF Configure, IInv
<1> QED BY <1>4, <1>5, <1>7 DEF IInv

LEMMA EndowVaultIInv ==
    ASSUME IInv, TypeOK', NEW w \in Donors, NEW a \in Gifts, EndowVault(w, a)
    PROVE  IInv'
<1>1. a \in Nat /\ reserve \in Nat /\ vault \in Nat
  BY InputsAssumption DEF IInv, TypeOK
<1>2. Configured' = Configured
  BY DEF EndowVault, Configured
<1>3. VaultBalanced'
  <2>1. Owed' = Owed
    BY DEF EndowVault, Owed, Held, HeldFor
  <2>2. vault = reserve + Owed /\ Owed \in Nat
    BY VaultIsOwed, HeldType DEF IInv
  <2>3. vault' = reserve' + Owed'
    BY <1>1, <2>1, <2>2 DEF EndowVault
  <2> QED BY <2>3 DEF VaultBalanced, Owed, Held
<1>4. ReserveInv'
  <2>1. CASE Configured
    <3>1. reserve' >= RentMinimum(0)
      BY <1>1, <2>1 DEF IInv, ReserveInv, EndowVault, RentMinimum
    <3> QED BY <1>2, <2>1, <3>1 DEF ReserveInv, LeavesRent
  <2>2. CASE ~Configured
    <3>1. vault' = reserve' /\ LeavesRent(reserve')
      BY <1>1, <2>2 DEF IInv, ReserveInv, EndowVault
    <3> QED BY <1>2, <2>2, <3>1 DEF ReserveInv, LeavesRent
  <2> QED BY <2>1, <2>2
<1>5. \A r \in Rounds : RoundInv(games'[r], paid'[r])
  BY DEF EndowVault, IInv
<1> QED BY <1>3, <1>4, <1>5 DEF IInv

LEMMA EndowRoundIInv ==
    ASSUME IInv, TypeOK', NEW w \in Donors, NEW r \in Rounds, NEW a \in Gifts,
           EndowRound(w, r, a)
    PROVE  IInv'
<1> DEFINE g == games[r]
           h == Endowed(g, a)
<1>1. g \in GameGround /\ RoundInv(g, paid[r]) /\ a \in Nat
  BY InputsAssumption DEF IInv, TypeOK
<1>2. RoundInv(h, paid[r]) /\ h.total_deposit = g.total_deposit
  BY <1>1, EndowedInv, EndowedFields
<1>3. games' = [games EXCEPT ![r] = h]
  BY EndowRoundStep
<1> HIDE DEF h
<1>4. RoundStep(r, h, paid[r], 0)
  <2>1. paid' = [paid EXCEPT ![r] = paid[r]]
    BY DEF EndowRound, IInv, TypeOK
  <2>2. g.total_deposit \in Nat /\ paid[r] \in Nat /\ vault \in Nat
    BY <1>1 DEF IInv, TypeOK, GameGround
  <2>3. HeldFor(r) = g.total_deposit - paid[r]
    BY DEF HeldFor
  <2> HIDE DEF g
  <2>4. vault' = vault + 0 /\ h.total_deposit - paid[r] = HeldFor(r) + 0
    BY <1>2, <2>2, <2>3 DEF EndowRound
  <2> QED BY <1>3, <2>1, <2>4 DEF RoundStep, EndowRound
<1>5. Configured' <=> Configured
  BY DEF EndowRound, Configured
<1> QED BY <1>2, <1>4, <1>5, OneRoundChanges

LEMMA NewGameInv ==
    ASSUME NEW held, NEW f, NEW t, NEW d, NEW j \in Nat
    PROVE  /\ RoundInv(NewGame(held, f, t, d, j), 0)
           /\ NewGame(held, f, t, d, j).total_deposit = 0
<1> DEFINE g == NewGame(held, f, t, d, j)
<1>1. /\ g.exists /\ g.total_deposit = 0 /\ g.user_count = 0 /\ g.deposit_list = << >>
      /\ g.max_joiner_count = j /\ ~g.is_completed /\ ~g.is_claimed /\ g.winner = NoWallet
      /\ g.space = GameGroundSpace(0)
  BY DEF NewGame, NoGame
<1> HIDE DEF g
<1>2. TotalOf(<< >>) = 0
  <2>1. RunningTotal(Amounts(<< >>), 0)[0] = 0
    BY RunningTotalStep
  <2> QED BY <2>1 DEF TotalOf, SumTo
<1>3. SerializedLen(0) <= GameGroundSpace(0)
  BY DEF SerializedLen, GameGroundSpace, GameGroundInitSpace, DepositInfoSpace
<1>4. RoundInv(g, 0)
  BY <1>1, <1>2, <1>3 DEF RoundInv, OneEntryEach
<1> QED BY <1>1, <1>4 DEF g

LEMMA CreateGameIInv ==
    ASSUME IInv, TypeOK', NEW f \in Forces, NEW t \in RoundTimes, NEW d \in MinDeposits,
           NEW j \in JoinerLimits, CreateGame(f, t, d, j)
    PROVE  IInv'
<1> DEFINE r == config.game_round
           g == NewGame(games[r].lamports, f, t, d, j)
<1>1. r \in Rounds /\ ~games[r].exists /\ games' = [games EXCEPT ![r] = g]
  BY DEF CreateGame, Vacant, IInv, TypeOK, ConfigData
<1>2. RoundInv(games[r], paid[r])
  BY <1>1 DEF IInv
<1>3. games[r].total_deposit = 0 /\ games[r].is_claimed = FALSE
  BY <1>1, <1>2, BlankFields DEF RoundInv
<1>4. paid[r] = 0
  BY <1>2, <1>3 DEF RoundInv
<1>5. paid' = [paid EXCEPT ![r] = 0] /\ vault' = vault + 0 /\ reserve' = reserve
  BY <1>1, <1>4 DEF CreateGame, IInv, TypeOK
<1>6. RoundInv(g, 0) /\ g.total_deposit = 0
  BY NewGameInv, InputsAssumption
<1>7. HeldFor(r) = 0
  BY <1>3, <1>4 DEF HeldFor
<1>8. Configured /\ Configured'
  <2>1. config'.authority = config.authority
    BY DEF CreateGame, IInv, TypeOK, ConfigData
  <2> QED BY <2>1 DEF CreateGame, Configured
<1> HIDE DEF g, r
<1>9. RoundStep(r, g, 0, 0)
  BY <1>1, <1>5, <1>6, <1>7 DEF RoundStep
<1> QED BY <1>1, <1>6, <1>8, <1>9, OneRoundChanges

LEMMA JoinGameIInv ==
    ASSUME IInv, TypeOK', NEW r \in Rounds, NEW p \in Players, NEW a \in DepositAmounts,
           JoinGame(r, p, a)
    PROVE  IInv'
<1> DEFINE g == games[r]
           fee == BpsMul(config.platform_fee, a)
           applied == AmountApplied(a, fee)
           h == Joined(g, p, applied)
           list == DepositedList(g, p, applied)
<1>1. Configured /\ g \in GameGround /\ RoundInv(g, paid[r]) /\ g.exists
  BY AddressableConfigured DEF IInv, JoinGame, Addressable
<1>2. Configured'
  BY <1>1 DEF JoinGame, Configured
<1>3. a \in Nat /\ fee \in Nat /\ fee <= a
  BY InputsAssumption, FeeIsNat DEF IInv, TypeOK, ConfigData, JoinGame, FeeFits
<1>4. applied = a - fee /\ applied \in Nat
  BY <1>3 DEF AmountApplied
<1>5. /\ games' = [games EXCEPT ![r] = h]
      /\ vault' = vault + applied
      /\ paid' = paid
      /\ reserve' = reserve
      /\ HasSeat(h)
  BY <1>4 DEF JoinGame, Joined
<1>6. /\ SameDraw(g, h)
      /\ h.deposit_list = list
      /\ h.user_count = IF HasEntry(g, p) THEN g.user_count ELSE g.user_count + 1
      /\ h.total_deposit = g.total_deposit + applied
      /\ h.space = GameGroundSpace(Len(g.deposit_list))
  BY <1>1, <1>4, JoinedFields DEF IInv, DepositedList
<1>7. OneEntryEach(g.deposit_list) /\ g.user_count = Len(g.deposit_list)
      /\ g.total_deposit = TotalOf(g.deposit_list)
  BY <1>1 DEF RoundInv
<1>8. /\ TotalOf(list) = TotalOf(g.deposit_list) + applied
      /\ Len(list) = IF HasEntry(g, p) THEN Len(g.deposit_list) ELSE Len(g.deposit_list) + 1
      /\ OneEntryEach(list)
      /\ \A w : HasStake(list, w) <=> HasStake(g.deposit_list, w) \/ (w = p /\ applied > 0)
  BY <1>1, <1>4, <1>7, DepositedListFields
<1>9. g.total_deposit \in Nat /\ paid[r] \in Nat /\ Len(g.deposit_list) \in Nat
  BY <1>1 DEF IInv, TypeOK, GameGround
<1> HIDE DEF g, fee, applied, h, list
<1>10. SerializedLen(Len(list)) <= h.space
  BY <1>6, <1>8, <1>9
     DEF SerializedLen, GameGroundSpace, GameGroundInitSpace, DepositInfoSpace
<1>11. Len(list) = h.user_count /\ Len(list) <= h.max_joiner_count
  BY <1>5, <1>6, <1>7, <1>8 DEF HasSeat
<1>12. RoundInv(h, paid[r])
  BY <1>1, <1>4, <1>6, <1>7, <1>8, <1>9, <1>10, <1>11 DEF RoundInv, SameDraw
<1>13. RoundStep(r, h, paid[r], applied)
  <2>1. paid' = [paid EXCEPT ![r] = paid[r]]
    BY <1>5 DEF IInv, TypeOK
  <2>2. h.total_deposit - paid[r] = HeldFor(r) + applied
    BY <1>4, <1>6, <1>9 DEF HeldFor, g
  <2> QED BY <1>5, <2>1, <2>2 DEF RoundStep
<1> QED BY <1>1, <1>2, <1>4, <1>12, <1>13, OneRoundChanges

LEMMA WordType ==
    ASSUME TypeOK, NEW r \in Rounds, SetWinner(r)
    PROVE  CurrentState(games[r].force) \in Nat
<1>1. CASE random[games[r].force].status = "fulfilled"
  <2>1. random[games[r].force] \in Randomness
    BY DEF TypeOK, SetWinner, Addressable
  <2> QED BY <1>1, <2>1 DEF CurrentState, Randomness
<1>2. CASE random[games[r].force].status # "fulfilled"
  BY <1>2 DEF CurrentState
<1> QED BY <1>1, <1>2

LEMMA SetWinnerIInv ==
    ASSUME IInv, TypeOK', NEW r \in Rounds, SetWinner(r)
    PROVE  IInv' /\ HasStake(games[r].deposit_list, games'[r].winner)
<1> DEFINE g == games[r]
           word == CurrentState(g.force)
           ticket == Ticket(g.total_deposit, word)
           h == WithWinner(g, word)
<1>1. Configured /\ g \in GameGround /\ RoundInv(g, paid[r]) /\ g.exists
  BY AddressableConfigured DEF IInv, SetWinner, Addressable
<1>2. Configured'
  BY <1>1 DEF SetWinner, Configured
<1>3. word \in Nat
  BY WordType DEF IInv
<1>4. /\ games' = [games EXCEPT ![r] = h]
      /\ vault' = vault /\ paid' = paid /\ reserve' = reserve
      /\ g.total_deposit > 0 /\ ~g.is_completed
  BY DEF SetWinner, NotDrawn
<1>5. /\ h.exists = g.exists
      /\ h.is_completed
      /\ h.is_claimed = g.is_claimed
      /\ h.max_joiner_count = g.max_joiner_count
      /\ h.deposit_list = g.deposit_list
      /\ h.user_count = g.user_count
      /\ h.total_deposit = g.total_deposit
      /\ h.space = g.space
      /\ h.winner = IF HasStop(g.deposit_list, ticket)
                    THEN DrawnUser(g.deposit_list, ticket)
                    ELSE g.winner
  BY <1>1, <1>3, WithWinnerFields
<1>6. HasStake(g.deposit_list, h.winner)
  <2>1. g.deposit_list \in Seq([user : Players, amount : Nat])
    BY <1>1 DEF GameGround, DepositInfo
  <2>2. TotalOf(g.deposit_list) = g.total_deposit /\ TotalOf(g.deposit_list) > 0
    BY <1>1, <1>4 DEF RoundInv
  <2> HIDE DEF g, word, ticket, h
  <2>3. /\ HasStop(g.deposit_list, ticket)
        /\ \E i \in 1..Len(g.deposit_list) :
              /\ g.deposit_list[i].user = DrawnUser(g.deposit_list, ticket)
              /\ g.deposit_list[i].amount > 0
    BY <1>3, <2>1, <2>2, DrawPicksAStake DEF ticket
  <2> QED BY <1>5, <2>3 DEF HasStake
<1> HIDE DEF g, word, ticket, h
<1>7. RoundInv(h, paid[r])
  BY <1>1, <1>4, <1>5, <1>6 DEF RoundInv
<1>8. RoundStep(r, h, paid[r], 0)
  <2>1. paid' = [paid EXCEPT ![r] = paid[r]]
    BY <1>4 DEF IInv, TypeOK
  <2>2. g.total_deposit \in Nat /\ paid[r] \in Nat /\ vault \in Nat
    BY <1>1 DEF IInv, TypeOK, GameGround
  <2>3. HeldFor(r) = g.total_deposit - paid[r]
    BY DEF HeldFor, g
  <2>4. vault' = vault + 0 /\ h.total_deposit - paid[r] = HeldFor(r) + 0
    BY <1>4, <1>5, <2>2, <2>3
  <2> QED BY <1>4, <2>1, <2>4 DEF RoundStep
<1>9. IInv'
  BY <1>1, <1>2, <1>7, <1>8, OneRoundChanges
<1>10. games'[r] = h
  BY <1>4 DEF IInv, TypeOK
<1> QED BY <1>6, <1>9, <1>10 DEF g

LEMMA ClaimRewardIInv ==
    ASSUME IInv, TypeOK', NEW r \in Rounds, ClaimReward(r)
    PROVE  IInv'
<1> DEFINE g == games[r]
           pot == g.total_deposit
           h == AfterClaim(g)
<1>1. Configured /\ g \in GameGround /\ RoundInv(g, paid[r]) /\ g.exists
  BY AddressableConfigured DEF IInv, ClaimReward, Addressable
<1>2. Configured'
  BY <1>1 DEF ClaimReward, Configured
<1>3. g.is_completed /\ ~g.is_claimed
  BY DEF ClaimReward
<1>4. pot \in Nat /\ paid[r] = 0 /\ vault \in Nat
  BY <1>1, <1>3 DEF RoundInv, IInv, TypeOK, GameGround
<1>5. /\ h.exists = g.exists
      /\ h.winner = g.winner
      /\ h.is_completed = g.is_completed
      /\ h.is_claimed
      /\ h.max_joiner_count = g.max_joiner_count
      /\ h.deposit_list = g.deposit_list
      /\ h.user_count = g.user_count
      /\ h.total_deposit = pot
      /\ h.space = g.space
  BY <1>1, AfterClaimFields
<1>6. /\ games' = [games EXCEPT ![r] = h]
      /\ vault' = vault - pot
      /\ paid' = [paid EXCEPT ![r] = paid[r] + pot]
      /\ reserve' = reserve
  BY DEF ClaimReward
<1> HIDE DEF h, pot
<1>7. pot > 0
  <2>1. g.deposit_list \in Seq(DepositInfo) /\ TotalOf(g.deposit_list) = pot
    BY <1>1 DEF GameGround, RoundInv, pot
  <2>2. PICK i \in 1..Len(g.deposit_list) : g.deposit_list[i].amount > 0
    BY <1>1, <1>3 DEF RoundInv, HasStake
  <2>3. g.deposit_list[i].amount <= pot
    BY <2>1, EntryBelowTotal DEF DepositInfo
  <2>4. g.deposit_list[i] \in DepositInfo
    BY <2>1
  <2> QED BY <1>4, <2>2, <2>3, <2>4 DEF DepositInfo
<1>8. RoundInv(h, pot)
  BY <1>1, <1>3, <1>4, <1>5, <1>7 DEF RoundInv, pot
<1>9. RoundStep(r, h, pot, 0 - pot)
  <2>1. paid' = [paid EXCEPT ![r] = pot]
    BY <1>4, <1>6
  <2>2. HeldFor(r) = pot - 0
    BY <1>4 DEF HeldFor, pot
  <2> QED BY <1>4, <1>5, <1>6, <2>1, <2>2 DEF RoundStep
<1>10. 0 - pot \in Int
  BY <1>4
<1> QED BY <1>1, <1>2, <1>8, <1>9, <1>10, OneRoundChanges

LEMMA NextIInv == IInv /\ [Next]_vars => IInv'
<1> SUFFICES ASSUME IInv, [Next]_vars PROVE IInv'
  OBVIOUS
<1>1. TypeOK'
  BY NextTypeOK DEF IInv
<1>2. CASE \E payer \in Wallets, c \in Configs, n \in {config.game_round} \cup CounterResets :
              Configure(payer, [c EXCEPT !.game_round = n])
  BY <1>1, <1>2, ConfigureIInv
<1>3. CASE \E f \in Forces, t \in RoundTimes, d \in MinDeposits, j \in JoinerLimits :
              CreateGame(f, t, d, j)
  BY <1>1, <1>3, CreateGameIInv
<1>4. CASE \E r \in Rounds, p \in Players, a \in DepositAmounts : JoinGame(r, p, a)
  BY <1>1, <1>4, JoinGameIInv
<1>5. CASE \E r \in Rounds : SetWinner(r)
  BY <1>1, <1>5, SetWinnerIInv
<1>6. CASE \E r \in Rounds : ClaimReward(r)
  BY <1>1, <1>6, ClaimRewardIInv
<1>7. CASE \E f \in Forces, v \in RandomValues : Fulfill(f, v)
  BY <1>1, <1>7, StutterIInv DEF Fulfill
<1>8. CASE Tick
  BY <1>1, <1>8, StutterIInv DEF Tick
<1>9. CASE UNCHANGED vars
  BY <1>1, <1>9, StutterIInv DEF vars
<1>10. CASE \E w \in Donors, a \in Gifts : EndowVault(w, a)
  BY <1>1, <1>10, EndowVaultIInv
<1>11. CASE \E w \in Donors, r \in Rounds, a \in Gifts : EndowRound(w, r, a)
  BY <1>1, <1>11, EndowRoundIInv
<1> QED BY <1>2, <1>3, <1>4, <1>5, <1>6, <1>7, <1>8, <1>9, <1>10, <1>11 DEF Next

-----------------------------------------------------------------------------
(***************************************************************************)
(* The invariant holds in every reachable state.                           *)
(***************************************************************************)
THEOREM Invariance == Spec => []IInv
BY InitIInv, NextIInv, PTL DEF Spec

(***************************************************************************)
(* In every round, however often its players join, total_deposit is the    *)
(* sum of the deposit list, user_count its length, and no user appears     *)
(* twice (join_game, append).                                              *)
(***************************************************************************)
THEOREM Books == Spec => []PotIsSumOfDeposits
<1>1. IInv => PotIsSumOfDeposits
  BY DEF IInv, RoundInv, OneEntryEach, PotIsSumOfDeposits
<1> QED BY <1>1, Invariance, PTL

(***************************************************************************)
(* No round ever seats more users than create_game allowed it.             *)
(***************************************************************************)
THEOREM Seats == Spec => []SeatsRespected
<1>1. IInv => SeatsRespected
  BY DEF IInv, RoundInv, SeatsRespected
<1> QED BY <1>1, Invariance, PTL

(***************************************************************************)
(* The winner that set_winner stores always has a positive deposit in the  *)
(* round, whatever the random word, also after later deposits.             *)
(***************************************************************************)
THEOREM WinnerHasStake == Spec => []DrawnWinnerHasStake
<1>1. IInv => DrawnWinnerHasStake
  BY DEF IInv, RoundInv, HasStake, DrawnWinnerHasStake
<1> QED BY <1>1, Invariance, PTL

(***************************************************************************)
(* For any number of deposits the round fits the account that join_game    *)
(* resized before it appended.                                             *)
(***************************************************************************)
THEOREM AccountIsLargeEnough == Spec => []FitsInAccount
<1>1. IInv => FitsInAccount
  BY DEF IInv, RoundInv, FitsInAccount
<1> QED BY <1>1, Invariance, PTL

(***************************************************************************)
(* For any number of rounds sharing the vault, also when configure rewinds *)
(* the counter, the vault holds what it was endowed with and what the      *)
(* rounds are owed.                                                        *)
(***************************************************************************)
THEOREM VaultIsBalanced == Spec => []VaultBalanced
<1>1. IInv => VaultBalanced
  BY DEF IInv
<1> QED BY <1>1, Invariance, PTL

LEMMA PotOfDrawn ==
    ASSUME IInv, NEW r \in Rounds, games[r].is_completed
    PROVE  /\ games[r].total_deposit \in Nat
           /\ games[r].total_deposit > 0
           /\ games[r].winner \in Wallets
<1>1. games[r] \in GameGround /\ RoundInv(games[r], paid[r])
  BY DEF IInv, TypeOK
<1>2. PICK i \in 1..Len(games[r].deposit_list) :
         games[r].deposit_list[i].user = games[r].winner /\ games[r].deposit_list[i].amount > 0
  BY <1>1 DEF RoundInv, HasStake
<1>3. games[r].deposit_list \in Seq([user : Players, amount : Nat])
  BY <1>1 DEF GameGround, DepositInfo
<1>4. games[r].deposit_list[i].amount <= TotalOf(games[r].deposit_list)
  BY <1>3, EntryBelowTotal
<1>5. games[r].deposit_list[i].amount \in Nat /\ games[r].deposit_list[i].user \in Players
  BY <1>3, EntryType
<1>6. games[r].total_deposit = TotalOf(games[r].deposit_list) /\ games[r].total_deposit \in Nat
  BY <1>1 DEF RoundInv, GameGround
<1> QED BY <1>2, <1>4, <1>5, <1>6, WalletsAssumption

(***************************************************************************)
(* claim_reward of a drawn and unclaimed round never fails for lack of     *)
(* lamports in the vault, nor for its rent-exempt minimum.                 *)
(***************************************************************************)
THEOREM ClaimsCanBePaid == Spec => []ClaimsAreFunded
<1>1. IInv => ClaimsAreFunded
  <2> SUFFICES ASSUME IInv, NEW r \in Rounds, games[r].is_completed, ~games[r].is_claimed
               PROVE  /\ vault >= games[r].total_deposit
                      /\ LeavesRent(vault - games[r].total_deposit)
    BY DEF ClaimsAreFunded
  <2>1. games[r] \in GameGround /\ RoundInv(games[r], paid[r])
    BY DEF IInv, TypeOK
  <2>2. games[r].total_deposit \in Nat
    BY <2>1 DEF GameGround
  <2>3. HeldFor(r) = games[r].total_deposit
    BY <2>1, <2>2 DEF HeldFor, RoundInv
  <2>4. HeldFor(r) <= Owed /\ Owed \in Nat
    BY HeldType
  <2>5. Configured
    <3>1. games[r].total_deposit > 0
      BY PotOfDrawn
    <3>2. ~Configured => vault = reserve + Owed /\ vault = reserve /\ reserve \in Nat
      BY VaultIsOwed DEF IInv, ReserveInv, TypeOK
    <3> QED BY <2>2, <2>3, <2>4, <3>1, <3>2
  <2>6. vault = reserve + Owed /\ reserve \in Nat
    BY VaultIsOwed DEF IInv, TypeOK
  <2>7. vault - games[r].total_deposit >= reserve
    BY <2>2, <2>3, <2>4, <2>6
  <2>8. reserve >= RentMinimum(0)
    BY <2>5 DEF IInv, ReserveInv
  <2> QED BY <2>2, <2>4, <2>6, <2>7, <2>8 DEF LeavesRent, RentMinimum
<1> QED BY <1>1, Invariance, PTL

-----------------------------------------------------------------------------
(* The draw of a round, kept by the step.                                  *)
DrawKept(r) ==
    games[r].is_completed =>
        /\ games'[r].is_completed
        /\ games'[r].winner = games[r].winner
        /\ games'[r].rand = games[r].rand

LEMMA DrawStays ==
    ASSUME IInv, Next, NEW q \in Rounds
    PROVE  DrawKept(q)
<1> USE DEF DrawKept
<1>1. games \in [Rounds -> GameGround]
  BY DEF IInv, TypeOK
<1>2. CASE games' = games
  BY <1>2
<1>3. ASSUME NEW f \in Forces, NEW t \in RoundTimes, NEW d \in MinDeposits,
             NEW j \in JoinerLimits, CreateGame(f, t, d, j)
      PROVE  DrawKept(q)
  <2>1. config.game_round \in Rounds
    BY DEF IInv, TypeOK, ConfigData
  <2>2. ~games[config.game_round].is_completed
    BY <1>3, <2>1, BlankFields DEF CreateGame, Vacant, IInv, RoundInv
  <2> QED BY <1>1, <1>3, <2>1, <2>2 DEF CreateGame
<1>4. ASSUME NEW r \in Rounds, NEW p \in Players, NEW a \in DepositAmounts, JoinGame(r, p, a)
      PROVE  DrawKept(q)
  <2> DEFINE fee == BpsMul(config.platform_fee, a)
             applied == AmountApplied(a, fee)
  <2>1. applied \in Nat
    <3>1. a \in Nat /\ fee \in Nat
      BY InputsAssumption, FeeIsNat DEF IInv, TypeOK, ConfigData
    <3>2. fee <= a
      BY <1>4 DEF JoinGame, FeeFits
    <3> HIDE DEF fee
    <3> QED BY <3>1, <3>2 DEF AmountApplied
  <2>2. games' = [games EXCEPT ![r] = Joined(games[r], p, applied)]
    BY <1>4 DEF JoinGame, Joined
  <2> HIDE DEF applied, fee
  <2>3. SameDraw(games[r], Joined(games[r], p, applied))
    BY <1>1, <2>1, JoinedFields DEF IInv
  <2> QED BY <1>1, <2>2, <2>3 DEF SameDraw
<1>5. ASSUME NEW r \in Rounds, SetWinner(r)
      PROVE  DrawKept(q)
  BY <1>1, <1>5 DEF SetWinner, NotDrawn
<1>6. ASSUME NEW r \in Rounds, ClaimReward(r)
      PROVE  DrawKept(q)
  <2>1. /\ AfterClaim(games[r]).winner = games[r].winner
        /\ AfterClaim(games[r]).rand = games[r].rand
        /\ AfterClaim(games[r]).is_completed = games[r].is_completed
    BY <1>1, AfterClaimFields
  <2> QED BY <1>1, <1>6, <2>1 DEF ClaimReward
<1>7. ASSUME NEW w \in Donors, NEW r \in Rounds, NEW a \in Gifts, EndowRound(w, r, a)
      PROVE  DrawKept(q)
  <2>1. SameDraw(games[r], Endowed(games[r], a))
    BY <1>1, InputsAssumption, EndowedFields
  <2>2. games' = [games EXCEPT ![r] = Endowed(games[r], a)]
    BY <1>7, EndowRoundStep
  <2> QED BY <1>1, <2>1, <2>2 DEF SameDraw
<1> HIDE DEF DrawKept
<1> QED BY <1>2, <1>3, <1>4, <1>5, <1>6, <1>7
        DEF Next, Configure, Fulfill, Tick, EndowVault

(***************************************************************************)
(* No instruction redraws a round: once is_completed is set, it, the       *)
(* winner and the random word stay, through later joins and the claim.     *)
(***************************************************************************)
THEOREM DrawsAreFinal == Spec => DrawIsFinal
<1>1. IInv /\ [Next]_vars => [\A r \in Rounds : DrawKept(r)]_vars
  BY DrawStays
<1> QED BY <1>1, Invariance, PTL DEF Spec, DrawIsFinal, DrawKept

(***************************************************************************)
(* Deposits are never lost: a round keeps its account and its seed, and a  *)
(* join either raises one entry or appends one (gameground.rs, append),    *)
(* while create_game writes only where no account was, whatever configure  *)
(* did to the counter.                                                     *)
(***************************************************************************)
LEMMA EntriesKeptBySame ==
    ASSUME NEW list \in Seq(DepositInfo)
    PROVE  EntriesKept(list, list)
<1>1. \A i \in 1..Len(list) : list[i].amount \in Nat
  BY EntryType DEF DepositInfo
<1> QED BY <1>1 DEF EntriesKept

LEMMA EntriesKeptByDeposit ==
    ASSUME NEW g \in GameGround, NEW user \in Players, NEW amount \in Nat
    PROVE  EntriesKept(g.deposit_list, DepositedList(g, user, amount))
<1> DEFINE list == g.deposit_list
           k == EntryOf(g, user)
           new == DepositedList(g, user, amount)
<1>1. list \in Seq([user : Players, amount : Nat])
  BY DEF GameGround, DepositInfo
<1>2. CASE HasEntry(g, user)
  <2>1. k \in 1..Len(list)
    BY <1>2, EntryOfInList
  <2>2. new = Raised(list, k, amount)
    BY <1>2 DEF DepositedList
  <2> HIDE DEF list, k, new
  <2>3. Len(new) = Len(list)
    BY <1>1, <2>2 DEF Raised
  <2>4. ASSUME NEW i \in 1..Len(list)
        PROVE  new[i].user = list[i].user /\ new[i].amount >= list[i].amount
    <3>1. list[i] \in [user : Players, amount : Nat]
      BY <1>1, EntryType
    <3>2. new[i] = IF i = k THEN [list[i] EXCEPT !.amount = @ + amount] ELSE list[i]
      BY <1>1, <2>2 DEF Raised
    <3> QED BY <3>1, <3>2
  <2>5. Len(list) \in Nat
    BY <1>1
  <2> QED BY <2>3, <2>4, <2>5 DEF EntriesKept, list, new
<1>3. CASE ~HasEntry(g, user)
  <2>1. new = Append(list, [user |-> user, amount |-> amount])
    BY <1>3 DEF DepositedList
  <2> HIDE DEF list, new
  <2>2. Len(list) \in Nat /\ Len(new) = Len(list) + 1
    BY <1>1, <2>1
  <2>3. ASSUME NEW i \in 1..Len(list)
        PROVE  new[i].user = list[i].user /\ new[i].amount >= list[i].amount
    <3>1. list[i] \in [user : Players, amount : Nat]
      BY <1>1, EntryType
    <3>2. new[i] = list[i]
      BY <1>1, <2>1
    <3> QED BY <3>1, <3>2
  <2> QED BY <2>2, <2>3 DEF EntriesKept, list, new
<1> QED BY <1>2, <1>3

(* The deposits of a round, kept by the step.                              *)
DepositsKept(r) ==
    games[r].exists =>
        /\ games'[r].exists
        /\ games'[r].force = games[r].force
        /\ EntriesKept(games[r].deposit_list, games'[r].deposit_list)

LEMMA DepositsStay ==
    ASSUME IInv, Next, NEW q \in Rounds
    PROVE  DepositsKept(q)
<1> USE DEF DepositsKept
<1>1. games \in [Rounds -> GameGround] /\ games[q].deposit_list \in Seq(DepositInfo)
  BY DEF IInv, TypeOK, GameGround
<1>2. EntriesKept(games[q].deposit_list, games[q].deposit_list)
  BY <1>1, EntriesKeptBySame
<1>3. ASSUME games'[q] = games[q]
      PROVE  DepositsKept(q)
  BY <1>2, <1>3
<1>4. ASSUME NEW f \in Forces, NEW t \in RoundTimes, NEW d \in MinDeposits,
             NEW j \in JoinerLimits, CreateGame(f, t, d, j)
      PROVE  DepositsKept(q)
  <2>1. q = config.game_round => ~games[q].exists
    BY <1>4 DEF CreateGame, Vacant
  <2>2. q # config.game_round => games'[q] = games[q]
    BY <1>1, <1>4 DEF CreateGame
  <2> HIDE DEF DepositsKept
  <2>3. CASE q # config.game_round
    BY <1>3, <2>2, <2>3
  <2>4. CASE q = config.game_round
    BY <2>1, <2>4 DEF DepositsKept
  <2> QED BY <2>3, <2>4
<1>5. ASSUME NEW r \in Rounds, NEW p \in Players, NEW a \in DepositAmounts, JoinGame(r, p, a)
      PROVE  DepositsKept(q)
  <2> DEFINE fee == BpsMul(config.platform_fee, a)
             applied == AmountApplied(a, fee)
             h == Joined(games[r], p, applied)
  <2>1. applied \in Nat
    <3>1. a \in Nat /\ fee \in Nat
      BY InputsAssumption, FeeIsNat DEF IInv, TypeOK, ConfigData
    <3>2. fee <= a
      BY <1>5 DEF JoinGame, FeeFits
    <3> HIDE DEF fee
    <3> QED BY <3>1, <3>2 DEF AmountApplied
  <2>2. games' = [games EXCEPT ![r] = h]
    BY <1>5 DEF JoinGame, Joined
  <2> HIDE DEF applied, fee
  <2>3. h.deposit_list = DepositedList(games[r], p, applied) /\ SameDraw(games[r], h)
    BY <1>1, <2>1, JoinedFields DEF IInv, DepositedList
  <2>4. EntriesKept(games[r].deposit_list, h.deposit_list)
    BY <1>1, <2>1, <2>3, EntriesKeptByDeposit
  <2> HIDE DEF h
  <2>5. CASE q = r
    BY <1>1, <2>2, <2>3, <2>4, <2>5 DEF SameDraw
  <2>6. CASE q # r
    BY <1>1, <1>3, <2>2, <2>6
  <2> QED BY <2>5, <2>6
<1>6. ASSUME NEW r \in Rounds, SetWinner(r)
      PROVE  DepositsKept(q)
  <2> DEFINE word == CurrentState(games[r].force)
             h == WithWinner(games[r], word)
  <2>1. games' = [games EXCEPT ![r] = h]
    BY <1>6 DEF SetWinner
  <2>2. word \in Nat
    BY <1>6, WordType DEF IInv
  <2> HIDE DEF word
  <2>3. /\ h.exists = games[r].exists
        /\ h.force = games[r].force
        /\ h.deposit_list = games[r].deposit_list
    BY <1>1, <2>2, WithWinnerFields
  <2> HIDE DEF h
  <2> QED BY <1>1, <1>2, <2>1, <2>3
<1>7. ASSUME NEW r \in Rounds, ClaimReward(r)
      PROVE  DepositsKept(q)
  <2> DEFINE h == AfterClaim(games[r])
  <2>1. games' = [games EXCEPT ![r] = h]
    BY <1>7 DEF ClaimReward
  <2>2. /\ h.exists = games[r].exists
        /\ h.force = games[r].force
        /\ h.deposit_list = games[r].deposit_list
    BY <1>1, AfterClaimFields
  <2> HIDE DEF h
  <2> QED BY <1>1, <1>2, <2>1, <2>2
<1>8. ASSUME NEW w \in Donors, NEW r \in Rounds, NEW a \in Gifts, EndowRound(w, r, a)
      PROVE  DepositsKept(q)
  <2> DEFINE h == Endowed(games[r], a)
  <2>1. games' = [games EXCEPT ![r] = h]
    BY <1>8, EndowRoundStep
  <2>2. h.deposit_list = games[r].deposit_list /\ SameDraw(games[r], h)
    BY <1>1, InputsAssumption, EndowedFields
  <2> HIDE DEF h
  <2> QED BY <1>1, <1>2, <2>1, <2>2 DEF SameDraw
<1> HIDE DEF DepositsKept
<1> QED BY <1>3, <1>4, <1>5, <1>6, <1>7, <1>8
        DEF Next, Configure, Fulfill, Tick, EndowVault

THEOREM NoDepositIsLost == Spec => DepositsAreNeverLost
<1>1. IInv /\ [Next]_vars => [\A r \in Rounds : DepositsKept(r)]_vars
  BY DepositsStay
<1> QED BY <1>1, Invariance, PTL DEF Spec, DepositsAreNeverLost, DepositsKept

-----------------------------------------------------------------------------
(***************************************************************************)
(* Which rounds a step can reach.                                          *)
(***************************************************************************)
ReachKept(r) ==
    /\ OutOfReach(r)' => OutOfReach(r) \/ TakenOut(r)
    /\ OutOfReach(r) => SameRound(games[r], games'[r]) /\ paid'[r] = paid[r]

LEMMA SameRoundBySame ==
    ASSUME NEW g \in GameGround
    PROVE  SameRound(g, g)
BY DEF SameRound, GameGround

(* An instruction acts on one round that it can reach, and leaves the      *)
(* counter alone.                                                          *)
LEMMA ReachKeptByOthers ==
    ASSUME IInv, NEW r \in Rounds, NEW q \in Rounds, Addressable(r), NEW h,
           h.exists = games[r].exists, games' = [games EXCEPT ![r] = h], config' = config,
           q # r => paid'[q] = paid[q]
    PROVE  ReachKept(q)
<1>1. games \in [Rounds -> GameGround]
  BY DEF IInv, TypeOK
<1>2. CASE q = r
  BY <1>1, <1>2 DEF ReachKept, OutOfReach, Addressable
<1>3. CASE q # r
  <2>1. games'[q] = games[q]
    BY <1>1, <1>3
  <2> QED BY <1>1, <1>3, <2>1, SameRoundBySame DEF ReachKept, OutOfReach, Addressable
<1> QED BY <1>2, <1>3

LEMMA ReachStays ==
    ASSUME IInv, Next, NEW q \in Rounds
    PROVE  ReachKept(q)
<1>1. /\ games \in [Rounds -> GameGround] /\ config.game_round \in Rounds
      /\ config.game_round \in Nat /\ q \in Nat
  BY BoundsAssumption DEF IInv, TypeOK, ConfigData, Rounds
<1>2. ASSUME games'[q] = games[q], config'.game_round = config.game_round, paid' = paid
      PROVE  ReachKept(q)
  BY <1>1, <1>2, SameRoundBySame DEF ReachKept, OutOfReach, Addressable
<1>3. ASSUME NEW payer \in Wallets, NEW c \in Configs,
             NEW n \in {config.game_round} \cup CounterResets,
             Configure(payer, [c EXCEPT !.game_round = n])
      PROVE  ReachKept(q)
  <2>1. config'.game_round = n /\ games' = games /\ paid' = paid
    BY <1>3, ConfigsAssumption DEF Configure, ConfigData
  <2>2. n \in Nat
    <3>1. CounterResets \subseteq Nat
      BY ConfigsAssumption, BoundsAssumption DEF Rounds
    <3> QED BY <1>1, <3>1
  <2>3. CASE n = config.game_round
    BY <1>2, <2>1, <2>3
  <2>4. CASE n \in CounterResets
    <3>1. OutOfReach(q)' => n <= q
      BY <1>1, <2>1, <2>2 DEF OutOfReach, Addressable
    <3>2. n <= q => TakenOut(q)
      BY <1>3, <2>4 DEF TakenOut
    <3> QED BY <1>1, <2>1, <3>1, <3>2, SameRoundBySame DEF ReachKept
  <2> QED BY <2>3, <2>4
<1>4. ASSUME NEW f \in Forces, NEW t \in RoundTimes, NEW d \in MinDeposits,
             NEW j \in JoinerLimits, CreateGame(f, t, d, j)
      PROVE  ReachKept(q)
  <2>1. config'.game_round = config.game_round + 1 /\ paid' = paid
    BY <1>4 DEF CreateGame, NextCounter, IInv, TypeOK, ConfigData
  <2>2. ~games[config.game_round].exists
    BY <1>4 DEF CreateGame, Vacant
  <2>3. q # config.game_round => games'[q] = games[q]
    BY <1>1, <1>4 DEF CreateGame
  <2>4. CASE q = config.game_round
    BY <1>1, <2>1, <2>2, <2>4 DEF ReachKept, OutOfReach, Addressable
  <2>5. CASE q # config.game_round
    BY <1>1, <2>1, <2>3, <2>5, SameRoundBySame DEF ReachKept, OutOfReach, Addressable
  <2> QED BY <2>4, <2>5
<1>5. ASSUME NEW r \in Rounds, NEW p \in Players, NEW a \in DepositAmounts, JoinGame(r, p, a)
      PROVE  ReachKept(q)
  <2> DEFINE fee == BpsMul(config.platform_fee, a)
             applied == AmountApplied(a, fee)
             h == Joined(games[r], p, applied)
  <2>1. applied \in Nat
    <3>1. a \in Nat /\ fee \in Nat
      BY InputsAssumption, FeeIsNat DEF IInv, TypeOK, ConfigData
    <3>2. fee <= a
      BY <1>5 DEF JoinGame, FeeFits
    <3> HIDE DEF fee
    <3> QED BY <3>1, <3>2 DEF AmountApplied
  <2>2. Addressable(r) /\ games' = [games EXCEPT ![r] = h] /\ config' = config /\ paid' = paid
    BY <1>5 DEF JoinGame, Joined
  <2> HIDE DEF applied, fee
  <2>3. h.exists = games[r].exists
    BY <1>1, <2>1, JoinedFields DEF IInv, SameDraw
  <2> HIDE DEF h
  <2> QED BY <2>2, <2>3, ReachKeptByOthers
<1>6. ASSUME NEW r \in Rounds, SetWinner(r)
      PROVE  ReachKept(q)
  <2> DEFINE h == WithWinner(games[r], CurrentState(games[r].force))
  <2>1. Addressable(r) /\ games' = [games EXCEPT ![r] = h] /\ config' = config /\ paid' = paid
    BY <1>6 DEF SetWinner
  <2>2. h.exists = games[r].exists
    BY <1>1 DEF WithWinner, GameGround
  <2> HIDE DEF h
  <2> QED BY <2>1, <2>2, ReachKeptByOthers
<1>7. ASSUME NEW r \in Rounds, ClaimReward(r)
      PROVE  ReachKept(q)
  <2> DEFINE h == AfterClaim(games[r])
  <2>1. Addressable(r) /\ games' = [games EXCEPT ![r] = h] /\ config' = config
    BY <1>7 DEF ClaimReward
  <2>2. q # r => paid'[q] = paid[q]
    BY <1>7 DEF ClaimReward, IInv, TypeOK
  <2>3. h.exists = games[r].exists
    BY <1>1, AfterClaimFields
  <2> HIDE DEF h
  <2> QED BY <2>1, <2>2, <2>3, ReachKeptByOthers
<1>8. ASSUME NEW w \in Donors, NEW r \in Rounds, NEW a \in Gifts, EndowRound(w, r, a)
      PROVE  ReachKept(q)
  <2>1. games' = [games EXCEPT ![r] = Endowed(games[r], a)]
    BY <1>8, EndowRoundStep
  <2>2. config' = config /\ paid' = paid
    BY <1>8 DEF EndowRound
  <2>3. CASE q = r
    <3>1. games'[q] = Endowed(games[q], a)
      BY <1>1, <2>1, <2>3
    <3>2. games[q] \in GameGround
      BY <1>1
    <3>3. SameRound(games[q], games'[q]) /\ games'[q].exists = games[q].exists
      BY <3>1, <3>2 DEF SameRound, Endowed, GameGround
    <3> QED BY <2>2, <3>3 DEF ReachKept, OutOfReach, Addressable
  <2>4. CASE q # r
    <3>1. games'[q] = games[q]
      BY <1>1, <2>1, <2>4
    <3> QED BY <1>2, <2>2, <3>1
  <2> QED BY <2>3, <2>4
<1>9. ASSUME games' = games, config' = config, paid' = paid
      PROVE  ReachKept(q)
  BY <1>2, <1>9
<1> QED BY <1>3, <1>4, <1>5, <1>6, <1>7, <1>8, <1>9 DEF Next, Fulfill, Tick, EndowVault

(***************************************************************************)
(* Whatever counter configure writes: a round is within reach from its     *)
(* creation on, only a configure takes it out, and out of reach nothing    *)
(* but its lamports changes.                                               *)
(***************************************************************************)
THEOREM RoundsWait == Spec => RoundsWaitForTheCounter
<1>1. IInv /\ [Next]_vars => [\A r \in Rounds : ReachKept(r)]_vars
  BY ReachStays
<1> QED BY <1>1, Invariance, PTL
        DEF Spec, RoundsWaitForTheCounter, ReachKept

(***************************************************************************)
(* Whenever lamports leave the vault for a round, it is the whole pot of a *)
(* completed round that was never paid before, and the only wallet that    *)
(* changes is the winner's (claim_reward).                                 *)
(***************************************************************************)
THEOREM PaysOnce == Spec => PaysPotOnceToWinner
<1> DEFINE Pays(r) ==
              paid'[r] # paid[r] =>
                 /\ paid[r] = 0
                 /\ paid'[r] = games[r].total_deposit
                 /\ games[r].is_completed
                 /\ wallet' = [wallet EXCEPT ![games[r].winner] = @ + paid'[r]]
<1>1. ASSUME IInv, Next, NEW q \in Rounds
      PROVE  Pays(q)
  <2>1. CASE paid' = paid
    BY <2>1
  <2>2. ASSUME NEW r \in Rounds, ClaimReward(r)
        PROVE  Pays(q)
    <3>1. paid \in [Rounds -> Nat] /\ games[r] \in GameGround /\ RoundInv(games[r], paid[r])
      BY <1>1 DEF IInv, TypeOK
    <3>2. games[r].total_deposit \in Nat
      BY <3>1 DEF GameGround
    <3>3. paid[r] = 0
      BY <2>2, <3>1 DEF ClaimReward, RoundInv
    <3>4. /\ paid' = [paid EXCEPT ![r] = paid[r] + games[r].total_deposit]
          /\ wallet' = [wallet EXCEPT ![games[r].winner] = @ + games[r].total_deposit]
          /\ games[r].is_completed
      BY <2>2 DEF ClaimReward
    <3>5. paid' = [paid EXCEPT ![r] = games[r].total_deposit]
      <4>1. paid[r] + games[r].total_deposit = games[r].total_deposit
        BY <3>2, <3>3
      <4> QED BY <3>4, <4>1
    <3>6. CASE q = r
      <4>1. paid'[q] = games[q].total_deposit
        BY <3>1, <3>5, <3>6
      <4> QED BY <3>3, <3>4, <3>6, <4>1
    <3>7. CASE q # r
      <4>1. paid'[q] = paid[q]
        BY <3>1, <3>5, <3>7
      <4> QED BY <4>1
    <3> QED BY <3>6, <3>7
  <2>3. CASE ~ \E r \in Rounds : ClaimReward(r)
    <3>1. paid' = paid
      <4>1. CASE \E payer \in Wallets, c \in Configs,
                    n \in {config.game_round} \cup CounterResets :
                    Configure(payer, [c EXCEPT !.game_round = n])
        BY <4>1 DEF Configure
      <4>2. CASE \E f \in Forces, t \in RoundTimes, d \in MinDeposits, j \in JoinerLimits :
                    CreateGame(f, t, d, j)
        BY <4>2 DEF CreateGame
      <4>3. CASE \E r \in Rounds, p \in Players, a \in DepositAmounts : JoinGame(r, p, a)
        BY <4>3 DEF JoinGame
      <4>4. CASE \E r \in Rounds : SetWinner(r)
        BY <4>4 DEF SetWinner
      <4>5. CASE (\E f \in Forces, v \in RandomValues : Fulfill(f, v)) \/ Tick
        BY <4>5 DEF Fulfill, Tick
      <4>6. CASE \/ \E w \in Donors, a \in Gifts : EndowVault(w, a)
                 \/ \E w \in Donors, r \in Rounds, a \in Gifts : EndowRound(w, r, a)
        BY <4>6 DEF EndowVault, EndowRound
      <4> QED BY <1>1, <2>3, <4>1, <4>2, <4>3, <4>4, <4>5, <4>6 DEF Next
    <3> QED BY <2>1, <3>1
  <2> HIDE DEF Pays
  <2> QED BY <2>2, <2>3
<1>2. IInv /\ [Next]_vars => [\A r \in Rounds : Pays(r)]_vars
  BY <1>1
<1> QED BY <1>2, Invariance, PTL DEF Spec, PaysPotOnceToWinner

-----------------------------------------------------------------------------
(***************************************************************************)
(* When a round is open.  What a step does to one round: it leaves the     *)
(* round as it is played, or opens it, or takes a deposit, or draws it.    *)
(***************************************************************************)
SamePlay(g, h) ==
    /\ h.exists = g.exists
    /\ h.force = g.force
    /\ h.start_date = g.start_date
    /\ h.end_date = g.end_date
    /\ h.round_time = g.round_time
    /\ h.deposit_list = g.deposit_list
    /\ h.user_count = g.user_count
    /\ h.total_deposit = g.total_deposit
    /\ h.winner = g.winner
    /\ h.is_completed = g.is_completed

Opens(r) ==
    /\ games[r].user_count = 0
    /\ games'[r].user_count = 0
    /\ games'[r].start_date = 0
    /\ games'[r].end_date = 0
    /\ ~games'[r].is_completed

Takes(r, user, amount) ==
    /\ OpenToJoin(games[r])
    /\ games'[r] = Joined(games[r], user, amount)
    /\ now' = now

Draws(r) ==
    /\ Ended(games[r])
    /\ games'[r] = WithWinner(games[r], CurrentState(games[r].force))
    /\ now' = now

LEMMA JoinedClock ==
    ASSUME TypeOK, NEW g \in GameGround, NEW user \in Players, NEW amount \in Nat
    PROVE  LET h == Joined(g, user, amount)
           IN  /\ h.round_time = g.round_time
               /\ h.start_date = IF h.user_count = 2 THEN now ELSE g.start_date
               /\ h.end_date = IF h.user_count = 2 THEN now + g.round_time ELSE g.end_date
<1> DEFINE s == Resized(g)
           d == WithDeposit(s, user, amount)
           h == WithClock(d)
<1>1. s \in GameGround /\ d \in GameGround
  BY ResizedType, WithDepositType
<1>2. s.start_date = g.start_date /\ s.end_date = g.end_date /\ s.round_time = g.round_time
  BY DEF Resized, GameGround
<1> HIDE DEF s
<1>3. d.start_date = s.start_date /\ d.end_date = s.end_date /\ d.round_time = s.round_time
  BY <1>1 DEF WithDeposit, GameGround
<1> HIDE DEF d
<1>4. /\ h.user_count = d.user_count
      /\ h.round_time = d.round_time
      /\ h.start_date = IF d.user_count = 2 THEN now ELSE d.start_date
      /\ h.end_date = IF d.user_count = 2 THEN now + d.round_time ELSE d.end_date
  BY <1>1 DEF WithClock, GameGround
<1>5. Joined(g, user, amount) = h
  BY DEF Joined, s, d
<1> HIDE DEF h
<1> QED BY <1>2, <1>3, <1>4, <1>5

LEMMA RoundSteps ==
    ASSUME IInv, Next, NEW q \in Rounds
    PROVE  \/ SamePlay(games[q], games'[q])
           \/ Opens(q)
           \/ \E user \in Players, amount \in Nat : Takes(q, user, amount)
           \/ Draws(q)
<1> DEFINE Goal ==
              \/ SamePlay(games[q], games'[q])
              \/ Opens(q)
              \/ \E user \in Players, amount \in Nat : Takes(q, user, amount)
              \/ Draws(q)
<1>1. games \in [Rounds -> GameGround] /\ games[q] \in GameGround
  BY DEF IInv, TypeOK
<1>2. games'[q] = games[q] => Goal
  BY DEF SamePlay
<1>3. ASSUME NEW f \in Forces, NEW t \in RoundTimes, NEW d \in MinDeposits,
             NEW j \in JoinerLimits, CreateGame(f, t, d, j)
      PROVE  Goal
  <2> DEFINE r == config.game_round
             h == NewGame(games[r].lamports, f, t, d, j)
  <2>1. r \in Rounds /\ games' = [games EXCEPT ![r] = h] /\ ~games[r].exists
    BY <1>3 DEF CreateGame, Vacant, IInv, TypeOK, ConfigData
  <2>2. Blank(games[r])
    BY <2>1 DEF IInv, RoundInv
  <2>3. games[r].user_count = 0
    BY <2>2 DEF Blank, NoGame
  <2>4. h.user_count = 0 /\ h.start_date = 0 /\ h.end_date = 0 /\ ~h.is_completed
    BY DEF NewGame, NoGame
  <2> HIDE DEF h, r
  <2>5. CASE q = r
    BY <1>1, <2>1, <2>3, <2>4, <2>5 DEF Opens
  <2>6. CASE q # r
    BY <1>1, <1>2, <2>1, <2>6
  <2> QED BY <2>5, <2>6
<1>4. ASSUME NEW r \in Rounds, NEW p \in Players, NEW a \in DepositAmounts, JoinGame(r, p, a)
      PROVE  Goal
  <2> DEFINE fee == BpsMul(config.platform_fee, a)
             applied == AmountApplied(a, fee)
  <2>1. applied \in Nat
    <3>1. a \in Nat /\ fee \in Nat
      BY InputsAssumption, FeeIsNat DEF IInv, TypeOK, ConfigData
    <3>2. fee <= a
      BY <1>4 DEF JoinGame, FeeFits
    <3> HIDE DEF fee
    <3> QED BY <3>1, <3>2 DEF AmountApplied
  <2>2. /\ games' = [games EXCEPT ![r] = Joined(games[r], p, applied)]
        /\ OpenToJoin(games[r])
        /\ now' = now
    BY <1>4 DEF JoinGame, Joined
  <2> HIDE DEF applied, fee
  <2>3. CASE q = r
    <3>1. Takes(q, p, applied)
      BY <1>1, <2>2, <2>3 DEF Takes
    <3> QED BY <2>1, <3>1
  <2>4. CASE q # r
    BY <1>1, <1>2, <2>2, <2>4
  <2> QED BY <2>3, <2>4
<1>5. ASSUME NEW r \in Rounds, SetWinner(r)
      PROVE  Goal
  <2>1. /\ games' = [games EXCEPT ![r] = WithWinner(games[r], CurrentState(games[r].force))]
        /\ Ended(games[r])
        /\ now' = now
    BY <1>5 DEF SetWinner
  <2>2. CASE q = r
    BY <1>1, <2>1, <2>2 DEF Draws
  <2>3. CASE q # r
    BY <1>1, <1>2, <2>1, <2>3
  <2> QED BY <2>2, <2>3
<1>6. ASSUME NEW r \in Rounds, ClaimReward(r)
      PROVE  Goal
  <2>1. SamePlay(games[r], AfterClaim(games[r]))
    BY <1>1 DEF SamePlay, AfterClaim, GameGround
  <2>2. games' = [games EXCEPT ![r] = AfterClaim(games[r])]
    BY <1>6 DEF ClaimReward
  <2>3. CASE q = r
    BY <1>1, <2>1, <2>2, <2>3
  <2>4. CASE q # r
    BY <1>1, <1>2, <2>2, <2>4
  <2> QED BY <2>3, <2>4
<1>7. ASSUME NEW w \in Donors, NEW r \in Rounds, NEW a \in Gifts, EndowRound(w, r, a)
      PROVE  Goal
  <2>1. SamePlay(games[r], Endowed(games[r], a))
    BY <1>1 DEF SamePlay, Endowed, GameGround
  <2>2. games' = [games EXCEPT ![r] = Endowed(games[r], a)]
    BY <1>7, EndowRoundStep
  <2>3. CASE q = r
    BY <1>1, <2>1, <2>2, <2>3
  <2>4. CASE q # r
    BY <1>1, <1>2, <2>2, <2>4
  <2> QED BY <2>3, <2>4
<1>8. games' = games => Goal
  BY <1>2
<1> HIDE DEF Goal
<1>9. Goal
  BY <1>3, <1>4, <1>5, <1>6, <1>7, <1>8 DEF Next, Configure, Fulfill, Tick, EndowVault
<1> QED BY <1>9 DEF Goal

LEMMA TimePasses ==
    ASSUME Next
    PROVE  now' = now \/ now' = now + 1
<1>1. CASE \E payer \in Wallets, c \in Configs, n \in {config.game_round} \cup CounterResets :
              Configure(payer, [c EXCEPT !.game_round = n])
  BY <1>1 DEF Configure
<1>2. CASE \E f \in Forces, t \in RoundTimes, d \in MinDeposits, j \in JoinerLimits :
              CreateGame(f, t, d, j)
  BY <1>2 DEF CreateGame
<1>3. CASE \E r \in Rounds, p \in Players, a \in DepositAmounts : JoinGame(r, p, a)
  BY <1>3 DEF JoinGame
<1>4. CASE \E r \in Rounds : SetWinner(r) \/ ClaimReward(r)
  BY <1>4 DEF SetWinner, ClaimReward
<1>5. CASE (\E f \in Forces, v \in RandomValues : Fulfill(f, v)) \/ Tick
  BY <1>5 DEF Fulfill, Tick
<1>6. CASE \/ \E w \in Donors, a \in Gifts : EndowVault(w, a)
           \/ \E w \in Donors, r \in Rounds, a \in Gifts : EndowRound(w, r, a)
  BY <1>6 DEF EndowVault, EndowRound
<1> QED BY <1>1, <1>2, <1>3, <1>4, <1>5, <1>6 DEF Next

LEMMA AnswersStay ==
    ASSUME TypeOK, Next, NEW f \in Forces, random[f].status = "fulfilled"
    PROVE  random'[f] = random[f]
<1>1. random \in [Forces -> Randomness]
  BY DEF TypeOK
<1>2. CASE \E e \in Forces, t \in RoundTimes, d \in MinDeposits, j \in JoinerLimits :
              CreateGame(e, t, d, j)
  <2>1. PICK e \in Forces : /\ random[e].status = "none"
                            /\ random' = [random EXCEPT ![e].status = "pending"]
    BY <1>2 DEF CreateGame
  <2> QED BY <1>1, <2>1
<1>3. CASE \E e \in Forces, v \in RandomValues : Fulfill(e, v)
  BY <1>1, <1>3 DEF Fulfill
<1>4. CASE \E payer \in Wallets, c \in Configs, n \in {config.game_round} \cup CounterResets :
              Configure(payer, [c EXCEPT !.game_round = n])
  BY <1>4 DEF Configure
<1>5. CASE \E r \in Rounds, p \in Players, a \in DepositAmounts : JoinGame(r, p, a)
  BY <1>5 DEF JoinGame
<1>6. CASE \E r \in Rounds : SetWinner(r) \/ ClaimReward(r)
  BY <1>6 DEF SetWinner, ClaimReward
<1>7. CASE \/ Tick
           \/ \E w \in Donors, a \in Gifts : EndowVault(w, a)
           \/ \E w \in Donors, r \in Rounds, a \in Gifts : EndowRound(w, r, a)
  BY <1>7 DEF Tick, EndowVault, EndowRound
<1> QED BY <1>2, <1>3, <1>4, <1>5, <1>6, <1>7 DEF Next

(***************************************************************************)
(* The clock of a round runs from its second user on: join_game starts it  *)
(* when the count is two, the count grows by one at most, and only the     *)
(* clock of the ledger moves otherwise.                                    *)
(***************************************************************************)
RoundClock(g) ==
    IF g.user_count < 2
    THEN g.start_date = 0 /\ g.end_date = 0
    ELSE g.start_date \in 1..now /\ g.end_date = g.start_date + g.round_time

LEMMA TakesClock ==
    ASSUME TypeOK, NEW q \in Rounds, NEW user \in Players, NEW amount \in Nat,
           Takes(q, user, amount)
    PROVE  /\ games'[q].user_count \in {games[q].user_count, games[q].user_count + 1}
           /\ games'[q].round_time = games[q].round_time
           /\ games'[q].start_date =
                 IF games'[q].user_count = 2 THEN now ELSE games[q].start_date
           /\ games'[q].end_date =
                 IF games'[q].user_count = 2 THEN now + games[q].round_time
                 ELSE games[q].end_date
           /\ SameDraw(games[q], games'[q])
           /\ games'[q].total_deposit = games[q].total_deposit + amount
<1>1. games[q] \in GameGround
  BY DEF TypeOK
<1> DEFINE h == Joined(games[q], user, amount)
<1>2. /\ h.round_time = games[q].round_time
      /\ h.start_date = IF h.user_count = 2 THEN now ELSE games[q].start_date
      /\ h.end_date = IF h.user_count = 2 THEN now + games[q].round_time
                      ELSE games[q].end_date
  BY <1>1, JoinedClock
<1>3. /\ SameDraw(games[q], h)
      /\ h.user_count = IF HasEntry(games[q], user) THEN games[q].user_count
                        ELSE games[q].user_count + 1
      /\ h.total_deposit = games[q].total_deposit + amount
  BY <1>1, JoinedFields
<1>4. games'[q] = h
  BY DEF Takes
<1> HIDE DEF h
<1> QED BY <1>2, <1>3, <1>4

THEOREM ClockRuns == Spec => []ClockRunsWithTwoUsers
<1>1. Init => ClockRunsWithTwoUsers
  BY DEF Init, NoGame, ClockRunsWithTwoUsers
<1>2. ASSUME IInv, ClockRunsWithTwoUsers, Next, NEW q \in Rounds
      PROVE  RoundClock(games[q])'
  <2>1. games[q] \in GameGround /\ now \in 1..MaxI64 /\ MaxI64 \in Nat
    BY <1>2, BoundsAssumption DEF IInv, TypeOK
  <2>2. now \in Nat /\ now >= 1 /\ games[q].user_count \in Nat
    BY <2>1 DEF GameGround
  <2>3. RoundClock(games[q])
    BY <1>2 DEF ClockRunsWithTwoUsers, RoundClock
  <2>4. now' \in Nat /\ now' >= now
    BY <1>2, <2>2, TimePasses
  <2>5. CASE SamePlay(games[q], games'[q])
    BY <2>2, <2>3, <2>4, <2>5 DEF SamePlay, RoundClock
  <2>6. CASE Opens(q)
    BY <2>6 DEF Opens, RoundClock
  <2>7. ASSUME NEW user \in Players, NEW amount \in Nat, Takes(q, user, amount)
        PROVE  RoundClock(games[q])'
    <3>1. TypeOK
      BY <1>2 DEF IInv
    <3> QED BY <2>2, <2>3, <2>4, <2>7, <3>1, TakesClock DEF RoundClock
  <2>8. CASE Draws(q)
    <3>1. /\ games'[q].user_count = games[q].user_count
          /\ games'[q].start_date = games[q].start_date
          /\ games'[q].end_date = games[q].end_date
          /\ games'[q].round_time = games[q].round_time
      BY <2>1, <2>8 DEF Draws, WithWinner, GameGround
    <3> QED BY <2>2, <2>3, <2>4, <3>1 DEF RoundClock
  <2> QED BY <1>2, <2>5, <2>6, <2>7, <2>8, RoundSteps
<1>3. IInv /\ ClockRunsWithTwoUsers /\ [Next]_vars => ClockRunsWithTwoUsers'
  <2>1. ASSUME IInv, ClockRunsWithTwoUsers, Next
        PROVE  ClockRunsWithTwoUsers'
    BY <1>2, <2>1 DEF ClockRunsWithTwoUsers, RoundClock
  <2>2. ClockRunsWithTwoUsers /\ UNCHANGED vars => ClockRunsWithTwoUsers'
    BY DEF ClockRunsWithTwoUsers, vars
  <2> QED BY <2>1, <2>2
<1> QED BY <1>1, <1>3, Invariance, PTL DEF Spec

(***************************************************************************)
(* set_winner draws a round of two or more users only when its time is     *)
(* over: the deadline it tests is the start plus the whole round_time,     *)
(* because ClockRunsWithTwoUsers holds before the draw.                    *)
(***************************************************************************)
THEOREM DrawsWait == Spec => DrawsWaitForTheClock
<1> DEFINE Waits(r) ==
              (~games[r].is_completed /\ games'[r].is_completed /\ games[r].user_count >= 2)
              => games[r].start_date > 0 /\ games[r].start_date + games[r].round_time <= now
<1>1. ASSUME IInv, ClockRunsWithTwoUsers, Next, NEW q \in Rounds
      PROVE  Waits(q)
  <2>1. TypeOK /\ games[q] \in GameGround /\ now \in Int
    BY <1>1, BoundsAssumption DEF IInv, TypeOK
  <2>2. games[q].user_count \in Nat
    BY <2>1 DEF GameGround
  <2>3. CASE SamePlay(games[q], games'[q]) \/ Opens(q)
    BY <2>3 DEF SamePlay, Opens
  <2>4. ASSUME NEW user \in Players, NEW amount \in Nat, Takes(q, user, amount)
        PROVE  Waits(q)
    BY <2>1, <2>4, TakesClock DEF SameDraw
  <2>5. CASE Draws(q)
    BY <1>1, <2>1, <2>2, <2>5 DEF Draws, Ended, ClockRunsWithTwoUsers
  <2> QED BY <1>1, <2>3, <2>4, <2>5, RoundSteps
<1>2. IInv /\ ClockRunsWithTwoUsers /\ [Next]_vars => [\A r \in Rounds : Waits(r)]_vars
  BY <1>1
<1> QED BY <1>2, ClockRuns, Invariance, PTL DEF Spec, DrawsWaitForTheClock

(***************************************************************************)
(* With three users or more, a join neither starts the clock, which takes  *)
(* exactly two, nor gets past OpenToJoin after the deadline or the draw;   *)
(* and no other instruction touches the clock or the deposits.             *)
(***************************************************************************)
FullKept(r) ==
    games[r].user_count > 2 =>
        /\ games'[r].user_count > 2
        /\ games'[r].start_date = games[r].start_date
        /\ games'[r].end_date = games[r].end_date
        /\ Closed(games[r]) => Deposits(games'[r]) = Deposits(games[r])

LEMMA FullRoundKept ==
    ASSUME IInv, Next, NEW q \in Rounds
    PROVE  FullKept(q)
<1>1. TypeOK /\ games[q] \in GameGround /\ now \in Int
  BY BoundsAssumption DEF IInv, TypeOK
<1>2. games[q].user_count \in Nat /\ games[q].end_date \in Nat
  BY <1>1 DEF GameGround
<1>3. CASE SamePlay(games[q], games'[q])
  BY <1>3 DEF SamePlay, FullKept, Deposits
<1>4. CASE Opens(q)
  BY <1>4 DEF Opens, FullKept
<1>5. ASSUME NEW user \in Players, NEW amount \in Nat, Takes(q, user, amount)
      PROVE  FullKept(q)
  <2>1. OpenToJoin(games[q])
    BY <1>5 DEF Takes
  <2>2. ~Closed(games[q])
    BY <1>1, <1>2, <2>1 DEF OpenToJoin, Closed
  <2>3. games[q].user_count > 2 =>
           games'[q].user_count > 2 /\ games'[q].user_count # 2
    BY <1>1, <1>2, <1>5, TakesClock
  <2> QED BY <1>1, <1>5, <2>2, <2>3, TakesClock DEF FullKept
<1>6. CASE Draws(q)
  <2>1. /\ games'[q].user_count = games[q].user_count
        /\ games'[q].start_date = games[q].start_date
        /\ games'[q].end_date = games[q].end_date
        /\ games'[q].deposit_list = games[q].deposit_list
        /\ games'[q].total_deposit = games[q].total_deposit
    BY <1>1, <1>6 DEF Draws, WithWinner, GameGround
  <2> QED BY <2>1 DEF FullKept, Deposits
<1> QED BY <1>3, <1>4, <1>5, <1>6, RoundSteps

THEOREM FullRoundsStayClosed == Spec => FullRoundsClose
<1>1. IInv /\ [Next]_vars => [\A r \in Rounds : FullKept(r)]_vars
  BY FullRoundKept
<1> QED BY <1>1, Invariance, PTL DEF Spec, FullRoundsClose, FullKept

(***************************************************************************)
(* The winner of a decided round: what set_winner computes depends on the  *)
(* deposits, which the closed round keeps, and on the oracle's answer,     *)
(* which stays.                                                            *)
(***************************************************************************)
DecisionKept(r) ==
    Decided(r) /\ ~games[r].is_completed =>
        /\ Decided(r)'
        /\ IF games'[r].is_completed
           THEN games'[r].winner = WinnerToBe(r)
           ELSE WinnerToBe(r)' = WinnerToBe(r)

LEMMA WinnerOf ==
    ASSUME NEW g \in GameGround, NEW word
    PROVE  /\ WithWinner(g, word).winner =
                 IF HasStop(g.deposit_list, Ticket(g.total_deposit, word))
                 THEN DrawnUser(g.deposit_list, Ticket(g.total_deposit, word))
                 ELSE g.winner
           /\ WithWinner(g, word).is_completed
           /\ WithWinner(g, word).force = g.force
BY DEF WithWinner, GameGround

LEMMA DecisionStays ==
    ASSUME IInv, Next, NEW q \in Rounds
    PROVE  DecisionKept(q)
<1> SUFFICES ASSUME Decided(q), ~games[q].is_completed
             PROVE  /\ Decided(q)'
                    /\ IF games'[q].is_completed
                       THEN games'[q].winner = WinnerToBe(q)
                       ELSE WinnerToBe(q)' = WinnerToBe(q)
  BY DEF DecisionKept
<1> DEFINE g == games[q]
           h == games'[q]
           f == g.force
<1>1. TypeOK /\ TypeOK' /\ g \in GameGround /\ h \in GameGround
  <2>1. TypeOK /\ TypeOK'
    BY NextTypeOK DEF IInv
  <2> QED BY <2>1 DEF TypeOK
<1>2. /\ now \in Int /\ now' >= now
      /\ g.user_count \in Nat /\ g.end_date \in Nat
  <2>1. now \in Int
    BY <1>1, BoundsAssumption DEF TypeOK
  <2>2. now' >= now
    BY <2>1, TimePasses
  <2>3. g.user_count \in Nat /\ g.end_date \in Nat
    BY <1>1 DEF GameGround
  <2> QED BY <2>1, <2>2, <2>3
<1>3. Closed(g) /\ g.user_count > 2 /\ g.end_date <= now
  BY DEF Decided, Closed
<1>4. f \in Forces
  <2>1. g.exists
    <3>1. ~g.exists => Blank(g)
      BY DEF IInv, RoundInv
    <3>2. Blank(g) => g.user_count = 0
      BY DEF Blank, NoGame
    <3> QED BY <1>3, <3>1, <3>2
  <2> QED BY <1>1, <2>1 DEF TypeOK
<1>5. random[f].status = "fulfilled" /\ random'[f] = random[f]
  BY <1>1, <1>4, AnswersStay DEF Decided
<1>6. /\ h.user_count > 2 /\ h.end_date = g.end_date
      /\ h.deposit_list = g.deposit_list /\ h.total_deposit = g.total_deposit
  BY <1>3, FullRoundKept DEF FullKept, Deposits
<1>7. h.force = f => CurrentState(g.force)' = CurrentState(f)
  BY <1>5 DEF CurrentState
<1>8. ASSUME h.force = f
      PROVE  Decided(q)'
  <2>1. h.end_date <= now'
    <3>1. now' \in Int
      BY <1>1, BoundsAssumption DEF TypeOK
    <3> QED BY <1>2, <1>3, <1>6, <3>1
  <2>2. h.user_count > 2 /\ h.total_deposit > 0 /\ random'[h.force].status = "fulfilled"
    BY <1>5, <1>6, <1>8 DEF Decided
  <2> QED BY <2>1, <2>2 DEF Decided, Closed
<1>9. CASE SamePlay(g, h)
  <2>1. h.force = f /\ h.winner = g.winner /\ h.is_completed = g.is_completed
    BY <1>9 DEF SamePlay
  <2>2. WithWinner(h, CurrentState(f)).winner = WithWinner(g, CurrentState(f)).winner
    BY <1>1, <1>6, <2>1, WinnerOf
  <2>3. WinnerToBe(q)' = WithWinner(h, CurrentState(f)).winner
    BY <1>7, <2>1 DEF WinnerToBe
  <2> QED BY <1>8, <2>1, <2>2, <2>3 DEF WinnerToBe
<1>10. CASE Opens(q)
  BY <1>3, <1>10 DEF Opens
<1>11. ASSUME NEW user \in Players, NEW amount \in Nat, Takes(q, user, amount)
       PROVE  FALSE
  BY <1>2, <1>3, <1>11 DEF Takes, OpenToJoin
<1>12. CASE Draws(q)
  <2>1. h = WithWinner(g, CurrentState(f))
    BY <1>12 DEF Draws
  <2>2. h.is_completed /\ h.force = f /\ h.winner = WinnerToBe(q)
    BY <1>1, <2>1, WinnerOf DEF WinnerToBe
  <2> QED BY <1>8, <2>2
<1> QED BY <1>9, <1>10, <1>11, <1>12, RoundSteps

THEOREM OutcomeFixed == Spec => OutcomeIsFixed
<1>1. IInv /\ [Next]_vars => [\A r \in Rounds : DecisionKept(r)]_vars
  BY DecisionStays
<1> QED BY <1>1, Invariance, PTL DEF Spec, OutcomeIsFixed, DecisionKept

(***************************************************************************)
(* For ever: if at some moment round r has closed with three users or      *)
(* more, the oracle has answered, and the draw would name w, then whenever *)
(* set_winner is called, if it ever is, and for all time after it, the     *)
(* winner is w.                                                            *)
(***************************************************************************)
THEOREM DecidedForGood ==
    ASSUME NEW CONSTANT r \in Rounds, NEW CONSTANT w
    PROVE  Spec => [](Decided(r) /\ ~games[r].is_completed /\ WinnerToBe(r) = w
                      => [](games[r].is_completed => games[r].winner = w))
<1> DEFINE Pending == Decided(r) /\ ~games[r].is_completed /\ WinnerToBe(r) = w
           Drawn == games[r].is_completed /\ games[r].winner = w
           Kept == games[r].is_completed => games[r].winner = w
<1>1. ASSUME IInv, Pending \/ Drawn, Next
      PROVE  Pending' \/ Drawn'
  <2>1. CASE Pending
    BY <1>1, <2>1, DecisionStays DEF DecisionKept
  <2>2. CASE Drawn
    BY <1>1, <2>2, DrawStays DEF DrawKept
  <2> QED BY <1>1, <2>1, <2>2
<1>2. (Pending \/ Drawn) /\ UNCHANGED vars => Pending' \/ Drawn'
  BY DEF vars, Decided, Closed, WinnerToBe, CurrentState
<1>3. IInv /\ (Pending \/ Drawn) /\ [Next]_vars => (Pending \/ Drawn)'
  BY <1>1, <1>2
<1>4. Pending \/ Drawn => Kept
  OBVIOUS
<1> HIDE DEF Pending, Drawn, Kept
<1>5. Spec => [](Pending => []Kept)
  BY <1>3, <1>4, Invariance, PTL DEF Spec
<1> QED BY <1>5 DEF Pending, Kept

-----------------------------------------------------------------------------
(***************************************************************************)
(* The program implements the escrow.  The mapping, named:                 *)
(***************************************************************************)
Pot == [r \in Rounds |-> games[r].total_deposit]
Backers == [r \in Rounds |-> StakeHolders(games[r])]
Beneficiary == [r \in Rounds |-> games[r].winner]
Settled == [r \in Rounds |-> games[r].is_claimed]

LEMMA MappedUnchanged ==
    ASSUME UNCHANGED <<games, vault, paid, reserve>>
    PROVE  UNCHANGED E!vars
BY DEF E!vars, StakeHolders

LEMMA InitEscrow == Init => E!Init
<1> SUFFICES ASSUME Init PROVE E!Init
  OBVIOUS
<1>1. \A r \in Rounds : /\ games[r].total_deposit = 0
                        /\ games[r].winner = NoWallet
                        /\ games[r].is_claimed = FALSE
                        /\ games[r].deposit_list = << >>
  BY DEF Init, NoGame
<1>2. \A r \in Rounds : StakeHolders(games[r]) = {}
  BY <1>1 DEF StakeHolders
<1>3. vault = 0 /\ reserve = 0 /\ paid = [r \in Rounds |-> 0]
  BY DEF Init
<1> QED BY <1>1, <1>2, <1>3 DEF E!Init

LEMMA ConfigureEscrow ==
    ASSUME IInv, NEW payer \in Wallets, NEW c, Configure(payer, c)
    PROVE  E!Next
<1>1. games' = games /\ paid' = paid
  BY DEF Configure
<1>2. vault \in Nat /\ reserve \in Nat /\ SeedDue \in Nat
  BY DEF IInv, TypeOK, SeedDue, VaultSeed
<1>3. vault' = vault + SeedDue /\ reserve' = reserve + SeedDue
  BY DEF Configure
<1>4. E!Endow
  BY <1>1, <1>2, <1>3 DEF E!Endow, StakeHolders
<1> QED BY <1>4 DEF E!Next

LEMMA EndowVaultEscrow ==
    ASSUME IInv, NEW w \in Donors, NEW a \in Gifts, EndowVault(w, a)
    PROVE  E!Next
<1>1. games' = games /\ paid' = paid
  BY DEF EndowVault
<1>2. vault \in Nat /\ reserve \in Nat /\ a \in Nat
  BY InputsAssumption DEF IInv, TypeOK
<1>3. vault' = vault + a /\ reserve' = reserve + a
  BY DEF EndowVault
<1>4. E!Endow
  BY <1>1, <1>2, <1>3 DEF E!Endow, StakeHolders
<1> QED BY <1>4 DEF E!Next

LEMMA EndowRoundEscrow ==
    ASSUME IInv, NEW w \in Donors, NEW r \in Rounds, NEW a \in Gifts, EndowRound(w, r, a)
    PROVE  UNCHANGED E!vars
<1> DEFINE h == Endowed(games[r], a)
<1>1. games \in [Rounds -> GameGround] /\ a \in Nat
  BY InputsAssumption DEF IInv, TypeOK
<1>2. games' = [games EXCEPT ![r] = h]
  BY EndowRoundStep
<1>3. /\ h.total_deposit = games[r].total_deposit
      /\ h.winner = games[r].winner
      /\ h.is_claimed = games[r].is_claimed
      /\ h.deposit_list = games[r].deposit_list
  BY <1>1, EndowedFields DEF SameDraw
<1> HIDE DEF h
<1>4. StakeHolders(h) = StakeHolders(games[r])
  BY <1>3 DEF StakeHolders
<1>5. ASSUME NEW q \in Rounds
      PROVE  /\ games'[q].total_deposit = games[q].total_deposit
             /\ games'[q].winner = games[q].winner
             /\ games'[q].is_claimed = games[q].is_claimed
             /\ StakeHolders(games'[q]) = StakeHolders(games[q])
  BY <1>1, <1>2, <1>3, <1>4
<1>6. Pot' = Pot /\ Backers' = Backers /\ Beneficiary' = Beneficiary /\ Settled' = Settled
  BY <1>5 DEF Pot, Backers, Beneficiary, Settled
<1> QED BY <1>6 DEF EndowRound, E!vars, Pot, Backers, Beneficiary, Settled

LEMMA CreateGameEscrow ==
    ASSUME IInv, NEW f \in Forces, NEW t, NEW d, NEW j, CreateGame(f, t, d, j)
    PROVE  UNCHANGED E!vars
<1> DEFINE r == config.game_round
           g == NewGame(games[r].lamports, f, t, d, j)
<1>1. r \in Rounds /\ ~games[r].exists /\ games' = [games EXCEPT ![r] = g]
  BY DEF CreateGame, Vacant, IInv, TypeOK, ConfigData
<1>2. Blank(games[r])
  BY <1>1 DEF IInv, RoundInv
<1>3. /\ g.total_deposit = games[r].total_deposit
      /\ g.winner = games[r].winner
      /\ g.is_claimed = games[r].is_claimed
      /\ g.deposit_list = games[r].deposit_list
  <2>1. /\ g.total_deposit = 0 /\ g.winner = NoWallet /\ g.is_claimed = FALSE
        /\ g.deposit_list = << >>
    BY DEF NewGame, NoGame
  <2> HIDE DEF g
  <2> QED BY <1>2, <2>1, BlankFields
<1>4. StakeHolders(g) = StakeHolders(games[r])
  BY <1>3 DEF StakeHolders
<1>5. vault' = vault /\ paid' = paid /\ reserve' = reserve /\ games \in [Rounds -> GameGround]
  BY DEF CreateGame, IInv, TypeOK
<1> HIDE DEF g, r
<1>6. ASSUME NEW q \in Rounds
      PROVE  /\ games'[q].total_deposit = games[q].total_deposit
             /\ games'[q].winner = games[q].winner
             /\ games'[q].is_claimed = games[q].is_claimed
             /\ StakeHolders(games'[q]) = StakeHolders(games[q])
  BY <1>1, <1>2, <1>3, <1>4, <1>5
<1>7. Pot' = Pot /\ Backers' = Backers /\ Beneficiary' = Beneficiary /\ Settled' = Settled
  BY <1>6 DEF Pot, Backers, Beneficiary, Settled
<1> QED BY <1>5, <1>7 DEF E!vars, Pot, Backers, Beneficiary, Settled

LEMMA JoinGameEscrow ==
    ASSUME IInv, NEW r \in Rounds, NEW p \in Players, NEW a \in DepositAmounts,
           JoinGame(r, p, a)
    PROVE  E!Next
<1> DEFINE g == games[r]
           fee == BpsMul(config.platform_fee, a)
           amount == AmountApplied(a, fee)
           h == Joined(g, p, amount)
<1>1. Configured /\ g \in GameGround /\ RoundInv(g, paid[r])
  BY AddressableConfigured DEF IInv, JoinGame
<1>2. a \in Nat /\ fee \in Nat /\ fee <= a
  BY InputsAssumption, FeeIsNat DEF IInv, TypeOK, ConfigData, JoinGame, FeeFits
<1>3. amount = a - fee /\ amount \in Nat
  BY <1>2 DEF AmountApplied
<1>4. /\ games' = [games EXCEPT ![r] = h]
      /\ vault' = vault + amount
      /\ paid' = paid
      /\ reserve' = reserve
      /\ h.total_deposit <= MaxU64
  BY <1>3 DEF JoinGame, NoOverflow, Joined
<1>5. /\ h.winner = g.winner
      /\ h.is_claimed = g.is_claimed
      /\ h.total_deposit = g.total_deposit + amount
      /\ h.deposit_list = DepositedList(g, p, amount)
  BY <1>1, <1>3, JoinedFields DEF IInv, DepositedList, SameDraw
<1>6. \A w : HasStake(DepositedList(g, p, amount), w) <=>
                HasStake(g.deposit_list, w) \/ (w = p /\ amount > 0)
  BY <1>1, <1>3, DepositedListFields DEF RoundInv
<1>7. p \in Wallets
  BY WalletsAssumption
<1>8. StakeHolders(h) = IF amount > 0 THEN StakeHolders(g) \cup {p} ELSE StakeHolders(g)
  <2>1. StakeHolders(g) = {w \in Wallets : HasStake(g.deposit_list, w)}
    BY DEF StakeHolders, HasStake
  <2>2. StakeHolders(h) = {w \in Wallets : HasStake(h.deposit_list, w)}
    BY DEF StakeHolders, HasStake
  <2> HIDE DEF g, h, amount
  <2> QED BY <1>5, <1>6, <1>7, <2>1, <2>2
<1>9. g.total_deposit \in Nat /\ games \in [Rounds -> GameGround]
  BY <1>1 DEF GameGround, IInv, TypeOK
<1>10. amount \in 0..MaxU64
  <2> HIDE DEF g, h, amount
  <2> QED BY <1>3, <1>4, <1>5, <1>9, BoundsAssumption
<1>11. reserve >= RentMinimum(0)
  BY <1>1 DEF IInv, ReserveInv
<1> HIDE DEF h, amount, fee
<1>12. /\ Pot' = [Pot EXCEPT ![r] = @ + amount]
       /\ Backers' = [Backers EXCEPT ![r] = IF amount > 0 THEN @ \cup {p} ELSE @]
       /\ Beneficiary' = Beneficiary
       /\ Settled' = Settled
  <2>1. games'[r] = h /\ \A q \in Rounds : q # r => games'[q] = games[q]
    BY <1>4, <1>9
  <2>2. ASSUME NEW q \in Rounds
        PROVE  /\ games'[q].total_deposit = IF q = r THEN games[r].total_deposit + amount
                                                     ELSE games[q].total_deposit
               /\ StakeHolders(games'[q]) =
                     IF q = r
                     THEN IF amount > 0 THEN StakeHolders(games[r]) \cup {p}
                                        ELSE StakeHolders(games[r])
                     ELSE StakeHolders(games[q])
               /\ games'[q].winner = games[q].winner
               /\ games'[q].is_claimed = games[q].is_claimed
    BY <1>5, <1>8, <2>1
  <2> QED BY <2>2 DEF Pot, Backers, Beneficiary, Settled
<1>13. PICK x \in 0..MaxU64 : x = amount
  BY <1>10
<1>14. E!Fund(r, p, x)
  BY <1>4, <1>11, <1>12, <1>13 DEF E!Fund, Pot, Backers, Beneficiary, Settled
<1> QED BY <1>7, <1>14 DEF E!Next

LEMMA SetWinnerEscrow ==
    ASSUME IInv, TypeOK', NEW r \in Rounds, SetWinner(r)
    PROVE  E!Next
<1> DEFINE g == games[r]
           word == CurrentState(g.force)
           h == WithWinner(g, word)
<1>1. g \in GameGround /\ RoundInv(g, paid[r]) /\ games \in [Rounds -> GameGround]
  BY DEF IInv, TypeOK
<1>2. /\ games' = [games EXCEPT ![r] = h] /\ ~g.is_completed
      /\ vault' = vault /\ paid' = paid /\ reserve' = reserve
  BY DEF SetWinner, NotDrawn
<1>3. h.total_deposit = g.total_deposit /\ h.is_claimed = g.is_claimed
      /\ h.deposit_list = g.deposit_list
  BY <1>1, WordType, WithWinnerFields DEF IInv
<1>4. games'[r] = h /\ \A q \in Rounds : q # r => games'[q] = games[q]
  BY <1>1, <1>2
<1>5. HasStake(g.deposit_list, h.winner)
  BY <1>4, SetWinnerIInv
<1>6. g.winner = NoWallet
  BY <1>1, <1>2 DEF RoundInv
<1>7. h.winner \in Wallets
  <2>1. PICK i \in 1..Len(g.deposit_list) : g.deposit_list[i].user = h.winner
    BY <1>5 DEF HasStake
  <2>2. g.deposit_list \in Seq([user : Players, amount : Nat])
    BY <1>1 DEF GameGround, DepositInfo
  <2> HIDE DEF g, h
  <2>3. g.deposit_list[i].user \in Players
    BY <2>2, EntryType
  <2> QED BY <2>1, <2>3, WalletsAssumption
<1>8. h.winner \in StakeHolders(g)
  BY <1>5, <1>7 DEF StakeHolders, HasStake
<1>9. StakeHolders(h) = StakeHolders(g)
  BY <1>3 DEF StakeHolders
<1> HIDE DEF h
<1>10. /\ Pot' = Pot
       /\ Backers' = Backers
       /\ Beneficiary' = [Beneficiary EXCEPT ![r] = h.winner]
       /\ Settled' = Settled
  <2>1. ASSUME NEW q \in Rounds
        PROVE  /\ games'[q].total_deposit = games[q].total_deposit
               /\ StakeHolders(games'[q]) = StakeHolders(games[q])
               /\ games'[q].winner = IF q = r THEN h.winner ELSE games[q].winner
               /\ games'[q].is_claimed = games[q].is_claimed
    BY <1>3, <1>4, <1>9
  <2> QED BY <2>1 DEF Pot, Backers, Beneficiary, Settled
<1>11. PICK w \in Wallets : w = h.winner
  BY <1>7
<1>12. E!Award(r, w)
  BY <1>2, <1>6, <1>8, <1>10, <1>11 DEF E!Award, Pot, Backers, Beneficiary, Settled
<1> QED BY <1>12 DEF E!Next

LEMMA ClaimRewardEscrow ==
    ASSUME IInv, NEW r \in Rounds, ClaimReward(r)
    PROVE  E!Next
<1> DEFINE g == games[r]
           h == AfterClaim(g)
<1>1. /\ Configured /\ g \in GameGround /\ RoundInv(g, paid[r])
      /\ games \in [Rounds -> GameGround] /\ paid \in [Rounds -> Nat]
  BY AddressableConfigured DEF IInv, TypeOK, ClaimReward
<1>2. /\ games' = [games EXCEPT ![r] = h]
      /\ vault' = vault - g.total_deposit
      /\ paid' = [paid EXCEPT ![r] = paid[r] + g.total_deposit]
      /\ g.winner \in Wallets /\ ~g.is_claimed
      /\ reserve' = reserve
  BY DEF ClaimReward
<1>3. /\ h.total_deposit = g.total_deposit
      /\ h.winner = g.winner
      /\ h.is_claimed
      /\ h.deposit_list = g.deposit_list
      /\ h \in GameGround
  BY <1>1, AfterClaimFields
<1>4. g.total_deposit \in Nat /\ paid[r] = 0
  BY <1>1, <1>2 DEF GameGround, RoundInv
<1>5. g.winner # NoWallet
  BY <1>2, WalletsAssumption
<1>6. vault' >= reserve
  <2>1. vault = reserve + Owed /\ Owed \in Nat /\ reserve \in Nat
    BY VaultIsOwed, HeldType DEF IInv, TypeOK
  <2>2. HeldFor(r) = g.total_deposit /\ HeldFor(r) <= Owed
    BY <1>4, HeldType DEF HeldFor
  <2> HIDE DEF g
  <2> QED BY <1>2, <1>4, <2>1, <2>2
<1>7. games'[r] = h /\ \A q \in Rounds : q # r => games'[q] = games[q]
  BY <1>1, <1>2
<1>8. StakeHolders(h) = StakeHolders(g)
  BY <1>3 DEF StakeHolders
<1>9. h.is_claimed = TRUE
  BY <1>3 DEF GameGround
<1> HIDE DEF h
<1>10. /\ Pot' = Pot
       /\ Backers' = Backers
       /\ Beneficiary' = Beneficiary
       /\ Settled' = [Settled EXCEPT ![r] = TRUE]
  <2>1. ASSUME NEW q \in Rounds
        PROVE  /\ games'[q].total_deposit = games[q].total_deposit
               /\ StakeHolders(games'[q]) = StakeHolders(games[q])
               /\ games'[q].winner = games[q].winner
               /\ games'[q].is_claimed = IF q = r THEN TRUE ELSE games[q].is_claimed
    BY <1>3, <1>7, <1>8, <1>9
  <2> QED BY <2>1 DEF Pot, Backers, Beneficiary, Settled
<1>11. paid' = [paid EXCEPT ![r] = Pot[r]]
  <2>1. paid[r] + g.total_deposit = Pot[r]
    BY <1>4 DEF Pot
  <2> QED BY <1>2, <2>1
<1>12. E!Pay(r)
  BY <1>2, <1>5, <1>6, <1>10, <1>11 DEF E!Pay, Pot, Backers, Beneficiary, Settled
<1> QED BY <1>12 DEF E!Next

LEMMA NextEscrow == IInv /\ [Next]_vars => [E!Next]_(E!vars)
<1> SUFFICES ASSUME IInv, [Next]_vars PROVE [E!Next]_(E!vars)
  OBVIOUS
<1>1. TypeOK'
  BY NextTypeOK DEF IInv
<1>2. CASE \E payer \in Wallets, c \in Configs, n \in {config.game_round} \cup CounterResets :
              Configure(payer, [c EXCEPT !.game_round = n])
  BY <1>2, ConfigureEscrow
<1>3. CASE \E f \in Forces, t \in RoundTimes, d \in MinDeposits, j \in JoinerLimits :
              CreateGame(f, t, d, j)
  BY <1>3, CreateGameEscrow
<1>4. CASE \E r \in Rounds, p \in Players, a \in DepositAmounts : JoinGame(r, p, a)
  BY <1>4, JoinGameEscrow
<1>5. CASE \E r \in Rounds : SetWinner(r)
  BY <1>1, <1>5, SetWinnerEscrow
<1>6. CASE \E r \in Rounds : ClaimReward(r)
  BY <1>6, ClaimRewardEscrow
<1>7. CASE \E f \in Forces, v \in RandomValues : Fulfill(f, v)
  BY <1>7, MappedUnchanged DEF Fulfill
<1>8. CASE Tick
  BY <1>8, MappedUnchanged DEF Tick
<1>9. CASE UNCHANGED vars
  BY <1>9, MappedUnchanged DEF vars
<1>10. CASE \E w \in Donors, a \in Gifts : EndowVault(w, a)
  BY <1>10, EndowVaultEscrow
<1>11. CASE \E w \in Donors, r \in Rounds, a \in Gifts : EndowRound(w, r, a)
  BY <1>11, EndowRoundEscrow
<1> QED BY <1>2, <1>3, <1>4, <1>5, <1>6, <1>7, <1>8, <1>9, <1>10, <1>11 DEF Next

(***************************************************************************)
(* The jackpot implements the escrow, for any number of rounds, players    *)
(* and deposits: its pots only grow, are awarded once and to a depositor,  *)
(* and leave the vault once, whole, never touching the reserve.            *)
(***************************************************************************)
THEOREM ImplementsEscrow == Spec => EscrowSpec
<1>1. Init => E!Init
  BY InitEscrow
<1>2. IInv /\ [Next]_vars => [E!Next]_(E!vars)
  BY NextEscrow
<1> QED BY <1>1, <1>2, Invariance, PTL DEF Spec, EscrowSpec, E!Spec
=============================================================================
