------------------------------- MODULE Jackpot -------------------------------
(***************************************************************************)
(* The jackpot program: one action for each of its five instructions, the  *)
(* randomness oracle it depends on, and the ledger clock.  An instruction  *)
(* is atomic and a failing one is rolled back, so every error branch is a  *)
(* conjunct of the action's guard, also where the code checks it last.     *)
(*                                                                         *)
(* Unsigned and signed 64-bit integers keep their bounds: the release      *)
(* profile checks overflow, so an addition that would overflow aborts the  *)
(* instruction.                                                            *)
(***************************************************************************)
EXTENDS JackpotArith, FiniteSets, Functions

CONSTANTS
    Wallets,          \* every account that can sign
    Players,          \* the wallets that join rounds
    NoWallet,         \* the all-zero public key, which nobody can sign for
    Forces,           \* seeds of randomness requests
    NoForce,          \* the all-zero seed of a zeroed account
    Configs,          \* the settings configure is called with
    CounterResets,    \* game_round values configure may write over the counter
    RoundTimes, MinDeposits, JoinerLimits,   \* arguments of create_game
    DepositAmounts,   \* arguments of join_game
    RandomValues,     \* the first 8 bytes of fulfilled randomness, as a u64
    Donors,           \* the wallets that send lamports to the program's addresses
    Gifts,            \* the amounts they send
    InitialLamports,  \* what each wallet holds at first
    VrfCost,          \* fee and rent of a randomness request
    MaxRound,         \* u64::MAX for the round counter
    MaxU64,           \* u64::MAX for a round's total_deposit
    MaxI64            \* i64::MAX for timestamps; the clock stops there

Rounds == 0..MaxRound

ConfigData == [authority : Wallets \cup {NoWallet}, payer_wallet : Wallets \cup {NoWallet},
               team_wallet : Wallets \cup {NoWallet}, game_round : Rounds,
               platform_fee : Nat, min_deposit_amount : Nat, max_joiner_count : Nat]

(* What the runtime lets an account be left with: nothing, or the          *)
(* rent-exempt minimum of an account without data.                         *)
LeavesRent(lamports) == lamports = 0 \/ lamports >= RentMinimum(0)

ASSUME WalletsAssumption ==
    /\ NoWallet \notin Wallets
    /\ Players \subseteq Wallets
    /\ Donors \subseteq Wallets

ASSUME ConfigsAssumption ==
    /\ Configs \subseteq ConfigData
    /\ \A c \in Configs : {c.authority, c.payer_wallet, c.team_wallet} \subseteq Wallets
    /\ CounterResets \subseteq Rounds

ASSUME InputsAssumption ==
    /\ NoForce \notin Forces
    /\ RoundTimes \subseteq Int
    /\ MinDeposits \subseteq Nat
    /\ JoinerLimits \subseteq Nat
    /\ DepositAmounts \subseteq Nat
    /\ RandomValues \subseteq Nat
    /\ Gifts \subseteq Nat
    /\ InitialLamports \in [Wallets -> Nat]
    /\ \A w \in Wallets : LeavesRent(InitialLamports[w])
    /\ VrfCost \in Nat

(* Keys and seeds are 32 bytes long, so there are finitely many of them.    *)
ASSUME FiniteAssumption == IsFiniteSet(Wallets) /\ IsFiniteSet(Forces)

ASSUME BoundsAssumption == MaxRound \in Nat /\ MaxU64 \in Nat /\ MaxI64 \in Nat \ {0}

VARIABLES
    config,   \* the Config account; NoConfig before the first configure
    games,    \* the GameGround account at each round's address
    vault,    \* lamports of the global vault
    wallet,   \* lamports of each wallet
    random,   \* the oracle's randomness account for each seed
    now,      \* the ledger's unix timestamp
    paid,     \* history: lamports paid out of the vault for each round
    reserve   \* history: lamports put into the vault other than by deposits

vars == <<config, games, vault, wallet, random, now, paid, reserve>>

(***************************************************************************)
(* Accounts.  A round's account does not exist until create_game makes it, *)
(* at the address derived from the counter; until then it reads as zeros.  *)
(* The creator and the creation date, which are written and never read,    *)
(* and the never-read flag Config.initialized are left out.                *)
(***************************************************************************)
NoConfig == [authority |-> NoWallet, payer_wallet |-> NoWallet, team_wallet |-> NoWallet,
             game_round |-> 0, platform_fee |-> 0, min_deposit_amount |-> 0,
             max_joiner_count |-> 0]

Configured == config.authority # NoWallet

DepositInfo == [user : Players, amount : Nat]

GameGround ==
    [exists : BOOLEAN, game_round : Nat, start_date : Nat, end_date : Nat, round_time : Nat,
     total_deposit : Nat, rand : Nat, winner : Wallets \cup {NoWallet}, user_count : Nat,
     min_deposit_amount : Nat, max_joiner_count : Nat, force : Forces \cup {NoForce},
     is_completed : BOOLEAN, is_claimed : BOOLEAN, deposit_list : Seq(DepositInfo),
     space : Nat, lamports : Nat]

NoGame ==
    [exists |-> FALSE, game_round |-> 0, start_date |-> 0, end_date |-> 0, round_time |-> 0,
     total_deposit |-> 0, rand |-> 0, winner |-> NoWallet, user_count |-> 0,
     min_deposit_amount |-> 0, max_joiner_count |-> 0, force |-> NoForce,
     is_completed |-> FALSE, is_claimed |-> FALSE, deposit_list |-> << >>,
     space |-> 0, lamports |-> 0]

Randomness == [status : {"none", "pending", "fulfilled"}, value : Nat]

(* A round number is accepted only below the counter.                      *)
Addressable(r) == r < config.game_round /\ games[r].exists

(* The runtime fails a transaction that leaves a wallet with less than its *)
(* rent; that includes a wallet it has paid a few lamports to.             *)
WalletsKeepRent == \A w \in Wallets : LeavesRent(wallet'[w])

(***************************************************************************)
(* configure: the first call creates the Config account for whoever signs; *)
(* later calls need the stored authority.  The new settings replace all of *)
(* the old ones, the round counter included.  The account never changes    *)
(* size, so only its creation costs rent.  The vault is seeded only while  *)
(* it holds nothing at all.                                                *)
(***************************************************************************)
SeedDue == IF vault = 0 THEN VaultSeed ELSE 0

ConfigureCost == (IF Configured THEN 0 ELSE RentMinimum(ConfigLen)) + SeedDue

Configure(payer, c) ==
    /\ Configured => config.authority = payer
    /\ wallet[payer] >= ConfigureCost
    /\ config' = c
    /\ vault' = vault + SeedDue
    /\ wallet' = [wallet EXCEPT ![payer] = @ - ConfigureCost]
    /\ WalletsKeepRent
    /\ reserve' = reserve + SeedDue
    /\ UNCHANGED <<games, random, now, paid>>

(***************************************************************************)
(* create_game: the new account lives at the address of the counter's      *)
(* value, and the number it stores is the counter after the increment.     *)
(* Initialising an account that exists fails, as does requesting           *)
(* randomness twice for one seed.  Lamports that are at the address        *)
(* already count towards the rent of the account.                          *)
(***************************************************************************)
RentDue(space, held) == IF held >= RentMinimum(space) THEN 0 ELSE RentMinimum(space) - held

NextCounter_Kept(n) == n
NextCounter(n) == n + 1

NewGame(held, force, round_time, min_deposit, max_joiners) ==
    [NoGame EXCEPT
        !.exists = TRUE,
        !.game_round = NextCounter(config.game_round),
        !.round_time = round_time,
        !.min_deposit_amount = min_deposit,
        !.max_joiner_count = max_joiners,
        !.force = force,
        !.space = GameGroundSpace(0),
        !.lamports = held + RentDue(GameGroundSpace(0), held)]

Vacant_Unchecked(r) == TRUE
Vacant(r) == ~games[r].exists

CreateGame(force, round_time, min_deposit, max_joiners) ==
    LET held == games[config.game_round].lamports
        cost == RentDue(GameGroundSpace(0), held) + VrfCost
    IN  /\ Configured
        /\ Vacant(config.game_round)
        /\ round_time > 0
        /\ min_deposit >= config.min_deposit_amount
        /\ max_joiners <= config.max_joiner_count
        /\ random[force].status = "none"
        /\ NextCounter(config.game_round) <= MaxRound
        /\ wallet[config.payer_wallet] >= cost
        /\ games' = [games EXCEPT ![config.game_round] =
                        NewGame(held, force, round_time, min_deposit, max_joiners)]
        /\ config' = [config EXCEPT !.game_round = NextCounter(@)]
        /\ random' = [random EXCEPT ![force].status = "pending"]
        /\ wallet' = [wallet EXCEPT ![config.payer_wallet] = @ - cost]
        /\ WalletsKeepRent
        /\ UNCHANGED <<vault, now, paid, reserve>>

(***************************************************************************)
(* join_game.  WithDeposit is append: a user's first deposit adds an entry *)
(* and a later one adds to it.  WithClock restarts the round's clock on    *)
(* every join that leaves exactly two users.  The account is resized for   *)
(* the entries it had before the append, and the platform's payer pays or  *)
(* gets back the difference in rent.                                       *)
(***************************************************************************)
HasEntry(g, user) == \E i \in 1..Len(g.deposit_list) : g.deposit_list[i].user = user

EntryOf(g, user) ==
    CHOOSE i \in 1..Len(g.deposit_list) :
        /\ g.deposit_list[i].user = user
        /\ \A j \in 1..(i - 1) : g.deposit_list[j].user # user

Raised_Overwrites(list, k, amount) == [list EXCEPT ![k].amount = amount]
Raised(list, k, amount) == [list EXCEPT ![k].amount = @ + amount]

WithDeposit(g, user, amount) ==
    IF HasEntry(g, user)
    THEN [g EXCEPT !.deposit_list = Raised(@, EntryOf(g, user), amount),
                   !.total_deposit = @ + amount]
    ELSE [g EXCEPT !.deposit_list = Append(@, [user |-> user, amount |-> amount]),
                   !.user_count = @ + 1,
                   !.total_deposit = @ + amount]

WithClock_Late(g) ==
    IF g.user_count = 3
    THEN [g EXCEPT !.start_date = now, !.end_date = now + g.round_time]
    ELSE g
WithClock_EveryJoin(g) ==
    IF g.user_count >= 2
    THEN [g EXCEPT !.start_date = now, !.end_date = now + g.round_time]
    ELSE g
WithClock(g) ==
    IF g.user_count = 2
    THEN [g EXCEPT !.start_date = now, !.end_date = now + g.round_time]
    ELSE g

Resized(g) ==
    LET space == GameGroundSpace(Len(g.deposit_list))
    IN  [g EXCEPT !.space = space, !.lamports = RentMinimum(space)]

(* What the payer owes for it, or gets back when it is negative.           *)
RentMoved_NoRefund(g, resized) ==
    IF resized.lamports > g.lamports THEN resized.lamports - g.lamports ELSE 0
RentMoved(g, resized) == resized.lamports - g.lamports

(* The deadline and the draw bar a deposit only from the fourth join on.   *)
OpenToJoin_UntilDrawn(g) == g.user_count > 2 => ~g.is_completed
OpenToJoin(g) == g.user_count > 2 => g.end_date > now /\ ~g.is_completed

FeeFits(fee, amount) == fee <= amount

AmountApplied_Gross(amount, fee) == amount
AmountApplied(amount, fee) == amount - fee

(* Overflow checks are on in the release profile.                          *)
NoOverflow_Unchecked(g) == TRUE
NoOverflow(g) == g.total_deposit <= MaxU64 /\ g.end_date <= MaxI64

HasSeat_OffByOne(g) == g.max_joiner_count + 1 >= g.user_count
HasSeat(g) == g.max_joiner_count >= g.user_count

JoinGame(r, joiner, amount) ==
    LET g == games[r]
        fee == BpsMul(config.platform_fee, amount)
        joined == WithClock(WithDeposit(Resized(g), joiner, AmountApplied(amount, fee)))
        debited == [wallet EXCEPT ![joiner] = @ - amount]
        transferred == [debited EXCEPT ![config.team_wallet] = @ + fee]
        rent == RentMoved(g, joined)
    IN  /\ amount > 0
        /\ Addressable(r)
        /\ amount >= g.min_deposit_amount
        /\ OpenToJoin(g)
        /\ FeeFits(fee, amount)
        /\ wallet[joiner] >= amount
        /\ transferred[config.payer_wallet] >= rent
        /\ NoOverflow(joined)
        /\ HasSeat(joined)
        /\ games' = [games EXCEPT ![r] = joined]
        /\ vault' = vault + (amount - fee)
        /\ wallet' = [transferred EXCEPT ![config.payer_wallet] = @ - rent]
        /\ WalletsKeepRent
        /\ UNCHANGED <<config, random, now, paid, reserve>>

(***************************************************************************)
(* set_winner, signed by the authority.  CurrentState is 0 until the       *)
(* oracle has answered.  The remainder by an empty pot panics.             *)
(***************************************************************************)
CurrentState(force) ==
    IF random[force].status = "fulfilled" THEN random[force].value ELSE 0

WithWinner(g, randomness) ==
    LET ticket == Ticket(g.total_deposit, randomness)
    IN  [g EXCEPT !.rand = randomness,
                  !.winner = IF HasStop(g.deposit_list, ticket)
                             THEN DrawnUser(g.deposit_list, ticket)
                             ELSE @,
                  !.is_completed = TRUE]

Ended_AtStart(g) == g.start_date <= now
Ended_OnlyStarted(g) == g.start_date > 0 /\ g.end_date <= now
Ended(g) == g.end_date <= now

NotDrawn_Unchecked(g) == TRUE
NotDrawn(g) == ~g.is_completed

SetWinner(r) ==
    LET g == games[r]
    IN  /\ Addressable(r)
        /\ Ended(g)
        /\ NotDrawn(g)
        /\ random[g.force].status # "none"
        /\ CurrentState(g.force) # 0
        /\ g.total_deposit > 0
        /\ games' = [games EXCEPT ![r] = WithWinner(g, CurrentState(g.force))]
        /\ UNCHANGED <<config, vault, wallet, random, now, paid, reserve>>

(***************************************************************************)
(* claim_reward, signed by the winner and the platform's payer.  The vault *)
(* has to keep its rent, too.                                              *)
(***************************************************************************)
AfterClaim_Unmarked(g) == g
AfterClaim_Reopened(g) == [g EXCEPT !.is_claimed = TRUE, !.is_completed = FALSE]
AfterClaim(g) == [g EXCEPT !.is_claimed = TRUE]

ClaimReward(r) ==
    LET g == games[r]
    IN  /\ Addressable(r)
        /\ g.winner \in Wallets
        /\ ~g.is_claimed
        /\ g.is_completed
        /\ vault >= g.total_deposit
        /\ LeavesRent(vault - g.total_deposit)
        /\ games' = [games EXCEPT ![r] = AfterClaim(g)]
        /\ vault' = vault - g.total_deposit
        /\ wallet' = [wallet EXCEPT ![g.winner] = @ + g.total_deposit]
        /\ WalletsKeepRent
        /\ paid' = [paid EXCEPT ![r] = @ + g.total_deposit]
        /\ UNCHANGED <<config, random, now, reserve>>

(***************************************************************************)
(* The environment: the oracle answers a pending request, and time passes. *)
(***************************************************************************)
Fulfill(force, value) ==
    /\ random[force].status = "pending"
    /\ random' = [random EXCEPT ![force] = [status |-> "fulfilled", value |-> value]]
    /\ UNCHANGED <<config, games, vault, wallet, now, paid, reserve>>

Tick ==
    /\ now < MaxI64
    /\ now' = now + 1
    /\ UNCHANGED <<config, games, vault, wallet, random, paid, reserve>>

(***************************************************************************)
(* Anybody may send lamports to the address of the vault or of a round,    *)
(* also before there is an account; the runtime wants rent there, too.     *)
(***************************************************************************)
EndowVault(w, amount) ==
    /\ wallet[w] >= amount
    /\ LeavesRent(vault + amount)
    /\ vault' = vault + amount
    /\ reserve' = reserve + amount
    /\ wallet' = [wallet EXCEPT ![w] = @ - amount]
    /\ WalletsKeepRent
    /\ UNCHANGED <<config, games, random, now, paid>>

EndowRound(w, r, amount) ==
    /\ wallet[w] >= amount
    /\ LeavesRent(games[r].lamports + amount)
    /\ games' = [games EXCEPT ![r].lamports = @ + amount]
    /\ wallet' = [wallet EXCEPT ![w] = @ - amount]
    /\ WalletsKeepRent
    /\ UNCHANGED <<config, vault, random, now, paid, reserve>>

Init ==
    /\ config = NoConfig
    /\ games = [r \in Rounds |-> NoGame]
    /\ vault = 0
    /\ wallet = InitialLamports
    /\ random = [f \in Forces |-> [status |-> "none", value |-> 0]]
    /\ now = 1
    /\ paid = [r \in Rounds |-> 0]
    /\ reserve = 0

Next ==
    \/ \E payer \in Wallets, c \in Configs, n \in {config.game_round} \cup CounterResets :
          Configure(payer, [c EXCEPT !.game_round = n])
    \/ \E f \in Forces, t \in RoundTimes, d \in MinDeposits, j \in JoinerLimits :
          CreateGame(f, t, d, j)
    \/ \E r \in Rounds, p \in Players, a \in DepositAmounts : JoinGame(r, p, a)
    \/ \E r \in Rounds : SetWinner(r)
    \/ \E r \in Rounds : ClaimReward(r)
    \/ \E f \in Forces, v \in RandomValues : Fulfill(f, v)
    \/ Tick
    \/ \E w \in Donors, a \in Gifts : EndowVault(w, a)
    \/ \E w \in Donors, r \in Rounds, a \in Gifts : EndowRound(w, r, a)

Spec == Init /\ [][Next]_vars

(***************************************************************************)
(* Fairness: time passes, the oracle answers, the authority draws a round  *)
(* as long as it can be drawn, and the winner claims.  Nobody is obliged   *)
(* to create a round or to deposit.                                        *)
(***************************************************************************)
Fairness ==
    /\ WF_vars(Tick)
    /\ \A f \in Forces : WF_vars(\E v \in RandomValues : Fulfill(f, v))
    /\ \A r \in Rounds : WF_vars(SetWinner(r)) /\ WF_vars(ClaimReward(r))

FairSpec == Spec /\ Fairness

-----------------------------------------------------------------------------
(***************************************************************************)
(* Type correctness; in particular no balance and no deposit is ever       *)
(* negative, and no pot and no deadline leaves its 64 bits, however large  *)
(* the round_time that create_game accepted.                               *)
(***************************************************************************)
TypeOK ==
    /\ config \in ConfigData
    /\ Configured => {config.authority, config.payer_wallet, config.team_wallet} \subseteq Wallets
    /\ ~Configured => config.game_round = 0
    /\ games \in [Rounds -> GameGround]
    /\ \A r \in Rounds : games[r].exists => games[r].force \in Forces
    /\ \A r \in Rounds : games[r].total_deposit <= MaxU64 /\ games[r].end_date <= MaxI64
    /\ vault \in Nat
    /\ wallet \in [Wallets -> Nat]
    /\ random \in [Forces -> Randomness]
    /\ now \in 1..MaxI64
    /\ paid \in [Rounds -> Nat]
    /\ reserve \in Nat

(***************************************************************************)
(* The bookkeeping of a round agrees with its deposit list: total_deposit  *)
(* is the sum of the entries, each user has one entry, user_count counts   *)
(* them, and they never exceed the round's limit.  The draw and the join   *)
(* rely on it: set_winner takes a remainder by total_deposit and trusts    *)
(* that the list covers it.                                                *)
(***************************************************************************)
PotIsSumOfDeposits ==
    \A r \in Rounds :
        LET g == games[r]
        IN  /\ g.total_deposit = TotalOf(g.deposit_list)
            /\ g.user_count = Len(g.deposit_list)
            /\ \A i, j \in 1..Len(g.deposit_list) :
                  g.deposit_list[i].user = g.deposit_list[j].user => i = j

(***************************************************************************)
(* No sequence of joins, repeated or by new users, seats more players than *)
(* the round was created for; the code checks it only after the append.    *)
(***************************************************************************)
SeatsRespected ==
    \A r \in Rounds : Len(games[r].deposit_list) <= games[r].max_joiner_count

(***************************************************************************)
(* A drawn round has a winner with a positive deposit in it: the loop of   *)
(* set_winner never runs off the list and never stops at an entry that a   *)
(* 100% fee left empty.                                                    *)
(***************************************************************************)
DrawnWinnerHasStake ==
    \A r \in Rounds : games[r].is_completed =>
        \E i \in 1..Len(games[r].deposit_list) :
            /\ games[r].deposit_list[i].user = games[r].winner
            /\ games[r].deposit_list[i].amount > 0

(***************************************************************************)
(* The serialized round always fits the space allocated for it, although   *)
(* join_game resizes the account for the list as it was before the append. *)
(***************************************************************************)
FitsInAccount ==
    \A r \in Rounds : games[r].exists =>
        SerializedLen(Len(games[r].deposit_list)) <= games[r].space

(***************************************************************************)
(* The vault holds exactly what it was endowed with plus, for every round, *)
(* what was deposited and not paid out.                                    *)
(***************************************************************************)
HeldFor(r) == games[r].total_deposit - paid[r]

VaultBalanced ==
    vault = reserve + SumTo([i \in 1..(MaxRound + 1) |-> HeldFor(i - 1)], MaxRound + 1)

(***************************************************************************)
(* No instruction makes or loses a lamport: what the wallets, the vault,   *)
(* the rounds' accounts and the Config account hold and what went to the   *)
(* oracle add up to what the wallets held at first.  A wallet may be payer,*)
(* player and team at once, and an account may hold more than its rent     *)
(* when it is created or resized.                                          *)
(***************************************************************************)
RoundLamports == [r \in Rounds |-> games[r].lamports]

OracleLamports == [f \in Forces |-> IF random[f].status = "none" THEN 0 ELSE VrfCost]

ConfigLamports == IF Configured THEN RentMinimum(ConfigLen) ELSE 0

LamportsAreConserved ==
    SumFunction(InitialLamports)
    = SumFunction(wallet) + vault + SumFunction(RoundLamports) + ConfigLamports
      + SumFunction(OracleLamports)

(***************************************************************************)
(* Whatever other rounds did before, the vault can pay any drawn round     *)
(* that is not yet claimed and keep its rent-exempt minimum, so neither    *)
(* the transfer of claim_reward nor the runtime's rent check can fail.     *)
(***************************************************************************)
ClaimsAreFunded ==
    \A r \in Rounds : games[r].is_completed /\ ~games[r].is_claimed =>
        /\ vault >= games[r].total_deposit
        /\ LeavesRent(vault - games[r].total_deposit)

(***************************************************************************)
(* The counter decides which rounds can be reached, and configure may      *)
(* write any counter.  A round is within reach from its creation on, and   *)
(* nothing but a configure that writes a counter at or below it takes it   *)
(* out: a create_game under a counter that was set back does not.  Out of  *)
(* reach it waits as it is, neither joined nor drawn nor paid, so that     *)
(* setting the counter right again is all it needs.                        *)
(***************************************************************************)
SameRound(g, h) == [h EXCEPT !.lamports = g.lamports] = g

OutOfReach(r) == games[r].exists /\ ~Addressable(r)

TakenOut(r) ==
    \E payer \in Wallets, c \in Configs, n \in CounterResets :
        n <= r /\ Configure(payer, [c EXCEPT !.game_round = n])

RoundsWaitForTheCounter ==
    [][\A r \in Rounds :
          /\ OutOfReach(r)' => OutOfReach(r) \/ TakenOut(r)
          /\ OutOfReach(r) => SameRound(games[r], games'[r]) /\ paid'[r] = paid[r]]_vars

(***************************************************************************)
(* No deposit is ever lost: whatever the counter is set to and however     *)
(* often users come back, a round keeps its account, its seed, and every   *)
(* entry of its list at its place, and no entry shrinks.                   *)
(***************************************************************************)
EntriesKept(list, after) ==
    /\ Len(list) <= Len(after)
    /\ \A i \in 1..Len(list) :
          after[i].user = list[i].user /\ after[i].amount >= list[i].amount

DepositsAreNeverLost ==
    [][\A r \in Rounds : games[r].exists =>
          /\ games'[r].exists
          /\ games'[r].force = games[r].force
          /\ EntriesKept(games[r].deposit_list, games'[r].deposit_list)]_vars

(***************************************************************************)
(* A draw is final: no later step redraws a round or undoes its draw.      *)
(***************************************************************************)
DrawIsFinal ==
    [][\A r \in Rounds : games[r].is_completed =>
          /\ games'[r].is_completed
          /\ games'[r].winner = games[r].winner
          /\ games'[r].rand = games[r].rand]_vars

(***************************************************************************)
(* The clock of a round runs from the moment its second user is in, and    *)
(* not before; the end it is drawn after is that moment plus round_time.   *)
(* Users come one by one, so the test for exactly two cannot miss it.      *)
(***************************************************************************)
ClockRunsWithTwoUsers ==
    \A r \in Rounds :
        LET g == games[r]
        IN  IF g.user_count < 2
            THEN g.start_date = 0 /\ g.end_date = 0
            ELSE g.start_date \in 1..now /\ g.end_date = g.start_date + g.round_time

(***************************************************************************)
(* Nobody draws a round of several users before it has lasted its whole    *)
(* time, however often the clock was restarted.                            *)
(***************************************************************************)
DrawsWaitForTheClock ==
    [][\A r \in Rounds :
          (~games[r].is_completed /\ games'[r].is_completed /\ games[r].user_count >= 2)
          => games[r].start_date > 0 /\ games[r].start_date + games[r].round_time <= now]_vars

(***************************************************************************)
(* What is left of "Cannot deposit after the game is completed" and of the *)
(* final start date: with a third user in, the clock is never set again,   *)
(* and from the deadline or the draw on no deposit is taken.               *)
(***************************************************************************)
Closed(g) == g.user_count > 2 /\ (g.end_date <= now \/ g.is_completed)

Deposits(g) == <<g.deposit_list, g.user_count, g.total_deposit>>

FullRoundsClose ==
    [][\A r \in Rounds : games[r].user_count > 2 =>
          /\ games'[r].user_count > 2
          /\ games'[r].start_date = games[r].start_date
          /\ games'[r].end_date = games[r].end_date
          /\ Closed(games[r]) => Deposits(games'[r]) = Deposits(games[r])]_vars

(***************************************************************************)
(* Once a full round has closed and the oracle has answered, who wins is   *)
(* decided: neither further instructions nor the moment of the draw change *)
(* what set_winner computes.                                               *)
(***************************************************************************)
Decided(r) ==
    /\ Closed(games[r])
    /\ games[r].total_deposit > 0
    /\ random[games[r].force].status = "fulfilled"

WinnerToBe(r) == WithWinner(games[r], CurrentState(games[r].force)).winner

OutcomeIsFixed ==
    [][\A r \in Rounds : Decided(r) /\ ~games[r].is_completed =>
          /\ Decided(r)'
          /\ IF games'[r].is_completed
             THEN games'[r].winner = WinnerToBe(r)
             ELSE WinnerToBe(r)' = WinnerToBe(r)]_vars

(***************************************************************************)
(* A round pays once in its life, the whole pot of that moment, and the    *)
(* one wallet credited is the winner's.                                    *)
(***************************************************************************)
PaysPotOnceToWinner ==
    [][\A r \in Rounds : paid'[r] # paid[r] =>
          /\ paid[r] = 0
          /\ paid'[r] = games[r].total_deposit
          /\ games[r].is_completed
          /\ wallet' = [wallet EXCEPT ![games[r].winner] = @ + paid'[r]]]_vars

(***************************************************************************)
(* The escrow that the program implements.                                 *)
(***************************************************************************)
StakeHolders(g) ==
    {p \in Wallets : \E i \in 1..Len(g.deposit_list) :
        g.deposit_list[i].user = p /\ g.deposit_list[i].amount > 0}

E == INSTANCE Escrow WITH
        MinReserve <- RentMinimum(0),
        MaxDeposit <- MaxU64,
        pot <- [r \in Rounds |-> games[r].total_deposit],
        backers <- [r \in Rounds |-> StakeHolders(games[r])],
        beneficiary <- [r \in Rounds |-> games[r].winner],
        payout <- paid,
        settled <- [r \in Rounds |-> games[r].is_claimed]

(***************************************************************************)
(* Every behaviour of the program is one of the escrow: pots only grow,    *)
(* are awarded once and to a depositor, are paid once and whole, and the   *)
(* vault never dips into its reserve.                                      *)
(***************************************************************************)
EscrowSpec == E!Spec

(***************************************************************************)
(* With an operator who keeps drawing and winners who keep claiming, all   *)
(* that is in a pot before its claim leaves the vault with it, also in a   *)
(* round too small to start: no order of joins, deadlines, oracle answers  *)
(* and other rounds leaves a pot stuck, or some of it behind.  Deposits    *)
(* made after the claim are another matter: see NoDepositAfterCompletion.  *)
(***************************************************************************)
EveryPotIsPaid ==
    \A r \in Rounds, k \in 1..MaxU64 :
        (games[r].total_deposit = k /\ ~games[r].is_claimed) ~> (paid[r] >= k)

-----------------------------------------------------------------------------
(***************************************************************************)
(* What the comments and messages of the code claim and the code does not  *)
(* do: errors.rs "Cannot deposit after the game is completed".             *)
(***************************************************************************)
NoDepositAfterCompletion ==
    [][\A r \in Rounds : games[r].is_completed =>
          games'[r].total_deposit = games[r].total_deposit]_vars

(***************************************************************************)
(* gameground.rs: start_date is the timestamp "when the game started       *)
(* (after first 2 players join)", so once set it stays.                    *)
(***************************************************************************)
StartDateIsFinal ==
    [][\A r \in Rounds : games[r].start_date # 0 =>
          games'[r].start_date = games[r].start_date]_vars

(***************************************************************************)
(* set_winner.rs "Validates that the game is completed": a round that is   *)
(* drawn has at least started.                                             *)
(***************************************************************************)
DrawnRoundHadStarted ==
    \A r \in Rounds : games[r].is_completed => games[r].start_date # 0

(***************************************************************************)
(* lib.rs: set_winner "Returns an error if the game is not completed or    *)
(* randomness is not ready", so a round whose deadline has passed and      *)
(* whose randomness the oracle has delivered can be drawn, and a diligent  *)
(* authority draws it.                                                     *)
(***************************************************************************)
ReadyRoundIsDrawn ==
    \A r \in Rounds :
        (/\ games[r].total_deposit > 0
         /\ games[r].end_date <= now
         /\ random[games[r].force].status = "fulfilled")
        ~> games[r].is_completed
=============================================================================
