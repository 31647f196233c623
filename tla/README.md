# A verification of the jackpot program and its command line

The repository is a jackpot on Solana. Players deposit lamports into a round; when the
round's time is over the authority draws one of them with the help of a randomness oracle,
each with a chance proportional to the deposit; and the winner claims the whole pot from a
vault that all rounds share. This directory models the on-chain program, the TypeScript
client that drives it, and what the two promise about money; TLC checks the models on
small instances and TLAPS proves the main results for every value of the constants.

`P/` below stands for `src/programs/jackpot_smart_contract/src/`.

## 1. The system

| Component | Source | State | Operations |
|---|---|---|---|
| Configuration | `P/state/config.rs`, `P/instructions/admin/configure.rs` | one `Config` account: three keys, fee, limits, the round counter; the seed of the vault | `configure` |
| Rounds | `P/state/gameground.rs`, `P/instructions/admin/create_game.rs`, `P/instructions/user/join_game.rs` | one `GameGround` account for each round, at an address derived from the round's number | `create_game`, `join_game` |
| Draw and claim | `P/instructions/admin/set_winner.rs`, `P/instructions/user/claim_reward.rs`, `P/misc.rs` | winner, random word and two flags in the round; lamports of the vault | `set_winner`, `claim_reward` |
| Arithmetic | `P/utils.rs`, `P/state/gameground.rs` | none | fee, account size, rent, weighted draw |
| Program interface | `P/lib.rs`, `P/errors.rs`, `P/constants.rs` | none | dispatch |
| Randomness oracle | external (ORAO VRF) | one account for each seed: absent, pending, fulfilled | request (by `create_game`), fulfil |
| Ledger | external (Solana) | the clock, wallets, the transactions it has executed | execute once, or refuse |
| Transaction builders | `src/lib/scripts.ts` | none that persists | read accounts, name accounts, sign |
| Transaction execution | `src/lib/util.ts` | none that persists | sign, simulate, send, wait for confirmation |
| Command line | `src/cli/scripts.ts`, `src/cli/command.ts` | one process for each command | `config`, `create`, `join`, `winner`, `claim` |
| Refusals | the constraints and tests of all instructions, `P/errors.rs` | none | the error a failing instruction leaves |
| Interface description | `src/idl/` | none | account lists, layouts, error names; resolution of addresses from them |
| AMM helpers | `src/cli/utils.ts` | none | addresses of pools and token accounts, imported and called by nothing |

How they interact. A command reads accounts, builds and signs a transaction and hands it to
`execTx`, which sends it and waits. The ledger executes the transaction as one atomic step
of the program, or not at all. `create_game` requests randomness; the oracle answers at
some later time; `set_winner` reads the answer. All rounds pay into and are paid from one
vault, and every join, creation and claim is co-signed by the platform's payer. The client
passes by hand only some of the addresses a transaction names; the others it derives from
the interface description, and the program derives them again and compares.

What is hard about it:

* *Order of instructions.* Nothing but the guards of each instruction prevents a draw before
  the start, a deposit after the draw or a second claim. Some guards depend on how many
  users are in the round, and a repeated join is not a new user.
* *Shared money.* The bookkeeping of each round, the vault and the rent-exempt minimum must
  agree after any interleaving of rounds.
* *Boundaries.* Fees at and above 100 %, rounding, an account resized before its list grows,
  the walk over the deposits ending inside the list, 64-bit additions.
* *Lamports from elsewhere.* Anybody may send lamports to the address of the vault or of a
  round, also before the account exists. `configure` seeds only an empty vault, `create_game`
  pays only the missing rent, and the first join refunds what is above it.
* *The order of the tests.* What a caller is told depends on which of several failing tests
  comes first: Anchor's, the handler's (one of them after the money has moved), or the
  runtime's at the end.
* *A counter that is both state and address.* `configure` may write it; `create_game`
  derives an address from it.
* *Awaits.* Between what a command reads and what the ledger executes anything can happen,
  and the end of the wait says little about the fate of the transaction.

What makes each component correct is stated by the properties of section 4; the full list of
hazards, each at its line, is `hazards` in `PROJECT.json`.

## 2. The modules

```
                    JackpotArith <---------- JackpotInterface <--- MCJackpotArith
                         ^                           ^
 Escrow <--implements-- Jackpot <------ JackpotErrors (EXTENDS both)
                         ^                           ^
                     MCJackpot                 JackpotClient
                         ^                           ^
                         +----- MCJackpotClient -----+

 JackpotArithProofs  <--- JackpotDrawProofs, FiniteSums, JackpotProofs
 JackpotProofs       <--- JackpotMoneyProofs (EXTENDS FiniteSums as well), JackpotClientProofs
 JackpotClientProofs <--- JackpotRefusalProofs, JackpotBalanceProofs (and JackpotMoneyProofs)
```

Arrows without a label point at the module that is extended. Each module of proofs extends
the module it is about as well: `JackpotArith`, `Jackpot`, `JackpotClient`, and for
`JackpotDrawProofs` the reference definitions of `MCJackpotArith`.

* `JackpotArith` - the pure operators: `BpsMul`, `GameGroundSpace`, `SerializedLen`,
  `RentMinimum`, running totals and the weighted draw (`StopsAt`, `HasStop`, `DrawnUser`).
  Recursion is by recursive functions so that TLAPS can use them.
* `Jackpot` - the program. One action for each instruction (`Configure`, `CreateGame`,
  `JoinGame`, `SetWinner`, `ClaimReward`), one for the oracle (`Fulfill`), one for the clock
  (`Tick`), and two for lamports sent from outside (`EndowVault`, `EndowRound`).
* `Escrow` - the abstract specification: a reserve, pots that grow, one award to somebody
  with a stake, one payment of the whole pot.
* `JackpotInterface` - the interface description: for each instruction its accounts, which
  of them sign, which may be written and how their addresses are found (`Resolve`); the
  fields of the program's accounts and their bytes; the names of its errors.
* `JackpotErrors` - for each instruction the list of its tests in the order the ledger,
  Anchor, the handler and the runtime make them. The first that fails names the error
  (`FirstError`).
* `JackpotClient` - runs of the command line, with the ledger's treatment of transactions,
  around the program's actions.
* `JackpotArithProofs`, `JackpotDrawProofs`, `JackpotProofs`, `JackpotMoneyProofs`,
  `JackpotClientProofs`, `JackpotBalanceProofs`, `JackpotRefusalProofs` - the theorems;
  `FiniteSums` - what the sums over sets of keys and of transactions rest on.
* `MC*` - instances for TLC. `MCJackpotArith` and `MCJackpotClient` also hold properties
  that need reference definitions or ENABLED.

### State and code

| `Jackpot` | code |
|---|---|
| `config` | the `Config` account; `NoConfig` before the first `configure` |
| `games[r]` | the `GameGround` account at the address of round `r`; `NoGame` before `create_game`. `space` and `lamports` are those of the account |
| `vault` | lamports of the global vault account |
| `wallet[w]` | lamports of each signer |
| `random[f]` | the oracle's account for seed `f` |
| `now` | `Clock::unix_timestamp` |
| `paid[r]` | history only: lamports that left the vault for round `r` |
| `reserve` | history only: lamports put into the vault other than by a deposit, its seed included |

An instruction is atomic and is rolled back when it fails, so every error branch, checked
subtraction and overflow is a conjunct of the guard, also where the code tests it after it
has changed something (`HasSeat`). `JoinGame` follows the handler: resize for the list as it
is, transfer the fee and the deposit, append (`WithDeposit`), restart the clock when two
users are in (`WithClock`), test the seats. What the runtime checks after the handler is a
conjunct as well: a wallet, the vault and an address that is sent lamports must be left empty
or with the rent-exempt minimum (`LeavesRent`, `WalletsKeepRent`). The authority's signature
of `set_winner` and the co-signature of the payer need no guard in `Jackpot`, where any key
may sign; in `JackpotClient`, where a transaction names keys and is signed with those the
client holds, they are guards.

| `JackpotClient` | code |
|---|---|
| `run[s].at` | the await at which the command stands: `resolving` (second read), `signing` (blockhash read and after), `confirming`, `printing` |
| `run[s].tx` | the transaction: command, looked-up accounts, counter written back, blockhash |
| `run[s].result` | what `execTx` returned (`signature`, `undefined`), or `threw` |
| `ledger` | executed transactions of runs, with their outcome |

`Land` and `LandFailed` are the ledger: a transaction that was sent may be executed once, at
any time while its blockhash is recent, whether or not its run still waits. It fails when
`JackpotErrors` names an error for it (`Refusal`), and the error goes on the ledger with it.
The order of tests is written down independently of the guards of `Jackpot`;
`ExecutedOrRefused` checks that the two agree, that is, that an action is enabled exactly
when no test fails.

The accounts of a transaction are computed as Anchor's client does it: `Passes` is what the
builder in `src/lib/scripts.ts` passes by hand, `Keys` what it has for the seeds, and
`AccountsOf` resolves the rest from the interface description. `Send` needs every signer of
the instruction among the keys that sign. The program's side compares these addresses with
those it derives (`RoundAddress`, `RandomnessAddress`) and the keys with those in `config`.

### What is abstracted

* Keys, seeds, program identifiers and commands are model values or small records; an
  address is the program, prefix and key it is derived from. Logging is left out.
* Left out of accounts: creator and creation date, written and never read; the flag
  `Config.initialized`, never read. `JackpotInterface` counts their bytes.
* Transaction fees are left out: they are taken before the program runs, also when it fails,
  and depend on nothing modelled here.
* Lamports may be sent to the vault and to rounds, not to the address of the config account.
  There they would make `create_account` fail for good, so the program would never be
  configured. After its creation the account keeps its size and its rent, so the top-up
  branch of `configure` is only the creation, `ConfigureCost`.
* In `JackpotClient` the steps of others (`Elsewhere`) do not send lamports to the program's
  addresses; those interleavings are checked in `Jackpot`.
* `MaxRound`, `MaxU64` and `MaxI64` stand for the largest values of the counter, of
  `total_deposit` and of a timestamp. Additions abort at these bounds because the release
  profile checks overflow. Products in `bps_mul` are 128 bits wide in the code and unbounded
  here; a fee of more than 64 bits makes `join_game` panic (`FeeError`). Balances of wallets and of the vault have no upper bound: all the lamports there are
  fit 64 bits.
* The ledger's clock and the age of a blockhash use the same tick.
* `configure` compares the first bytes of an account the program owns with the discriminator
  of `Config` (`IncorrectConfigAccount`). The account is at the derived address and only
  `configure` makes it, so the test cannot fail and has no place in `ConfigureChecks`.
* `src/idl/` says of itself that it is "only a type helper and is not the actual IDL", which
  the build generates and the repository does not hold. `JackpotInterface` follows the helper:
  `WritesAreDeclared` compares the program with it.
* Discriminators are names, and the types of the oracle that the interface description
  copies are left out.

## 3. Bounds

| Bound | Values | Why it is enough |
|---|---|---|
| players | 2 or 3 | the code changes its behaviour at 2 users and above 2 |
| rounds | 1 or 2 addressable | sharing of the vault and races for the counter need two |
| deposits | 0..3 lamports, pot at most 5 | zero, below, at and above the minimum; overflow of the pot is reached |
| balances | a player owns the rent of a wallet and 3 lamports (1 for the second player of `cli_session`); the platform can pay every rent | further deposits meet the rent check of the runtime |
| gifts | one amount, the rent of a wallet; the donor affords one | before and after `configure`, before and after the round exists; a smaller one to an empty address is refused by the runtime |
| fee | 0, 50 %, 100 %, 200 % | nothing, rounding, an empty deposit, a subtraction that fails |
| random word | 0, 1, 2 | 0 is special in the code; the others pick different entries |
| round time | 0, 2, 9 in `round`; 1 elsewhere | refused, ordinary, overflowing the clock; with 2 a third and a fourth join can come before the deadline and after it |
| clock | at most 4 | before, at and after a deadline, and a restarted one |
| counter | `configure` writes any value (`two_rounds`), or the current one; `config` writes back what it read | rewound, skipped ahead, unchanged |
| runs | 1 to 3 | two race; a third sees what the race left |
| blockhash life | 1 tick | long enough to land late, short enough to expire |

In `cli_session` the fee may go from nothing to a half and back between any two steps.

The instances stop when the clock, the pots and the runs reach their bounds, so deadlock is
not checked: in the code nothing ever has to happen either.

## 4. The runs

| Run | Question | Shows |
|---|---|---|
| `round` | one round in depth, changing fees, every refused argument | `TypeOK`, `PotIsSumOfDeposits`, `SeatsRespected`, `DrawnWinnerHasStake`, `FitsInAccount`, `ClockRunsWithTwoUsers`, `DrawIsFinal`, `DrawsWaitForTheClock`, `FullRoundsClose`, `OutcomeIsFixed`, `PaysPotOnceToWinner` |
| `two_rounds` | two rounds and one vault, the payer a player as well, `configure` writing any counter, somebody sending lamports to the vault and to rounds | `VaultBalanced`, `ClaimsAreFunded`, `LamportsAreConserved`, `DepositsAreNeverLost`, `RoundsWaitForTheCounter`, and that the program implements `Escrow` (`EscrowSpec`) |
| `settles` | is everything that is in a pot before its claim paid out in the end? | `EveryPotIsPaid` |
| `arith` | draw, fee and account size against reference definitions | `DrawIsOneSlipPerLamport`, `DrawIsProportional`, `FeeIsFair`, `LayoutFitsAllocation` |
| `cli_operator` | `create` and `config` race for the counter | `ClientTypeOK`, `EachCreateHasItsRound`, `NoRoundIsSkipped`, `ExecutedOrRefused`, `WritesAreDeclared` |
| `cli_session` | joins, claims and draws with timeouts, late landings, equal transactions and a fee that changes on the way | `BalanceFollowsTransactions`, `SignatureMeansEffect`, `PrintedWinnerIsTheWinner`, `FinalRefusalsStay`, `ClaimedMeansPaid`, `WinnersCanClaim`, `WritesAreDeclared` |

Runs that find a disagreement between the code and what it says of itself:

| Run | What TLC finds |
|---|---|
| `late_deposit` | rounds of one or two users take deposits after their draw, even after the claim, when nobody can be paid them |
| `restarted_clock` | each further deposit by one of two users restarts the round |
| `draw_before_start` | a round with one user has `end_date` 0 and can be drawn at once |
| `zero_randomness` | a random word 0 reads as "not ready": the round can never be drawn |
| `cli_timeout` | `undefined` is returned for a join that is executed later |
| `cli_stale_counter` | `config` writes back a counter it read before a round was created |

Smaller things the models show without a run of their own, the first two against what the
repository says:

* `config` cannot configure a fresh deployment: `configProject` fetches the account before it
  builds the transaction that would create it, and the fetch throws (`Fetch`). Yet
  `src/cli/command.ts:17` says "Configure the program with initial settings", and
  `src/cli/scripts.ts:89` "Configures the program with initial settings." In the models the
  first `configure` comes from elsewhere.
* `join_game` takes a deposit that equals the minimum (`JoinGame`, its test is `>=`), where
  `P/errors.rs:88` says "The deposit amount must be greater than the minimum deposit amount".
* A round stores its number plus one (`NewGame`).
* Two equal joins that read one blockhash are one transaction, executed once and confirmed
  to both (`Send`); the player is debited once (`BalanceFollowsTransactions`).
* A small fee to an empty team wallet, and a join that leaves the player a few lamports,
  pass every test of the handler and are refused by the runtime (`KeepsRent`).
* Somebody who asks for a reward that is not theirs learns that first, so `winnerClaimed`
  reaches only the winner, after being paid (`ClaimedMeansPaid`).
* The interface description carries the program address `DZQyG4...`, while the program
  declares `CKaQ1z...`. Both are one name here.

Five of these disagreements leave something true, which the passing runs check and section 5
proves:

* `late_deposit`, `restarted_clock`: once a third user is in, the clock is never set again,
  and from the deadline or the draw on no deposit is taken (`FullRoundsClose`). The test for
  exactly two users cannot miss them, since users come one by one: the clock runs from the
  second one on (`ClockRunsWithTwoUsers`).
* `draw_before_start`: a round of two or more users is never drawn before its whole time has
  passed since the clock was last set (`DrawsWaitForTheClock`).
* `zero_randomness`: with any other word, a round that is over stays drawable until it is
  drawn (`EveryPotIsPaid` in `settles`, and `StaysDrawable` in section 5).
* `cli_stale_counter`: a counter that `config` writes back late is never beyond the first
  number without a round (`NoRoundIsSkipped`), so the rounds are those of the numbers
  0, 1, 2, ... without a gap.

`EveryPotIsPaid` is about the pot as it is claimed: whatever amount a pot has reached while
it is unclaimed is paid. A deposit made after the claim is not part of it and is never paid
to anybody (`late_deposit`).

`OutcomeIsFixed` is about who wins, and covers only closed rounds of three or more users:
from the moment such a round has closed and the oracle has answered, nobody can change the
winner, neither by a deposit nor by choosing when to draw. The word is requested by
`create_game`, so it may well be public while the round still takes deposits, and whoever
deposits then knows what the draw will make of it; no property says otherwise. Rounds of one
or two users have no moment from which the outcome is fixed.

`RoundsWaitForTheCounter` is what remains of a counter that `configure` may set to anything.
A round is out of reach only after a `configure` wrote a counter at or below its number, and
there it waits: it is not joined, drawn or paid, so a counter set right again finds it as it
was.

`SignatureMeansEffect` follows a signature to what the caller takes it for, in any later
state: the player of a join is on the list, the claimant is the winner and was paid, and a
`winner` that reports its own draw prints the winner of that round. What a signature of
`create` means is `EachCreateHasItsRound`.

Limits of the instances. In `cli_session` no round has a third player, so
`gameAlreadyCompleted` is never given there (`RefusalsAreFinal` covers it), and with one seed
there is one round, so what other rounds do to the vault is left to `ClaimsAreFunded` in
`two_rounds` and to `WinnersCollect`. `BalanceFollowsTransactions` is about customers: a
player whose key also pays for the platform, as the command line's default key would, is
excluded by `ClientAssumption`. `NoRoundIsSkipped` takes for granted that a `configure` that
does not come from the command line keeps the counter (`Elsewhere`). `ExecutedOrRefused` is
checked for `configure` and `create_game` only; `ExecutionIsDetermined` covers all five.

`WinnersCanClaim` is about the last step of a round: no test of `claim_reward` or of the
runtime refuses the winner of a drawn round in reach. One exception is part of it
(`PotBelowRent`): a wallet that was emptied cannot receive a pot smaller than a wallet's
rent. In the instances players keep their rent, so TLC does not reach the exception; the
theorem `WinnersCollect` covers it.

A stale counter has consequences that the command line cannot undo: `create` meets an
account that exists, and another `config` writes back the rewound counter it reads.
`DepositsAreNeverLost` says that no deposit is overwritten all the same.

**Fairness.** Only `settles` and `zero_randomness` assume any (`Fairness` in `Jackpot`):
time passes, the oracle answers what it was asked, the authority draws a round that stays
drawable, the winner claims a reward that stays claimable. The first two are what the ledger
and the oracle offer. The last two are people: no code of the repository draws or claims by
itself, so the property is about a diligent operator, and it says that no order of the other
steps takes the possibility from them. Nobody is assumed to create rounds or to join. In
`settles` the oracle never answers 0; `zero_randomness` is what happens when it does.

## 5. The proofs

All are for arbitrary sets of wallets, players, seeds, settings and arguments, any fee, any
number of rounds and deposits, and any values of the bounds. The assumptions are those named
in `Jackpot` (`WalletsAssumption`, `ConfigsAssumption`, `InputsAssumption`,
`BoundsAssumption`, `FiniteAssumption`); they say that arguments have their types, that the
zero key cannot sign, that configured keys are keys, and that there are finitely many keys
and seeds (both are 32 bytes). Only `JackpotMoneyProofs` and what extends it use the last.

* `JackpotArithProofs`. The recursive functions unfold (`RunningTotalStep`), sums change by
  what one element changes (`SumChange`), and `DrawPicksAStake`: for any list of deposits
  with a positive sum and any random word, the walk of `set_winner` stops inside the list,
  at a positive deposit. The argument takes the least position whose running total exceeds
  the ticket.
  `FeesAreFair`: for every rate and all deposits, the fee is the exact share rounded down
  (`FairFee`), so the subtraction of `join_game` fails only for a rate above 100 %.
* `JackpotDrawProofs`, the properties of `arith` for lists of any length and any amounts
  (`NumbersAssumption`: amounts and rates are natural numbers, and there is a random word).
  `StopsInInterval` is the key: the tickets that stop at an entry are those from the total
  before it up to the total after it. `DrawsSlips` follows by joining the slips entry by
  entry, `FlattenSeq` unfolded (`FlattenJoins`). `DrawsInProportion` writes the words in rows
  as long as the pot: pairing word with row and column is an injection both ways, so an entry
  wins its columns of every full row, and of the last row at most its columns
  (`WordsWithRemainder`). `LayoutStaysInside` adds up the fields one by one; `FeeStaysFair`
  is `FeesAreFair`.
* `JackpotProofs`. `TypeCorrect` (with the 64-bit bounds on pots and end dates), then `Invariance`: the inductive invariant `IInv` is
  `TypeOK`, `RoundInv` for each round, `VaultBalanced` and `ReserveInv`. None of the safety
  properties is inductive alone. That a drawn winner holds a stake needs the pot to be the
  sum of the list, and that sum survives a repeated join only because each user has one
  entry. That the vault can pay needs its balance over *all* rounds, for which a round must
  pay nothing before it is claimed and at most its pot after, and a reserve that carries the
  rent although `configure` does not seed a vault that somebody else endowed: an endowment
  that the runtime lets through is already the rent. `create_game` leaves the balance alone
  only because an account that does not exist reads as zeros, except for the lamports sent
  to it (`Blank`).
* From `IInv`: `Books`, `Seats`, `WinnerHasStake`, `AccountIsLargeEnough`,
  `VaultIsBalanced`, `ClaimsCanBePaid`. Action properties: `DrawsAreFinal`,
  `NoDepositIsLost`, `PaysOnce`, and `RoundsWait`, for any counters that `configure` writes:
  every other instruction acts on one round that it can reach and leaves the counter or
  raises it (`ReachKeptByOthers`).
* The clock and the draw, also in `JackpotProofs`. `RoundSteps` sorts what a step can do to a
  round: open it, take a deposit, draw it, or leave clock, deposits and draw alone; each
  argument below goes through these cases. `ClockRuns` is an invariant beside `IInv`; with
  it, `DrawsWait` reads the end that `set_winner` compares as start plus `round_time`.
  `FullRoundsStayClosed` needs that a join never lowers `user_count`. `OutcomeFixed` needs
  that in a closed round neither the list nor the seed changes (`FullRoundKept`), nor what
  the oracle answered (`AnswersStay`); since the winner is a function of those
  (`WinnerOf`), it is decided (`DecisionStays`). `DecidedForGood` is the same for whole
  behaviours: if a round is decided for some player, then at every later time at which it is
  drawn, that player is its winner.
* `FiniteSums`. `SumFunction` adds the values of a function up in an arbitrary order. The
  lemmas say that the order does not matter (`PartialSumsRemove`, by induction on the
  cardinality), and what a sum becomes when one value changes, one element is added
  (`SumFunctionChange`, `SumFunctionExtend`).
* `JackpotMoneyProofs`: `NoLamportIsLost`. Each action is a few changes of single values:
  a join moves its deposit, its fee and the rent between three wallets (two or all of which
  may be one key), a round and the vault, and the changes cancel. The `Config`
  account counts with its rent, each request at the oracle with its price.
* `ImplementsEscrow`: the refinement. `Configure` and `EndowVault` endow the escrow or
  stutter, `JoinGame` funds, `SetWinner` awards, `ClaimReward` pays, and the rest stutter.
* `JackpotClientProofs`, which also assumes `ClientAssumption` (commands have their types,
  and `config` may write back any round number). `ClientsFollowProgram`: a behaviour of the
  command line is a behaviour of the program, `ClientSpec => Spec`, so every theorem above
  holds with any number of runs, retries and late transactions. It needs the invariant
  because what a run carries must be an input the program can be given.
* `ClientInvariance`: `ClientInv` is `IInv`, what each run knows at its await (`RunInv`), and
  what each entry of the ledger still says about its round (`LedgerInv`). The parts lean on
  each other: a signature is on the ledger only because nothing leaves the ledger; what a
  transaction on the ledger has done to its round lasts (`Effect`, `EffectStays`) because no
  step overwrites a round, whatever the counter, removes an entry, redraws or reopens; a
  printed winner stays because a draw is final; a full round stays full because entries are
  never removed, and a closed one stays closed because its clock is restarted only at two
  users; whoever was told of a claim was the winner because that test comes first, and was
  paid because a claimed round has paid.
* From `ClientInv`: `ClientTypesCorrect`, `SignaturesAreHonest`, `CreatesDoNotCollide`,
  `PrintedWinnersAreFinal`, `RefusalsAreFinal`, `ClaimedIsPaid`. `SignaturesAreHonest` joins
  three facts: the effect of the transaction on the ledger, that a claimed round has paid,
  and, for a draw, that what is printed is read after the effect and does not change later.
  Action property: `WritesStayDeclared`, which compares each instruction's effect with the
  addresses its account list resolves to.
* `RoundsAreNeverSkipped`. That every number below the counter has its round is not
  inductive: a run of `config` may hold any older counter. The invariant adds that the
  counters runs hold lag as well (`HeldCountersLag`): a run reads its copy from the account,
  no later step of a run changes it, and no round goes away. `CounterStep` says that the
  counter is kept, written back by a run, or moved past a round just created.
* `JackpotBalanceProofs`: `BalancesFollowTransactions`. The invariant `BalanceInv` adds to
  `ClientInv` that the ledger is finite, and that the payer and the team in force are not
  customers. `ClientAssumption` says the last of every configuration: of a player who is also
  the payer or the team, the joins and claims on the ledger are not the whole story, since
  the rent of rounds and the fees of others reach that key. A join adds one
  transaction to the sum of what its player spent, and no other sum has that transaction; a
  claim changes what its winner won by the pot, since a round has paid nothing before it.
  Steps that come from elsewhere are signed by others and leave a customer's wallet alone.
* `JackpotRefusalProofs`: `ExecutionIsDetermined`. For each instruction, the list of tests
  in `JackpotErrors` and the guard of the action in `Jackpot`, written independently, are
  shown to be one condition, test by test (`ConfigureDetermined`, `CreateGameDetermined`,
  `JoinGameDetermined`, `SetWinnerDetermined`, `ClaimRewardDetermined`): a step executes a
  transaction in flight if and only if no test names an error and the step has the outcome
  written down for it, one value for each variable. Nothing is refused for a reason the
  tests do not have, and nothing executed leaves two outcomes possible.
* Of the lists of tests in the same module: `WinnersCollect`. That the tests of
  `claim_reward` pass draws on the whole invariant: a drawn winner is a key, the vault
  stays above its rent (`ClaimsCanBePaid`), and the runtime leaves no wallet below its own,
  unless empty (`WalletsStayExempt`). `StaysDrawable`: a closed round with a pot and a word
  other than 0 passes every test of `set_winner`, signed by the authority of the moment, in
  each later state until it is drawn, except while `configure` holds the counter at or
  below its number. No step of others takes the chance away for a moment, which is why weak
  fairness of the draw is enough in `settles`.

Model-checked only: liveness (`EveryPotIsPaid`), and the form of `ExecutedOrRefused` itself.
That property says with ENABLED, which the provers cannot expand, what
`ExecutionIsDetermined` says with an equivalence: a step that gives every variable a value
exists, so the action is enabled exactly when no test fails.

## 6. Not modelled

* The AMM helpers (`src/cli/utils.ts`), and `convert_*`, `token_transfer_*` and
  `AmountConfig` of the program: called by nothing.
* Parsing of options and the choice of cluster and key file: no state.
* The inside of the oracle (who fulfils, and with what proof): not in this repository; the
  word it answers with is arbitrary here.
* Lamports at the address of the config account before the first `configure` (section 2).
* Transaction fees (section 2).

## 7. Plan

Done, in this order: arithmetic, the program, the escrow, the runs above, the theorems about
the program, the command line; then lamports sent from outside, the rent of wallets, the
interface description and the errors, and the theorems about the command line; then sums
over keys and transactions, the reference definitions of the draw and the layout, and the
errors against the instructions; then what remains true where a run finds a disagreement,
as properties and theorems. Left: transaction fees, as a debit of the fee payer that a
refused transaction leaves behind.
