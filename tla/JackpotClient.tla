---------------------------- MODULE JackpotClient ----------------------------
(***************************************************************************)
(* The command line: runs of `config`, `create`, `join`, `winner` and      *)
(* `claim` that read accounts, build and sign a transaction, send it, and  *)
(* wait for its confirmation, each await a step of its own.  Between these *)
(* steps other runs, other clients and the program move.  The ledger       *)
(* executes a transaction at most once, while its blockhash is recent, at  *)
(* any time after it was sent: also when its run has already given up.     *)
(***************************************************************************)
EXTENDS JackpotErrors

CONSTANTS
    Runs,         \* invocations of the command line
    Commands,     \* what a run may be asked to do
    Users,        \* the players whose key only the command line holds
    FeePayer,     \* the key in key/uu.json, which co-signs
    CliSettings,  \* what `config` writes, the round counter excepted
    HashLife      \* how long a blockhash stays recent

CommandType ==
    [name : {"config"}, user : Wallets]
    \cup [name : {"create"}, user : Wallets, time : RoundTimes, min_deposit : MinDeposits,
          max_joiner : JoinerLimits]
    \cup [name : {"join"}, user : Players, round : Rounds, amount : DepositAmounts]
    \cup [name : {"winner", "claim"}, user : Wallets, round : Rounds]

(* `config` may write back any counter it has read.  Users are customers:  *)
(* no settings make one of them the platform's payer or its team.          *)
ASSUME ClientAssumption ==
    /\ Commands \subseteq CommandType
    /\ Users \subseteq Players
    /\ \A c \in Configs : {c.payer_wallet, c.team_wallet} \cap Users = {}
    /\ FeePayer \in Wallets
    /\ CliSettings \in Configs
    /\ Rounds \subseteq CounterResets
    /\ HashLife \in Nat

VARIABLES
    run,      \* what each run knows and where it stands
    ledger    \* the transactions of runs that were executed, with their outcome

clientVars == <<run, ledger>>
allVars == <<vars, run, ledger>>

(***************************************************************************)
(* A transaction is its content: two that agree in every field, blockhash  *)
(* included, have one signature and are one transaction to the ledger.     *)
(* round and force are what the addresses of the round and of its          *)
(* randomness are derived from, and game_round is the counter that         *)
(* `config` writes back.                                                   *)
(***************************************************************************)
NoCommand == [name |-> "none"]

NoTransaction ==
    [command |-> NoCommand, game_round |-> 0, round |-> 0, force |-> NoForce, hash |-> 0]

NoRun == [at |-> "idle", tx |-> NoTransaction, sent |-> FALSE, result |-> "none",
          printed |-> NoWallet]

Executed(tx) == \E e \in ledger : e.tx = tx

Succeeded(tx) == [tx |-> tx, error |-> NoError] \in ledger

(***************************************************************************)
(* The accounts of a transaction: the instruction its command stands for,  *)
(* the addresses the builder passes by hand, the keys it has for the       *)
(* others, and who signs.                                                  *)
(***************************************************************************)
Instruction ==
    [config |-> "configure", create |-> "createGame", join |-> "joinGame",
     winner |-> "setWinner", claim |-> "claimReward"]

Entries(tx) == AccountsOfInstruction[Instruction[tx.command.name]]

Treasury == Pda("vrf", "treasury", Unkeyed)

Passes_NoTreasury(tx) ==
    [payer |-> IF tx.command.name = "config" THEN tx.command.user ELSE FeePayer,
     creator |-> tx.command.user]
Passes_FeePayerJoins(tx) ==
    [joiner |-> FeePayer, payer |-> FeePayer, teamWallet |-> CliSettings.team_wallet,
     winner |-> tx.command.user, creator |-> tx.command.user,
     random |-> RandomnessAddress(tx.force)]
Passes(tx) ==
    LET user == tx.command.user
    IN  CASE tx.command.name = "config" -> [payer |-> user]
          [] tx.command.name = "create" ->
                [creator |-> user, treasury |-> Treasury, payer |-> FeePayer]
          [] tx.command.name = "join" ->
                [joiner |-> user, payer |-> FeePayer, teamWallet |-> CliSettings.team_wallet]
          [] tx.command.name = "winner" ->
                [creator |-> user, random |-> RandomnessAddress(tx.force)]
          [] tx.command.name = "claim" -> [winner |-> user, payer |-> FeePayer]

Keys(tx) ==
    CASE tx.command.name = "config" -> << >>
      [] tx.command.name = "create" -> [force |-> tx.force, gameRound |-> tx.round]
      [] tx.command.name \in {"join", "winner", "claim"} -> [roundNum |-> tx.round]

AccountsOf(tx) == Resolve(Entries(tx), Passes(tx), Keys(tx))

SignedBy(tx) ==
    {tx.command.user}
    \cup (IF tx.command.name \in {"create", "join", "claim"} THEN {FeePayer} ELSE {})

(***************************************************************************)
(* `winner` goes on to print the round when execTx returns, whatever it    *)
(* returns; the other commands end, and so does one that throws.           *)
(***************************************************************************)
Returned(s, result) ==
    run' = [run EXCEPT ![s].result = result,
                       ![s].at = IF run[s].tx.command.name = "winner" /\ result # "threw"
                                 THEN "printing" ELSE "ended"]

(***************************************************************************)
(* Every command first fetches the config account, which throws as long as *)
(* there is none.  `config` keeps the counter it read.                     *)
(***************************************************************************)
Draft_OneAhead(c) ==
    [NoTransaction EXCEPT !.command = c,
                          !.game_round = IF c.name = "config" /\ config.game_round < MaxRound
                                         THEN config.game_round + 1 ELSE config.game_round,
                          !.round = IF c.name \in {"join", "winner", "claim"} THEN c.round
                                    ELSE @]
Draft(c) ==
    [NoTransaction EXCEPT !.command = c,
                          !.game_round = IF c.name = "config" THEN config.game_round ELSE @,
                          !.round = IF c.name \in {"join", "winner", "claim"} THEN c.round
                                    ELSE @]

Fetched == Configured

Fetch(s, c) ==
    /\ run[s].at = "idle"
    /\ run' = [run EXCEPT ![s].tx = Draft(c),
                          ![s].at = IF ~Fetched THEN "ended"
                                    ELSE IF c.name \in {"create", "winner"} THEN "resolving"
                                    ELSE "signing",
                          ![s].result = IF Fetched THEN @ ELSE "threw"]
    /\ UNCHANGED <<vars, ledger>>

(***************************************************************************)
(* `create` draws a fresh seed and resolves the address of the new round   *)
(* from a second read of the counter; `winner` reads the round for the     *)
(* seed of its randomness, and throws when there is no such round.         *)
(***************************************************************************)
Fresh(f) == random[f].status = "none" /\ \A s \in Runs : run[s].tx.force # f

ResolveCreate(s, f) ==
    /\ run[s].at = "resolving"
    /\ run[s].tx.command.name = "create"
    /\ Fresh(f)
    /\ run' = [run EXCEPT ![s].at = "signing",
                          ![s].tx = [@ EXCEPT !.round = config.game_round, !.force = f]]
    /\ UNCHANGED <<vars, ledger>>

ResolveWinner(s) ==
    /\ run[s].at = "resolving"
    /\ run[s].tx.command.name = "winner"
    /\ LET g == games[run[s].tx.command.round]
       IN  IF g.exists
           THEN run' = [run EXCEPT ![s].at = "signing", ![s].tx.force = g.force]
           ELSE Returned(s, "threw")
    /\ UNCHANGED <<vars, ledger>>

(***************************************************************************)
(* The blockhash is read, and the transaction is sent if nobody's          *)
(* signature is missing: what its simulation says is printed and not       *)
(* looked at.                                                              *)
(***************************************************************************)
Send(s) ==
    /\ run[s].at = "signing"
    /\ SignersOf(Entries(run[s].tx), AccountsOf(run[s].tx)) \subseteq SignedBy(run[s].tx)
    /\ run' = [run EXCEPT ![s].at = "confirming", ![s].sent = TRUE, ![s].tx.hash = now]
    /\ UNCHANGED <<vars, ledger>>

(* A network call fails before anything was sent: outside execTx the       *)
(* command throws, inside it execTx returns undefined.                     *)
Abort(s, result) ==
    /\ \/ run[s].at = "resolving" /\ result = "threw"
       \/ run[s].at = "signing" /\ result \in {"threw", "undefined"}
    /\ Returned(s, result)
    /\ UNCHANGED <<vars, ledger>>

(***************************************************************************)
(* The ledger's side.  Accounts a transaction names must be those the      *)
(* program derives, and the keys it is signed with those it requires.      *)
(***************************************************************************)
NamesNextRound_Unchecked(acc) == TRUE
NamesNextRound(acc) == acc.gameGround = RoundAddress(config.game_round)

ExecutesConfig(tx, acc) ==
    /\ tx.command.name = "config"
    /\ Configure(acc.payer, [CliSettings EXCEPT !.game_round = tx.game_round])

ExecutesCreate(tx, acc) ==
    /\ tx.command.name = "create"
    /\ PaysForPlatform(acc)
    /\ NamesNextRound(acc)
    /\ CreateGame(tx.force, tx.command.time, tx.command.min_deposit, tx.command.max_joiner)

ExecutesJoin(tx, acc) ==
    /\ tx.command.name = "join"
    /\ PaysForPlatform(acc)
    /\ IsTeamWallet(acc)
    /\ JoinGame(tx.round, acc.joiner, tx.command.amount)

ExecutesWinner(tx, acc) ==
    /\ tx.command.name = "winner"
    /\ IsAuthority(acc)
    /\ acc.random = RandomnessAddress(games[tx.round].force)
    /\ SetWinner(tx.round)

ExecutesClaim(tx, acc) ==
    /\ tx.command.name = "claim"
    /\ PaysForPlatform(acc)
    /\ IsWinner(acc, tx.round)
    /\ ClaimReward(tx.round)

Executes(tx) ==
    LET acc == AccountsOf(tx)
    IN  \/ ExecutesConfig(tx, acc)
        \/ ExecutesCreate(tx, acc)
        \/ ExecutesJoin(tx, acc)
        \/ ExecutesWinner(tx, acc)
        \/ ExecutesClaim(tx, acc)

(* Why the ledger refuses a transaction, or NoError.                       *)
ChecksOf(tx) ==
    LET acc == AccountsOf(tx)
    IN  CASE tx.command.name = "config" -> ConfigureChecks(acc)
          [] tx.command.name = "create" ->
                CreateGameChecks(acc, tx.force, tx.command.time, tx.command.min_deposit,
                                 tx.command.max_joiner)
          [] tx.command.name = "join" -> JoinGameChecks(acc, tx.round, tx.command.amount)
          [] tx.command.name = "winner" -> SetWinnerChecks(acc, tx.round)
          [] tx.command.name = "claim" -> ClaimRewardChecks(acc, tx.round)

Refusal(tx) == FirstError(ChecksOf(tx))

Unprocessed(tx) == ~Executed(tx)

InFlight(s) ==
    /\ run[s].sent
    /\ now <= run[s].tx.hash + HashLife
    /\ Unprocessed(run[s].tx)

Land(s) ==
    LET tx == run[s].tx
    IN  /\ InFlight(s)
        /\ Executes(tx)
        /\ ledger' = ledger \cup {[tx |-> tx, error |-> NoError]}
        /\ UNCHANGED run

(* Preflight is skipped, so a transaction that fails is recorded as well.  *)
LandFailed(s) ==
    LET tx == run[s].tx
    IN  /\ InFlight(s)
        /\ Refusal(tx) # NoError
        /\ ledger' = ledger \cup {[tx |-> tx, error |-> Refusal(tx)]}
        /\ UNCHANGED <<vars, run>>

(***************************************************************************)
(* execTx learns the outcome of its transaction, or stops waiting for it:  *)
(* the wait times out, or a call fails, wherever the transaction is.       *)
(***************************************************************************)
Verdict_IgnoresError(e) == "signature"
Verdict(e) == IF e.error = NoError THEN "signature" ELSE "undefined"

Confirm(s) ==
    /\ run[s].at = "confirming"
    /\ \E e \in ledger : e.tx = run[s].tx /\ Returned(s, Verdict(e))
    /\ UNCHANGED <<vars, ledger>>

GiveUp(s) ==
    /\ run[s].at = "confirming"
    /\ Returned(s, "undefined")
    /\ UNCHANGED <<vars, ledger>>

PrintWinner(s) ==
    /\ run[s].at = "printing"
    /\ run' = [run EXCEPT ![s].at = "ended",
                          ![s].printed = games[run[s].tx.command.round].winner]
    /\ UNCHANGED <<vars, ledger>>

(***************************************************************************)
(* What happens elsewhere: the program is first configured by some other   *)
(* means, and configured again between any two steps of a run; the         *)
(* operator and players without the command line act, the oracle answers   *)
(* and time passes.  Gifts to the program's addresses are left to Jackpot. *)
(***************************************************************************)
Elsewhere ==
    /\ \/ \E payer \in Wallets \ Users, c \in Configs :
             Configure(payer, [c EXCEPT !.game_round = config.game_round])
       \/ \E f \in Forces, t \in RoundTimes, d \in MinDeposits, j \in JoinerLimits :
             Fresh(f) /\ CreateGame(f, t, d, j)
       \/ \E r \in Rounds, p \in Players \ Users, a \in DepositAmounts : JoinGame(r, p, a)
       \/ \E r \in Rounds : SetWinner(r)
       \/ \E r \in Rounds : games[r].winner \notin Users /\ ClaimReward(r)
       \/ \E f \in Forces, v \in RandomValues : Fulfill(f, v)
       \/ Tick
    /\ UNCHANGED clientVars

ClientInit ==
    /\ Init
    /\ run = [s \in Runs |-> NoRun]
    /\ ledger = {}

ClientNext ==
    \/ \E s \in Runs, c \in Commands : Fetch(s, c)
    \/ \E s \in Runs, f \in Forces : ResolveCreate(s, f)
    \/ \E s \in Runs : ResolveWinner(s)
    \/ \E s \in Runs : Send(s)
    \/ \E s \in Runs, result \in {"threw", "undefined"} : Abort(s, result)
    \/ \E s \in Runs : Land(s)
    \/ \E s \in Runs : LandFailed(s)
    \/ \E s \in Runs : Confirm(s)
    \/ \E s \in Runs : GiveUp(s)
    \/ \E s \in Runs : PrintWinner(s)
    \/ Elsewhere

ClientSpec == ClientInit /\ [][ClientNext]_allVars

-----------------------------------------------------------------------------
(***************************************************************************)
(* Types, and the ledger's word: a transaction has at most one outcome,    *)
(* only what some run sent is on the ledger, and every account of its      *)
(* instruction had an address when it was sent.                            *)
(***************************************************************************)
ClientTypeOK ==
    /\ TypeOK
    /\ \A s \in Runs :
          /\ run[s].at \in {"idle", "resolving", "signing", "confirming", "printing", "ended"}
          /\ run[s].result \in {"none", "signature", "undefined", "threw"}
          /\ run[s].tx.command \in Commands \cup {NoCommand}
          /\ run[s].tx.force \in Forces \cup {NoForce}
          /\ run[s].tx.round \in Rounds /\ run[s].tx.game_round \in Rounds
          /\ run[s].printed \in Wallets \cup {NoWallet}
          /\ run[s].sent =>
                Resolvable(Entries(run[s].tx), Passes(run[s].tx), Keys(run[s].tx))
    /\ \A e \in ledger :
          /\ e.error \in ContractErrors \cup OtherErrors \cup {NoError}
          /\ \E s \in Runs : run[s].sent /\ run[s].tx = e.tx
          /\ \A d \in ledger : d.tx = e.tx => d = e

(***************************************************************************)
(* A player's balance moves only by what the player signed: whatever was   *)
(* retried, given up or confirmed late, and whatever configure did to the  *)
(* fee after the player looked, it is the first balance, less each join    *)
(* that is on the ledger, once, plus what the player won.                  *)
(***************************************************************************)
JoinsOf(u) ==
    {e \in ledger : e.error = NoError /\ e.tx.command.name = "join" /\ e.tx.command.user = u}

Spent(u) == [e \in JoinsOf(u) |-> e.tx.command.amount]

Won(u) == [r \in Rounds |-> IF games[r].winner = u THEN paid[r] ELSE 0]

BalanceFollowsTransactions ==
    \A u \in Users :
        wallet[u] = InitialLamports[u] - SumFunction(Spent(u)) + SumFunction(Won(u))

(***************************************************************************)
(* What a run reports with a signature has happened and stays so, whatever *)
(* landed around it: who joined is on the list, who claimed is the winner  *)
(* and was paid, and a run that drew goes on to print that winner, never   *)
(* the zero key of an open round.  A transaction that failed has a         *)
(* signature, too, and only its error tells the two apart.                 *)
(***************************************************************************)
SignatureMeansEffect ==
    \A s \in Runs :
        LET tx == run[s].tx
            g == games[tx.round]
        IN  run[s].result = "signature" =>
                /\ tx.command.name = "join" => HasEntry(g, tx.command.user)
                /\ tx.command.name = "winner" =>
                      g.is_completed /\ (run[s].at = "ended" => run[s].printed = g.winner)
                /\ tx.command.name = "claim" =>
                      g.winner = tx.command.user /\ paid[tx.round] > 0

(***************************************************************************)
(* Runs of `create` that race for one counter value do not share a round:  *)
(* the round each confirmed run resolved carries the seed that run drew,   *)
(* even after a stale `config` has rewound the counter.                    *)
(***************************************************************************)
EachCreateHasItsRound ==
    \A s \in Runs :
        run[s].result = "signature" /\ run[s].tx.command.name = "create" =>
            /\ games[run[s].tx.round].exists
            /\ games[run[s].tx.round].force = run[s].tx.force

(***************************************************************************)
(* A run of `config` that lands late may take the counter back, but never  *)
(* beyond a number that has no round: every number below the counter is a  *)
(* round's, so no round is skipped and none is created apart from the      *)
(* others, wherever stale writes and creates fall.                         *)
(***************************************************************************)
NoRoundIsSkipped == \A r \in Rounds : r < config.game_round => games[r].exists

(***************************************************************************)
(* The winner that a run of `winner` prints, unless it prints the zero key *)
(* of a round not yet drawn, is the one the round keeps, although runs may *)
(* draw the same round concurrently and small rounds take late deposits.   *)
(***************************************************************************)
PrintedWinnerIsTheWinner ==
    \A s \in Runs :
        run[s].printed # NoWallet =>
            run[s].printed = games[run[s].tx.command.round].winner

(***************************************************************************)
(* What a transaction changes it has declared writable: the interface that *)
(* clients build transactions from and the program agree, or the runtime   *)
(* would undo every call of that instruction.                              *)
(***************************************************************************)
Touched ==
    {w \in Wallets : wallet'[w] # wallet[w]}
    \cup {RoundAddress(r) : r \in {q \in Rounds : games'[q] # games[q]}}
    \cup {RandomnessAddress(f) : f \in {e \in Forces : random'[e] # random[e]}}
    \cup (IF config' # config THEN {ConfigAddress} ELSE {})
    \cup (IF vault' # vault THEN {VaultAddress} ELSE {})

WritesAreDeclared ==
    [][\A e \in ledger' \ ledger :
          Touched \subseteq WritableOf(Entries(e.tx), AccountsOf(e.tx))]_allVars

(***************************************************************************)
(* Some refusals are final: who is told that a round is drawn, claimed,    *)
(* full or over is right, and is refused again whatever the others do      *)
(* next.  A run may therefore stop retrying.                               *)
(***************************************************************************)
FinalErrors ==
    {"setWinnerCompleted", "winnerClaimed", "userCountOverError", "gameAlreadyCompleted"}

FinalRefusalsStay ==
    \A e \in ledger : e.error \in FinalErrors => Refusal(e.tx) # NoError

(***************************************************************************)
(* Only the winner is told that a reward was claimed, and only after being *)
(* paid: a lost confirmation of a claim can be told from a lost prize.     *)
(***************************************************************************)
ClaimedMeansPaid ==
    \A e \in ledger : e.error = "winnerClaimed" =>
        /\ games[e.tx.round].winner = e.tx.command.user
        /\ paid[e.tx.round] > 0

-----------------------------------------------------------------------------
(***************************************************************************)
(* util.ts: execTx returns "The transaction signature, or undefined if     *)
(* execution failed", so what returned undefined has no effect, and a      *)
(* player who then joins again has joined once.                            *)
(***************************************************************************)
UndefinedMeansFailed ==
    \A s \in Runs : run[s].result = "undefined" => ~Succeeded(run[s].tx)

(***************************************************************************)
(* config.rs: the counter "increments with each new game", so no step      *)
(* takes it back.                                                          *)
(***************************************************************************)
CounterNeverRewinds == [][config'.game_round >= config.game_round]_allVars
=============================================================================
