------------------------ MODULE JackpotClientProofs ------------------------
(***************************************************************************)
(* Theorems about the command line for any number of runs, players and     *)
(* rounds, and any order in which the ledger executes what they sent.      *)
(***************************************************************************)
EXTENDS JackpotClient, JackpotProofs

-----------------------------------------------------------------------------
(***************************************************************************)
(* The addresses that a transaction names and the program looks at, and    *)
(* those it declares writable.                                             *)
(***************************************************************************)
LEMMA ResolvedAt ==
    ASSUME NEW entries, NEW passed, NEW keys, NEW a \in entries,
           \A b \in entries : b.name = a.name => b = a
    PROVE  Resolve(entries, passed, keys)[a.name] = AddressOf(a, passed, keys)
<1>1. (CHOOSE b \in entries : b.name = a.name) = a
  OBVIOUS
<1> QED BY <1>1 DEF Resolve

Writable(tx) == WritableOf(Entries(tx), AccountsOf(tx))

LEMMA EntryNames ==
    /\ \A n : Signer(n).name = n /\ Passed(n).name = n /\ Fixed(n).name = n
    /\ \A n, program, prefix, key : Derived(n, program, prefix, key).name = n
    /\ \A key : RoundKeyedBy(key).name = "gameGround"
    /\ GlobalConfig.name = "globalConfig"
    /\ GlobalVault.name = "globalVault"
    /\ SystemProgram.name = "systemProgram"
BY DEF Signer, Passed, Fixed, Derived, RoundKeyedBy, GlobalConfig, GlobalVault, SystemProgram

LEMMA NamesAreUnique ==
    ASSUME NEW tx, tx.command.name \in {"config", "create", "join", "winner", "claim"},
           NEW a \in Entries(tx), NEW b \in Entries(tx), a.name = b.name
    PROVE  a = b
<1>1. /\ tx.command.name = "config" => Entries(tx) = ConfigureAccounts
      /\ tx.command.name = "create" => Entries(tx) = CreateGameAccounts
      /\ tx.command.name = "join" => Entries(tx) = JoinGameAccounts
      /\ tx.command.name = "winner" => Entries(tx) = SetWinnerAccounts
      /\ tx.command.name = "claim" => Entries(tx) = ClaimRewardAccounts
  BY DEF Entries, AccountsOfInstruction, Instruction
<1>2. CASE tx.command.name = "config"
  BY <1>1, <1>2, EntryNames DEF ConfigureAccounts
<1>3. CASE tx.command.name = "create"
  BY <1>1, <1>3, EntryNames DEF CreateGameAccounts, OracleAccounts
<1>4. CASE tx.command.name = "join"
  BY <1>1, <1>4, EntryNames DEF JoinGameAccounts
<1>5. CASE tx.command.name = "winner"
  BY <1>1, <1>5, EntryNames DEF SetWinnerAccounts
<1>6. CASE tx.command.name = "claim"
  BY <1>1, <1>6, EntryNames DEF ClaimRewardAccounts
<1> QED BY <1>2, <1>3, <1>4, <1>5, <1>6

LEMMA EntryAt ==
    ASSUME NEW tx, tx.command.name \in {"config", "create", "join", "winner", "claim"},
           NEW a \in Entries(tx)
    PROVE  /\ AccountsOf(tx)[a.name] = AddressOf(a, Passes(tx), Keys(tx))
           /\ a.writable => AddressOf(a, Passes(tx), Keys(tx)) \in Writable(tx)
<1>1. \A b \in Entries(tx) : b.name = a.name => b = a
  BY NamesAreUnique
<1>2. AccountsOf(tx)[a.name] = AddressOf(a, Passes(tx), Keys(tx))
  BY <1>1, ResolvedAt DEF AccountsOf
<1> QED BY <1>2 DEF Writable, WritableOf

LEMMA ConfigNames ==
    ASSUME NEW tx, tx.command.name = "config"
    PROVE  /\ AccountsOf(tx).payer = tx.command.user
           /\ {tx.command.user, ConfigAddress, VaultAddress} \subseteq Writable(tx)
<1> DEFINE a == Signer("payer")
           b == Derived("config", "jackpot", "config", Unkeyed)
<1>1. Entries(tx) = ConfigureAccounts /\ Passes(tx).payer = tx.command.user
  BY DEF Entries, AccountsOfInstruction, Instruction, Passes
<1>2. {a, b, GlobalVault} \subseteq Entries(tx)
  BY <1>1 DEF ConfigureAccounts
<1>3. /\ a.name = "payer" /\ a.writable /\ b.writable /\ GlobalVault.writable
      /\ AddressOf(a, Passes(tx), Keys(tx)) = tx.command.user
      /\ AddressOf(b, Passes(tx), Keys(tx)) = ConfigAddress
      /\ AddressOf(GlobalVault, Passes(tx), Keys(tx)) = VaultAddress
  BY <1>1 DEF AddressOf, Signer, Derived, GlobalVault, ConfigAddress, VaultAddress, Pda
<1> HIDE DEF a, b
<1> QED BY <1>2, <1>3, EntryAt

LEMMA CreateNames ==
    ASSUME NEW tx, tx.command.name = "create"
    PROVE  /\ AccountsOf(tx).payer = FeePayer
           /\ AccountsOf(tx).gameGround = RoundAddress(tx.round)
           /\ {FeePayer, ConfigAddress, RoundAddress(tx.round), RandomnessAddress(tx.force)}
                 \subseteq Writable(tx)
<1> DEFINE a == Signer("payer")
           b == RoundKeyedBy("gameRound")
           c == Derived("random", "vrf", "orao-vrf-randomness-request", "force")
<1>1. /\ Entries(tx) = CreateGameAccounts /\ Passes(tx).payer = FeePayer
      /\ Keys(tx).gameRound = tx.round /\ Keys(tx).force = tx.force
  BY DEF Entries, AccountsOfInstruction, Instruction, Passes, Keys
<1>2. {a, b, c, GlobalConfig} \subseteq Entries(tx)
  BY <1>1 DEF CreateGameAccounts, OracleAccounts
<1>3. /\ a.name = "payer" /\ b.name = "gameGround"
      /\ a.writable /\ b.writable /\ c.writable /\ GlobalConfig.writable
      /\ AddressOf(a, Passes(tx), Keys(tx)) = FeePayer
      /\ AddressOf(b, Passes(tx), Keys(tx)) = RoundAddress(tx.round)
      /\ AddressOf(c, Passes(tx), Keys(tx)) = RandomnessAddress(tx.force)
      /\ AddressOf(GlobalConfig, Passes(tx), Keys(tx)) = ConfigAddress
  BY <1>1 DEF AddressOf, Signer, Derived, RoundKeyedBy, GlobalConfig, ConfigAddress,
              RoundAddress, RandomnessAddress, Pda, Unkeyed
<1> HIDE DEF a, b, c
<1> QED BY <1>2, <1>3, EntryAt

LEMMA JoinNames ==
    ASSUME NEW tx, tx.command.name = "join"
    PROVE  /\ AccountsOf(tx).payer = FeePayer
           /\ AccountsOf(tx).joiner = tx.command.user
           /\ AccountsOf(tx).teamWallet = CliSettings.team_wallet
           /\ {FeePayer, tx.command.user, CliSettings.team_wallet, VaultAddress,
               RoundAddress(tx.round)} \subseteq Writable(tx)
<1> DEFINE a == Signer("payer")
           b == RoundKeyedBy("roundNum")
           c == Signer("joiner")
           d == Passed("teamWallet")
<1>1. /\ Entries(tx) = JoinGameAccounts /\ Keys(tx).roundNum = tx.round
      /\ Passes(tx).payer = FeePayer /\ Passes(tx).joiner = tx.command.user
      /\ Passes(tx).teamWallet = CliSettings.team_wallet
  BY DEF Entries, AccountsOfInstruction, Instruction, Passes, Keys
<1>2. {a, b, c, d, GlobalVault} \subseteq Entries(tx)
  BY <1>1 DEF JoinGameAccounts
<1>3. /\ a.name = "payer" /\ c.name = "joiner" /\ d.name = "teamWallet"
      /\ a.writable /\ b.writable /\ c.writable /\ d.writable /\ GlobalVault.writable
      /\ AddressOf(a, Passes(tx), Keys(tx)) = FeePayer
      /\ AddressOf(b, Passes(tx), Keys(tx)) = RoundAddress(tx.round)
      /\ AddressOf(c, Passes(tx), Keys(tx)) = tx.command.user
      /\ AddressOf(d, Passes(tx), Keys(tx)) = CliSettings.team_wallet
      /\ AddressOf(GlobalVault, Passes(tx), Keys(tx)) = VaultAddress
  BY <1>1 DEF AddressOf, Signer, Passed, Derived, RoundKeyedBy, GlobalVault, VaultAddress,
              RoundAddress, Pda, Unkeyed
<1> HIDE DEF a, b, c, d
<1> QED BY <1>2, <1>3, EntryAt

LEMMA WinnerNames ==
    ASSUME NEW tx, tx.command.name = "winner"
    PROVE  RoundAddress(tx.round) \in Writable(tx)
<1> DEFINE b == RoundKeyedBy("roundNum")
<1>1. Entries(tx) = SetWinnerAccounts /\ Keys(tx).roundNum = tx.round
  BY DEF Entries, AccountsOfInstruction, Instruction, Keys
<1>2. b \in Entries(tx)
  BY <1>1 DEF SetWinnerAccounts
<1>3. b.writable /\ AddressOf(b, Passes(tx), Keys(tx)) = RoundAddress(tx.round)
  BY <1>1 DEF AddressOf, Derived, RoundKeyedBy, RoundAddress, Pda, Unkeyed
<1> HIDE DEF b
<1> QED BY <1>2, <1>3, EntryAt

LEMMA ClaimNames ==
    ASSUME NEW tx, tx.command.name = "claim"
    PROVE  /\ AccountsOf(tx).winner = tx.command.user
           /\ {tx.command.user, VaultAddress, RoundAddress(tx.round)} \subseteq Writable(tx)
<1> DEFINE a == Signer("winner")
           b == RoundKeyedBy("roundNum")
<1>1. /\ Entries(tx) = ClaimRewardAccounts /\ Keys(tx).roundNum = tx.round
      /\ Passes(tx).winner = tx.command.user
  BY DEF Entries, AccountsOfInstruction, Instruction, Passes, Keys
<1>2. {a, b, GlobalVault} \subseteq Entries(tx)
  BY <1>1 DEF ClaimRewardAccounts
<1>3. /\ a.name = "winner" /\ a.writable /\ b.writable /\ GlobalVault.writable
      /\ AddressOf(a, Passes(tx), Keys(tx)) = tx.command.user
      /\ AddressOf(b, Passes(tx), Keys(tx)) = RoundAddress(tx.round)
      /\ AddressOf(GlobalVault, Passes(tx), Keys(tx)) = VaultAddress
  BY <1>1 DEF AddressOf, Signer, Derived, RoundKeyedBy, GlobalVault, VaultAddress,
              RoundAddress, Pda, Unkeyed
<1> HIDE DEF a, b
<1> QED BY <1>2, <1>3, EntryAt

-----------------------------------------------------------------------------
(***************************************************************************)
(* Refusals: the first test that fails names the error, and the lists of   *)
(* tests name each final error once.                                       *)
(***************************************************************************)
LEMMA RefusedBy ==
    ASSUME NEW checks, Len(checks) \in Nat, FirstError(checks) # NoError
    PROVE  \E i \in 1..Len(checks) :
              /\ checks[i] = FirstError(checks)
              /\ \A j \in 1..(i - 1) : checks[j] = NoError
<1>1. Failed(checks) # {} /\ Failed(checks) \subseteq Nat
  BY DEF FirstError, Failed
<1>2. \E i \in Failed(checks) : \A j \in Failed(checks) : i <= j
  BY <1>1, LeastElement
<1>3. PICK i \in Failed(checks) : /\ \A j \in Failed(checks) : i <= j
                                  /\ FirstError(checks) = checks[i]
  BY <1>1, <1>2 DEF FirstError
<1>4. ASSUME NEW j \in 1..(i - 1)
      PROVE  checks[j] = NoError
  <2>1. i \in 1..Len(checks) /\ j \in 1..Len(checks) /\ ~ (i <= j)
    BY DEF Failed
  <2>2. j \notin Failed(checks)
    BY <1>3, <2>1
  <2> QED BY <2>1, <2>2 DEF Failed
<1> QED BY <1>3, <1>4 DEF Failed

LEMMA Refuses ==
    ASSUME NEW checks, Len(checks) \in Nat, NEW i \in 1..Len(checks), checks[i] # NoError
    PROVE  FirstError(checks) # NoError
<1>1. Failed(checks) # {} /\ Failed(checks) \subseteq Nat
  BY DEF Failed
<1>2. \E k \in Failed(checks) : \A j \in Failed(checks) : k <= j
  BY <1>1, LeastElement
<1>3. \E k \in Failed(checks) : FirstError(checks) = checks[k]
  BY <1>1, <1>2 DEF FirstError
<1> QED BY <1>3 DEF Failed

Named(error) == error \in ContractErrors \cup OtherErrors /\ error # NoError

LEMMA ConfigureList ==
    ASSUME NEW acc
    PROVE  LET checks == ConfigureChecks(acc)
           IN  /\ Len(checks) = 3
               /\ \A i \in 1..3 :
                     /\ checks[i] = NoError \/ Named(checks[i])
                     /\ checks[i] \notin FinalErrors
<1>1. \A i \in 1..3 : i \in {1, 2, 3}
  OBVIOUS
<1> QED BY <1>1
        DEF ConfigureChecks, Check, KeepsRent, Named, NoError, FinalErrors, ContractErrors,
            OtherErrors

LEMMA CreateGameList ==
    ASSUME NEW acc, NEW f, NEW t, NEW d, NEW m
    PROVE  LET checks == CreateGameChecks(acc, f, t, d, m)
           IN  /\ Len(checks) = 12
               /\ \A i \in 1..12 :
                     /\ checks[i] = NoError \/ Named(checks[i])
                     /\ checks[i] \notin FinalErrors
<1>1. \A i \in 1..12 : i \in {1, 2, 3, 4, 5, 6, 7, 8, 9, 10, 11, 12}
  OBVIOUS
<1> QED BY <1>1
        DEF CreateGameChecks, Check, KeepsRent, Named, NoError, FinalErrors, ContractErrors,
            OtherErrors

JoinedBy(r, user, amount) ==
    Joined(games[r], user, AmountApplied(amount, BpsMul(config.platform_fee, amount)))

LEMMA JoinedByFields ==
    ASSUME TypeOK, NEW r \in Rounds, NEW u \in Players, NEW a,
           AmountApplied(a, BpsMul(config.platform_fee, a)) \in Nat
    PROVE  /\ JoinedBy(r, u, a).user_count =
                 IF HasEntry(games[r], u) THEN games[r].user_count ELSE games[r].user_count + 1
           /\ JoinedBy(r, u, a).max_joiner_count = games[r].max_joiner_count
<1> DEFINE applied == AmountApplied(a, BpsMul(config.platform_fee, a))
           g == games[r]
           joined == Joined(g, u, applied)
<1>1. g \in GameGround /\ applied \in Nat
  BY DEF TypeOK
<1>2. JoinedBy(r, u, a) = joined
  BY DEF JoinedBy
<1> HIDE DEF g, applied
<1>3. /\ joined.user_count = IF HasEntry(g, u) THEN g.user_count ELSE g.user_count + 1
      /\ SameDraw(g, joined)
  BY ONLY <1>1, TypeOK, u \in Players, JoinedFields
<1> HIDE DEF joined
<1>4. joined.max_joiner_count = g.max_joiner_count
  BY <1>3 DEF SameDraw
<1> QED BY <1>2, <1>3, <1>4 DEF g

LEMMA JoinGameList ==
    ASSUME NEW acc, NEW r, NEW amount
    PROVE  LET checks == JoinGameChecks(acc, r, amount)
           IN  /\ Len(checks) = 13
               /\ checks[1] = Check(Configured /\ games[r].exists, "accountNotInitialized")
               /\ checks[7] = Check(OpenToJoin(games[r]), "gameAlreadyCompleted")
               /\ checks[8] = Check(FeeFits(BpsMul(config.platform_fee, amount), amount),
                                 FeeError(BpsMul(config.platform_fee, amount)))
               /\ checks[12] = Check(HasSeat(JoinedBy(r, acc.joiner, amount)),
                                  "userCountOverError")
               /\ \A i \in 1..13 :
                     /\ checks[i] = NoError \/ Named(checks[i])
                     /\ checks[i] = "gameAlreadyCompleted" => i = 7
                     /\ checks[i] = "userCountOverError" => i = 12
                     /\ checks[i] \notin {"setWinnerCompleted", "winnerClaimed"}
<1> DEFINE checks == JoinGameChecks(acc, r, amount)
           Harmless(e) == /\ e = NoError \/ Named(e)
                          /\ e \notin {"gameAlreadyCompleted", "userCountOverError",
                                       "setWinnerCompleted", "winnerClaimed"}
<1>1. \A i \in 1..13 : i \in {1, 2, 3, 4, 5, 6, 7, 8, 9, 10, 11, 12, 13}
  OBVIOUS
<1>2. /\ Len(checks) = 13
      /\ checks[1] = Check(Configured /\ games[r].exists, "accountNotInitialized")
      /\ checks[7] = Check(OpenToJoin(games[r]), "gameAlreadyCompleted")
      /\ checks[8] = Check(FeeFits(BpsMul(config.platform_fee, amount), amount),
                          FeeError(BpsMul(config.platform_fee, amount)))
      /\ checks[12] = Check(HasSeat(JoinedBy(r, acc.joiner, amount)), "userCountOverError")
  BY DEF JoinGameChecks, JoinedBy, Joined
<1>3. Harmless(checks[1]) /\ Harmless(checks[2]) /\ Harmless(checks[3])
      /\ Harmless(checks[4]) /\ Harmless(checks[5]) /\ Harmless(checks[6])
  BY DEF JoinGameChecks, Check, Named, NoError, ContractErrors, OtherErrors
<1>4. Harmless(checks[8]) /\ Harmless(checks[9]) /\ Harmless(checks[10])
      /\ Harmless(checks[11]) /\ Harmless(checks[13])
  BY DEF JoinGameChecks, Check, KeepsRent, FeeError, Named, NoError, ContractErrors, OtherErrors
<1>5. /\ checks[7] \in {NoError, "gameAlreadyCompleted"}
      /\ checks[12] \in {NoError, "userCountOverError"}
  BY <1>2 DEF Check
<1> HIDE DEF checks
<1>6. ASSUME NEW i \in 1..13
      PROVE  /\ checks[i] = NoError \/ Named(checks[i])
             /\ checks[i] = "gameAlreadyCompleted" => i = 7
             /\ checks[i] = "userCountOverError" => i = 12
             /\ checks[i] \notin {"setWinnerCompleted", "winnerClaimed"}
  <2>1. CASE i \notin {7, 12}
    <3>1. Harmless(checks[i])
      <4> HIDE DEF Harmless
      <4> QED BY <1>1, <1>3, <1>4, <2>1
    <3> QED BY <2>1, <3>1
  <2>2. CASE i \in {7, 12}
    BY <1>5, <2>2 DEF Named, NoError, ContractErrors, OtherErrors
  <2> QED BY <2>1, <2>2
<1> QED BY <1>2, <1>6 DEF checks

LEMMA SetWinnerList ==
    ASSUME NEW acc, NEW r
    PROVE  LET checks == SetWinnerChecks(acc, r)
           IN  /\ Len(checks) = 9
               /\ checks[6] = Check(NotDrawn(games[r]), "setWinnerCompleted")
               /\ \A i \in 1..9 :
                     /\ checks[i] = NoError \/ Named(checks[i])
                     /\ checks[i] \in FinalErrors => i = 6
<1>1. \A i \in 1..9 : i \in {1, 2, 3, 4, 5, 6, 7, 8, 9}
  OBVIOUS
<1> QED BY <1>1
        DEF SetWinnerChecks, Check, KeepsRent, Named, NoError, FinalErrors, ContractErrors,
            OtherErrors

LEMMA ClaimRewardList ==
    ASSUME NEW acc, NEW r
    PROVE  LET checks == ClaimRewardChecks(acc, r)
           IN  /\ Len(checks) = 9
               /\ checks[2] = Check(IsWinner(acc, r), "incorrectAuthority")
               /\ checks[5] = Check(~games[r].is_claimed, "winnerClaimed")
               /\ \A i \in 1..9 :
                     /\ checks[i] = NoError \/ Named(checks[i])
                     /\ checks[i] \in FinalErrors => i = 5
<1>1. \A i \in 1..9 : i \in {1, 2, 3, 4, 5, 6, 7, 8, 9}
  OBVIOUS
<1> QED BY <1>1
        DEF ClaimRewardChecks, Check, KeepsRent, Named, NoError, FinalErrors, ContractErrors,
            OtherErrors

-----------------------------------------------------------------------------
(***************************************************************************)
(* What a run knows.  A run that has sent has been told a command, holds   *)
(* the keys of its accounts, and never changes its transaction again.      *)
(***************************************************************************)
Transaction ==
    [command : Commands \cup {NoCommand}, game_round : Rounds, round : Rounds,
     force : Forces \cup {NoForce}, hash : Nat]

RunState ==
    [at : {"idle", "resolving", "signing", "confirming", "printing", "ended"},
     tx : Transaction, sent : BOOLEAN,
     result : {"none", "signature", "undefined", "threw"},
     printed : Wallets \cup {NoWallet}]

Resolved(tx) ==
    /\ tx.command \in Commands
    /\ tx.command.name = "create" => tx.force \in Forces

RunInv(k) ==
    /\ k \in RunState
    /\ k.at = "idle" => k = NoRun
    /\ k.at \in {"resolving", "signing"} => ~k.sent
    /\ k.at = "resolving" => k.tx.command \in Commands
    /\ k.at \in {"signing", "confirming"} => Resolved(k.tx)
    /\ k.sent => Resolved(k.tx)
    /\ k.sent \/ k.at \in {"resolving", "signing", "confirming"} => Configured
    /\ k.at = "printing" => k.tx.command \in Commands /\ k.tx.command.name = "winner"
    /\ k.tx.command.name = "winner" => k.tx.round = k.tx.command.round
    /\ k.result = "signature" => k.at \in {"printing", "ended"} /\ Succeeded(k.tx)
    /\ k.result = "signature" /\ k.tx.command.name = "winner" /\ k.at = "ended" =>
          /\ k.tx.command \in Commands
          /\ games[k.tx.command.round].is_completed
          /\ games[k.tx.command.round].winner = k.printed
    /\ k.printed # NoWallet =>
          /\ k.at = "ended"
          /\ k.tx.command \in Commands
          /\ k.tx.command.name = "winner"
          /\ games[k.tx.command.round].is_completed
          /\ games[k.tx.command.round].winner = k.printed

(* The round of a refused transaction is in a state that lasts.            *)
Full(g, user) ==
    /\ g.exists
    /\ ~HasEntry(g, user)
    /\ g.user_count >= g.max_joiner_count

Locked(g) == g.exists /\ ~OpenToJoin(g)

FinalRecord(tx, error) ==
    LET g == games[tx.round]
    IN  /\ error = "winnerClaimed" =>
              tx.command.name = "claim" /\ g.is_claimed /\ g.winner = tx.command.user
        /\ error = "setWinnerCompleted" => tx.command.name = "winner" /\ g.is_completed
        /\ error = "userCountOverError" =>
              tx.command.name = "join" /\ Full(g, tx.command.user)
        /\ error = "gameAlreadyCompleted" => tx.command.name = "join" /\ Locked(g)

(* What a transaction has done to its round, and what lasts of it.         *)
Effect(tx) ==
    LET g == games[tx.round]
    IN  /\ tx.command.name = "create" => g.exists /\ g.force = tx.force
        /\ tx.command.name = "join" => g.exists /\ HasEntry(g, tx.command.user)
        /\ tx.command.name = "winner" => g.is_completed
        /\ tx.command.name = "claim" => g.is_claimed /\ g.winner = tx.command.user

LedgerInv ==
    \A e \in ledger :
        /\ e = [tx |-> e.tx, error |-> e.error]
        /\ e.tx \in Transaction
        /\ e.error = NoError \/ Named(e.error)
        /\ FinalRecord(e.tx, e.error)
        /\ \E s \in Runs : run[s].sent /\ run[s].tx = e.tx
        /\ \A d \in ledger : d.tx = e.tx => d = e
        /\ e.error = NoError => Effect(e.tx)

ClientInv ==
    /\ IInv
    /\ run \in [Runs -> RunState]
    /\ \A s \in Runs : RunInv(run[s])
    /\ LedgerInv

LEMMA InitClientInv == ClientInit => ClientInv
<1> SUFFICES ASSUME ClientInit PROVE ClientInv
  OBVIOUS
<1>1. IInv
  BY InitIInv DEF ClientInit
<1>2. NoTransaction \in Transaction
  BY BoundsAssumption DEF NoTransaction, Transaction, Rounds
<1>3. NoRun \in RunState
  BY <1>2 DEF NoRun, RunState
<1>4. RunInv(NoRun)
  BY <1>3 DEF RunInv, NoRun, NoTransaction, NoCommand
<1>5. run \in [Runs -> RunState] /\ \A s \in Runs : RunInv(run[s])
  BY <1>3, <1>4 DEF ClientInit
<1>6. LedgerInv
  BY DEF ClientInit, LedgerInv
<1> QED BY <1>1, <1>5, <1>6 DEF ClientInv

-----------------------------------------------------------------------------
(***************************************************************************)
(* Every step is one of the program's, or one it does not notice.          *)
(***************************************************************************)
LEMMA CommandFields ==
    ASSUME NEW c \in Commands
    PROVE  /\ c.name \in {"config", "create", "join", "winner", "claim"}
           /\ c.user \in Wallets
           /\ c.name = "create" => /\ c.time \in RoundTimes
                                   /\ c.min_deposit \in MinDeposits
                                   /\ c.max_joiner \in JoinerLimits
           /\ c.name = "join" => c.user \in Players /\ c.amount \in DepositAmounts
           /\ c.name \in {"join", "winner", "claim"} => c.round \in Rounds
BY ClientAssumption, WalletsAssumption DEF CommandType

LEMMA ExecutesStep ==
    ASSUME NEW tx \in Transaction, Resolved(tx), Executes(tx)
    PROVE  Next
<1> DEFINE acc == AccountsOf(tx)
<1>1. tx.command \in Commands
  BY DEF Resolved
<1>2. CASE ExecutesConfig(tx, acc)
  <2>1. acc.payer \in Wallets
    BY <1>1, <1>2, ConfigNames, CommandFields DEF ExecutesConfig
  <2>2. tx.game_round \in CounterResets /\ CliSettings \in Configs
    BY ClientAssumption DEF Transaction
  <2> QED BY <1>2, <2>1, <2>2 DEF ExecutesConfig, Next
<1>3. CASE ExecutesCreate(tx, acc)
  <2>1. tx.force \in Forces
    BY <1>3 DEF Resolved, ExecutesCreate
  <2> QED BY <1>1, <1>3, <2>1, CommandFields DEF ExecutesCreate, Next
<1>4. CASE ExecutesJoin(tx, acc)
  <2>1. acc.joiner \in Players
    BY <1>1, <1>4, JoinNames, CommandFields DEF ExecutesJoin
  <2>2. tx.round \in Rounds
    BY DEF Transaction
  <2> QED BY <1>1, <1>4, <2>1, <2>2, CommandFields DEF ExecutesJoin, Next
<1>5. CASE ExecutesWinner(tx, acc)
  BY <1>5 DEF ExecutesWinner, Next, Transaction
<1>6. CASE ExecutesClaim(tx, acc)
  BY <1>6 DEF ExecutesClaim, Next, Transaction
<1> QED BY <1>2, <1>3, <1>4, <1>5, <1>6 DEF Executes

LEMMA ElsewhereStep ==
    ASSUME Elsewhere
    PROVE  Next
BY WalletsAssumption DEF Elsewhere, Next

LEMMA ClientStep == ClientInv /\ [ClientNext]_allVars => [Next]_vars
<1> SUFFICES ASSUME ClientInv, [ClientNext]_allVars PROVE [Next]_vars
  OBVIOUS
<1>1. ASSUME NEW s \in Runs, Land(s)
      PROVE  Next
  <2>1. run[s].tx \in Transaction /\ Resolved(run[s].tx)
    BY <1>1 DEF Land, InFlight, ClientInv, RunInv, RunState
  <2> QED BY <1>1, <2>1, ExecutesStep DEF Land
<1>2. CASE UNCHANGED allVars
  BY <1>2 DEF allVars, vars
<1>3. CASE ClientNext
  BY <1>1, <1>3, ElsewhereStep DEF ClientNext, Fetch, ResolveCreate, ResolveWinner, Send,
     Abort, LandFailed, Confirm, GiveUp, PrintWinner
<1> QED BY <1>2, <1>3

(***************************************************************************)
(* What a run knows stays true while the program and the ledger move.      *)
(***************************************************************************)
LEMMA RoundsKeep ==
    ASSUME IInv, [Next]_vars, NEW r \in Rounds
    PROVE  DrawKept(r) /\ DepositsKept(r)
<1>1. CASE Next
  BY <1>1, DrawStays, DepositsStay
<1>2. CASE UNCHANGED vars
  <2>1. games' = games
    BY <1>2 DEF vars
  <2>2. games[r].deposit_list \in Seq(DepositInfo)
    BY DEF IInv, TypeOK, GameGround
  <2> QED BY <2>1, <2>2, EntriesKeptBySame DEF DrawKept, DepositsKept
<1> QED BY <1>1, <1>2

LEMMA ConfigAndTimeMove ==
    ASSUME [Next]_vars
    PROVE  /\ \/ config' = config
              \/ config'.authority = config.authority
              \/ \E c \in Configs, n \in {config.game_round} \cup CounterResets :
                    config' = [c EXCEPT !.game_round = n]
           /\ now' = now \/ now' = now + 1
<1>1. ASSUME NEW payer \in Wallets, NEW c \in Configs,
             NEW n \in {config.game_round} \cup CounterResets,
             Configure(payer, [c EXCEPT !.game_round = n])
      PROVE  config' = [c EXCEPT !.game_round = n] /\ now' = now
  BY <1>1 DEF Configure
<1>2. ASSUME NEW f \in Forces, NEW t \in RoundTimes, NEW d \in MinDeposits,
             NEW j \in JoinerLimits, CreateGame(f, t, d, j)
      PROVE  config'.authority = config.authority /\ now' = now
  BY <1>2 DEF CreateGame
<1>3. ASSUME NEW r \in Rounds, NEW p \in Players, NEW a \in DepositAmounts, JoinGame(r, p, a)
      PROVE  config' = config /\ now' = now
  BY <1>3 DEF JoinGame
<1>4. ASSUME NEW r \in Rounds, SetWinner(r) \/ ClaimReward(r)
      PROVE  config' = config /\ now' = now
  BY <1>4 DEF SetWinner, ClaimReward
<1>5. CASE UNCHANGED vars
  BY <1>5 DEF vars
<1> QED BY <1>1, <1>2, <1>3, <1>4, <1>5 DEF Next, Fulfill, Tick, EndowVault, EndowRound

LEMMA ConfiguredStays ==
    ASSUME IInv, [Next]_vars, Configured
    PROVE  Configured'
<1>1. ASSUME NEW c \in Configs, NEW n
      PROVE  [c EXCEPT !.game_round = n].authority \in Wallets
  BY ConfigsAssumption DEF ConfigData
<1> QED BY <1>1, ConfigAndTimeMove, WalletsAssumption DEF Configured

LEMMA TimeMoves ==
    ASSUME IInv, [Next]_vars
    PROVE  now \in Nat /\ now' \in Nat /\ now' >= now
<1>1. now \in Nat
  BY BoundsAssumption DEF IInv, TypeOK
<1> QED BY <1>1, ConfigAndTimeMove

(***************************************************************************)
(* What an instruction other than join_game leaves alone in a round.       *)
(***************************************************************************)
SameSeats(g, h) ==
    /\ h.exists = g.exists
    /\ h.deposit_list = g.deposit_list
    /\ h.user_count = g.user_count
    /\ h.max_joiner_count = g.max_joiner_count
    /\ h.end_date = g.end_date
    /\ g.is_completed => h.is_completed
    /\ g.is_claimed => h.is_claimed

LEMMA RoundMoves ==
    ASSUME IInv, [Next]_vars, NEW q \in Rounds, games[q].exists
    PROVE  \/ SameSeats(games[q], games'[q])
           \/ \E p \in Players, a \in DepositAmounts : JoinGame(q, p, a)
<1>1. games \in [Rounds -> GameGround] /\ config.game_round \in Rounds
  BY DEF IInv, TypeOK, ConfigData
<1>2. CASE games' = games
  BY <1>2 DEF SameSeats
<1>3. ASSUME NEW f \in Forces, NEW t \in RoundTimes, NEW d \in MinDeposits,
             NEW j \in JoinerLimits, CreateGame(f, t, d, j)
      PROVE  games'[q] = games[q]
  BY <1>1, <1>3 DEF CreateGame, Vacant
<1>4. ASSUME NEW r \in Rounds, NEW p \in Players, NEW a \in DepositAmounts, JoinGame(r, p, a)
      PROVE  r = q \/ games'[q] = games[q]
  BY <1>1, <1>4 DEF JoinGame
<1>5. ASSUME NEW r \in Rounds, SetWinner(r)
      PROVE  SameSeats(games[q], games'[q])
  <2> DEFINE word == CurrentState(games[r].force)
             h == WithWinner(games[r], word)
  <2>1. games' = [games EXCEPT ![r] = h]
    BY <1>5 DEF SetWinner
  <2>2. SameSeats(games[r], h)
    <3> HIDE DEF word
    <3> QED BY <1>1 DEF WithWinner, GameGround, SameSeats
  <2> HIDE DEF h
  <2> QED BY <1>1, <2>1, <2>2 DEF SameSeats
<1>6. ASSUME NEW r \in Rounds, ClaimReward(r)
      PROVE  SameSeats(games[q], games'[q])
  <2>1. games' = [games EXCEPT ![r] = AfterClaim(games[r])]
    BY <1>6 DEF ClaimReward
  <2>2. SameSeats(games[r], AfterClaim(games[r]))
    BY <1>1 DEF AfterClaim, GameGround, SameSeats
  <2> QED BY <1>1, <2>1, <2>2 DEF SameSeats
<1>7. ASSUME NEW w \in Donors, NEW r \in Rounds, NEW a \in Gifts, EndowRound(w, r, a)
      PROVE  SameSeats(games[q], games'[q])
  <2>1. games' = [games EXCEPT ![r] = Endowed(games[r], a)]
    BY <1>7, EndowRoundStep
  <2>2. SameSeats(games[r], Endowed(games[r], a))
    BY <1>1 DEF Endowed, GameGround, SameSeats
  <2> QED BY <1>1, <2>1, <2>2 DEF SameSeats
<1> QED BY <1>2, <1>3, <1>4, <1>5, <1>6, <1>7
        DEF Next, Configure, Fulfill, Tick, EndowVault, vars, SameSeats

(***************************************************************************)
(* What a join does to the round, as far as its guards allow it.           *)
(***************************************************************************)
LEMMA JoinMoves ==
    ASSUME IInv, NEW q \in Rounds, NEW p \in Players, NEW a \in DepositAmounts,
           JoinGame(q, p, a)
    PROVE  /\ OpenToJoin(games[q])
           /\ JoinedBy(q, p, a) \in GameGround
           /\ games'[q] = JoinedBy(q, p, a)
           /\ SameDraw(games[q], games'[q])
           /\ HasSeat(games'[q])
           /\ games'[q].user_count =
                 IF HasEntry(games[q], p) THEN games[q].user_count ELSE games[q].user_count + 1
           /\ games'[q].deposit_list = DepositedList(games[q], p,
                 AmountApplied(a, BpsMul(config.platform_fee, a)))
<1> DEFINE fee == BpsMul(config.platform_fee, a)
           applied == AmountApplied(a, fee)
<1>1. games \in [Rounds -> GameGround] /\ TypeOK
  BY DEF IInv, TypeOK
<1>2. a \in Nat /\ fee \in Nat
  BY InputsAssumption, FeeIsNat DEF IInv, TypeOK, ConfigData
<1>3. fee <= a
  BY DEF JoinGame, FeeFits
<1>4. applied \in Nat
  <2> HIDE DEF fee
  <2> QED BY <1>2, <1>3 DEF AmountApplied
<1>5. /\ games' = [games EXCEPT ![q] = JoinedBy(q, p, a)]
      /\ OpenToJoin(games[q]) /\ HasSeat(JoinedBy(q, p, a))
  BY DEF JoinGame, Joined, JoinedBy
<1>6. games'[q] = Joined(games[q], p, applied)
  BY <1>1, <1>5 DEF JoinedBy
<1> HIDE DEF applied, fee
<1> QED BY <1>1, <1>4, <1>5, <1>6, JoinedFields DEF DepositedList, JoinedBy, applied, fee

LEMMA RunInvStays ==
    ASSUME IInv, [Next]_vars, ledger \subseteq ledger', NEW k, RunInv(k)
    PROVE  RunInv(k)'
<1>1. k.result = "signature" => Succeeded(k.tx)'
  BY DEF RunInv, Succeeded
<1>2. k.printed # NoWallet =>
          /\ games'[k.tx.command.round].is_completed
          /\ games'[k.tx.command.round].winner = k.printed
  <2> SUFFICES ASSUME k.printed # NoWallet
               PROVE  /\ games'[k.tx.command.round].is_completed
                      /\ games'[k.tx.command.round].winner = k.printed
    OBVIOUS
  <2>1. k.tx.command.round \in Rounds
    BY CommandFields DEF RunInv
  <2> QED BY <2>1, RoundsKeep DEF RunInv, DrawKept
<1>3. ASSUME k.result = "signature", k.tx.command.name = "winner", k.at = "ended"
      PROVE  /\ games'[k.tx.command.round].is_completed
             /\ games'[k.tx.command.round].winner = k.printed
  <2>1. k.tx.command.round \in Rounds
    BY <1>3, CommandFields DEF RunInv
  <2> QED BY <1>3, <2>1, RoundsKeep DEF RunInv, DrawKept
<1> QED BY <1>1, <1>2, <1>3, ConfiguredStays DEF RunInv

(***************************************************************************)
(* The step of one run, which the program and the ledger do not notice.    *)
(***************************************************************************)
LEMMA OneRunMoves ==
    ASSUME ClientInv, UNCHANGED <<vars, ledger>>, NEW s \in Runs, NEW k \in RunState,
           run' = [run EXCEPT ![s] = k], RunInv(k),
           run[s].sent => k.sent /\ k.tx = run[s].tx
    PROVE  ClientInv'
<1>1. IInv'
  BY NextIInv DEF ClientInv
<1>2. run' \in [Runs -> RunState]
  BY DEF ClientInv
<1>3. games' = games /\ ledger' = ledger /\ Configured' = Configured /\ now' = now
  BY DEF vars, Configured
<1>4. \A q \in Runs : RunInv(run[q])
  BY DEF ClientInv
<1>5. ASSUME NEW q \in Runs
      PROVE  RunInv(run[q])'
  <2>1. ASSUME NEW m, RunInv(m)
        PROVE  RunInv(m)'
    BY <1>3, <2>1, RunInvStays DEF ClientInv
  <2>2. CASE q = s
    <3>1. run'[q] = k
      BY <2>2 DEF ClientInv
    <3> QED BY <2>1, <3>1
  <2>3. CASE q # s
    <3>1. run'[q] = run[q]
      BY <2>3 DEF ClientInv
    <3> QED BY <1>4, <2>1, <3>1
  <2> QED BY <2>2, <2>3
<1>6. LedgerInv'
  <2>1. \A q \in Runs : run[q].sent => run'[q].sent /\ run'[q].tx = run[q].tx
    BY DEF ClientInv
  <2>2. \A e \in ledger : /\ FinalRecord(e.tx, e.error)' = FinalRecord(e.tx, e.error)
                          /\ Effect(e.tx)' = Effect(e.tx)
    BY <1>3 DEF FinalRecord, Full, HasEntry, Locked, OpenToJoin, Effect
  <2> QED BY <1>3, <2>1, <2>2 DEF ClientInv, LedgerInv
<1> QED BY <1>1, <1>2, <1>5, <1>6 DEF ClientInv

LEMMA DraftType ==
    ASSUME TypeOK, NEW c \in Commands
    PROVE  /\ Draft(c) \in Transaction
           /\ Draft(c).command = c
           /\ c.name = "winner" => Draft(c).round = c.round
<1>1. config.game_round \in Rounds
  BY DEF TypeOK, ConfigData
<1>2. 0 \in Rounds
  BY BoundsAssumption DEF Rounds
<1> QED BY <1>1, <1>2, CommandFields DEF Draft, NoTransaction, Transaction

LEMMA FetchInv ==
    ASSUME ClientInv, NEW s \in Runs, NEW c \in Commands, Fetch(s, c)
    PROVE  ClientInv'
<1> DEFINE at == IF ~Fetched THEN "ended"
                 ELSE IF c.name \in {"create", "winner"} THEN "resolving" ELSE "signing"
           result == IF Fetched THEN run[s].result ELSE "threw"
           k == [run[s] EXCEPT !.tx = Draft(c), !.at = at, !.result = result]
<1>1. run[s] = NoRun /\ run[s] \in RunState
  BY DEF Fetch, ClientInv, RunInv
<1>2. /\ Draft(c) \in Transaction /\ Draft(c).command = c
      /\ c.name = "winner" => Draft(c).round = c.round
  BY DraftType DEF ClientInv, IInv
<1>3. run' = [run EXCEPT ![s] = k] /\ UNCHANGED <<vars, ledger>>
  BY DEF Fetch, ClientInv
<1>4. k \in RunState
  BY <1>1, <1>2 DEF RunState
<1>5. /\ k.at = at /\ k.tx = Draft(c) /\ k.sent = FALSE /\ k.printed = NoWallet
      /\ k.result # "signature"
  BY <1>1 DEF RunState, NoRun
<1>6. /\ at \in {"ended", "resolving", "signing"}
      /\ at = "signing" => c.name # "create"
      /\ at # "ended" => Configured
  BY DEF Fetched
<1> HIDE DEF k, at
<1>7. RunInv(k)
  BY <1>2, <1>4, <1>5, <1>6 DEF RunInv, Resolved
<1>8. ~run[s].sent
  BY <1>1 DEF NoRun
<1> QED BY <1>3, <1>4, <1>7, <1>8, OneRunMoves

LEMMA ResolveInv ==
    ASSUME ClientInv, NEW s \in Runs,
           ResolveWinner(s) \/ \E f \in Forces : ResolveCreate(s, f)
    PROVE  ClientInv'
<1>1. /\ run[s] \in RunState /\ RunInv(run[s])
      /\ run[s].at = "resolving" /\ ~run[s].sent
      /\ run[s].tx \in Transaction /\ run[s].tx.command \in Commands
      /\ run[s].printed = NoWallet /\ run[s].result # "signature" /\ Configured
  BY DEF ResolveWinner, ResolveCreate, ClientInv, RunInv, RunState
<1>2. ASSUME NEW k \in RunState, run' = [run EXCEPT ![s] = k], UNCHANGED <<vars, ledger>>,
             k.at \in {"signing", "ended"}, k.at = "signing" => Resolved(k.tx),
             k.sent = FALSE, k.printed = NoWallet, k.result # "signature",
             k.tx.command.name = "winner" => k.tx.round = k.tx.command.round
      PROVE  ClientInv'
  <2>1. RunInv(k)
    BY <1>1, <1>2 DEF RunInv
  <2> QED BY <1>1, <1>2, <2>1, OneRunMoves
<1>3. ASSUME NEW f \in Forces, ResolveCreate(s, f)
      PROVE  ClientInv'
  <2> DEFINE t == [run[s].tx EXCEPT !.round = config.game_round, !.force = f]
             k == [run[s] EXCEPT !.at = "signing", !.tx = t]
  <2>1. config.game_round \in Rounds
    BY DEF ClientInv, IInv, TypeOK, ConfigData
  <2>2. t \in Transaction /\ Resolved(t)
    BY <1>1, <2>1 DEF Transaction, Resolved
  <2>3. run' = [run EXCEPT ![s] = k] /\ UNCHANGED <<vars, ledger>>
    BY <1>1, <1>3 DEF ResolveCreate, ClientInv, RunState, Transaction
  <2>4. k \in RunState /\ k.tx = t /\ k.at = "signing" /\ k.sent = FALSE
        /\ k.printed = NoWallet /\ k.result # "signature"
    <3> HIDE DEF t
    <3> QED BY <1>1, <2>2 DEF RunState
  <2>5. t.command.name = "create"
    BY <1>1, <1>3 DEF ResolveCreate, Transaction
  <2> HIDE DEF k, t
  <2> QED BY <1>2, <2>2, <2>3, <2>4, <2>5
<1>4. ASSUME ResolveWinner(s), games[run[s].tx.command.round].exists
      PROVE  ClientInv'
  <2> DEFINE r == run[s].tx.command.round
             t == [run[s].tx EXCEPT !.force = games[r].force]
             k == [run[s] EXCEPT !.at = "signing", !.tx = t]
  <2>1. run[s].tx.command.name = "winner"
    BY <1>4 DEF ResolveWinner
  <2>2. games[r].force \in Forces
    BY <1>1, <1>4, <2>1, CommandFields DEF ClientInv, IInv, TypeOK
  <2>3. t \in Transaction /\ Resolved(t)
    BY <1>1, <2>2 DEF Transaction, Resolved
  <2>4. run' = [run EXCEPT ![s] = k] /\ UNCHANGED <<vars, ledger>>
    BY <1>1, <1>4 DEF ResolveWinner, ClientInv, RunState, Transaction
  <2>5. k \in RunState /\ k.tx = t /\ k.at = "signing" /\ k.sent = FALSE
        /\ k.printed = NoWallet /\ k.result # "signature"
    <3> HIDE DEF t
    <3> QED BY <1>1, <2>3 DEF RunState
  <2>6. t.round = t.command.round
    BY <1>1, <2>1 DEF RunInv, Transaction
  <2> HIDE DEF k, t
  <2> QED BY <1>2, <2>3, <2>4, <2>5, <2>6
<1>5. ASSUME ResolveWinner(s), ~games[run[s].tx.command.round].exists
      PROVE  ClientInv'
  <2> DEFINE k == [run[s] EXCEPT !.result = "threw", !.at = "ended"]
  <2>1. run' = [run EXCEPT ![s] = k] /\ UNCHANGED <<vars, ledger>>
    BY <1>1, <1>5 DEF ResolveWinner, Returned, ClientInv, RunState
  <2>2. k \in RunState /\ k.tx = run[s].tx /\ k.at = "ended" /\ k.sent = FALSE
        /\ k.printed = NoWallet /\ k.result # "signature"
    BY <1>1 DEF RunState
  <2> HIDE DEF k
  <2> QED BY <1>1, <1>2, <2>1, <2>2 DEF RunInv
<1> QED BY <1>3, <1>4, <1>5

LEMMA SendInv ==
    ASSUME ClientInv, NEW s \in Runs, Send(s)
    PROVE  ClientInv'
<1> DEFINE t == [run[s].tx EXCEPT !.hash = now]
           k == [run[s] EXCEPT !.at = "confirming", !.sent = TRUE, !.tx = t]
<1>1. /\ run[s] \in RunState /\ RunInv(run[s])
      /\ run[s].at = "signing" /\ ~run[s].sent
      /\ run[s].tx \in Transaction /\ Resolved(run[s].tx)
      /\ run[s].printed = NoWallet /\ run[s].result # "signature" /\ Configured
  BY DEF Send, ClientInv, RunInv, RunState
<1>2. now \in Nat
  BY BoundsAssumption DEF ClientInv, IInv, TypeOK
<1>3. t \in Transaction /\ Resolved(t)
  BY <1>1, <1>2 DEF Transaction, Resolved
<1>4. run' = [run EXCEPT ![s] = k] /\ UNCHANGED <<vars, ledger>>
  BY <1>1 DEF Send, ClientInv, RunState, Transaction
<1>5. k \in RunState /\ k.tx = t /\ k.at = "confirming" /\ k.sent = TRUE
      /\ k.printed = NoWallet /\ k.result # "signature"
  <2> HIDE DEF t
  <2> QED BY <1>1, <1>3 DEF RunState
<1>6. t.command = run[s].tx.command /\ t.round = run[s].tx.round
  BY <1>1 DEF Transaction
<1> HIDE DEF k, t
<1>7. RunInv(k)
  BY <1>1, <1>3, <1>5, <1>6 DEF RunInv
<1> QED BY <1>1, <1>4, <1>5, <1>7, OneRunMoves

(***************************************************************************)
(* execTx returns, or the command throws before it.                        *)
(***************************************************************************)
LEMMA ReturnedInv ==
    ASSUME ClientInv, UNCHANGED <<vars, ledger>>, NEW s \in Runs,
           NEW result \in {"signature", "undefined", "threw"}, Returned(s, result),
           run[s].at \in {"resolving", "signing", "confirming"},
           result = "signature" => Succeeded(run[s].tx)
    PROVE  ClientInv'
<1> DEFINE at == IF run[s].tx.command.name = "winner" /\ result # "threw"
                 THEN "printing" ELSE "ended"
           k == [run[s] EXCEPT !.result = result, !.at = at]
<1>1. /\ run[s] \in RunState /\ RunInv(run[s])
      /\ run[s].tx \in Transaction /\ run[s].tx.command \in Commands
      /\ run[s].sent => Resolved(run[s].tx)
      /\ run[s].printed = NoWallet
  BY DEF ClientInv, RunInv, RunState, Resolved
<1>2. run' = [run EXCEPT ![s] = k]
  BY <1>1 DEF Returned, ClientInv, RunState
<1>3. /\ at \in {"printing", "ended"}
      /\ at = "printing" => run[s].tx.command.name = "winner"
      /\ at = "ended" => run[s].tx.command.name # "winner" \/ result # "signature"
  OBVIOUS
<1>4. k \in RunState /\ k.tx = run[s].tx /\ k.at = at /\ k.sent = run[s].sent
      /\ k.printed = NoWallet /\ k.result = result
  BY <1>1 DEF RunState
<1> HIDE DEF k, at
<1>5. RunInv(k)
  BY <1>1, <1>3, <1>4 DEF RunInv
<1> QED BY <1>2, <1>4, <1>5, OneRunMoves

LEMMA AbortInv ==
    ASSUME ClientInv, NEW s \in Runs, NEW result \in {"threw", "undefined"},
           Abort(s, result)
    PROVE  ClientInv'
BY ReturnedInv DEF Abort

LEMMA GiveUpInv ==
    ASSUME ClientInv, NEW s \in Runs, GiveUp(s)
    PROVE  ClientInv'
BY ReturnedInv DEF GiveUp

LEMMA ConfirmInv ==
    ASSUME ClientInv, NEW s \in Runs, Confirm(s)
    PROVE  ClientInv'
<1>1. PICK e \in ledger : e.tx = run[s].tx /\ Returned(s, Verdict(e))
  BY DEF Confirm
<1>2. Verdict(e) \in {"signature", "undefined"}
  BY DEF Verdict
<1>3. Verdict(e) = "signature" => Succeeded(run[s].tx)
  BY <1>1 DEF Verdict, Succeeded, ClientInv, LedgerInv
<1>4. run[s].at = "confirming" /\ UNCHANGED <<vars, ledger>>
  BY DEF Confirm
<1> QED BY <1>1, <1>2, <1>3, <1>4, ReturnedInv

LEMMA PrintWinnerInv ==
    ASSUME ClientInv, NEW s \in Runs, PrintWinner(s)
    PROVE  ClientInv'
<1> DEFINE r == run[s].tx.command.round
           w == games[r].winner
           k == [run[s] EXCEPT !.at = "ended", !.printed = w]
<1>1. /\ run[s] \in RunState /\ RunInv(run[s]) /\ run[s].at = "printing"
      /\ run[s].tx \in Transaction /\ run[s].tx.command \in Commands
      /\ run[s].tx.command.name = "winner"
  BY DEF PrintWinner, ClientInv, RunInv, RunState
<1>2. r \in Rounds
  BY <1>1, CommandFields
<1>3. games[r] \in GameGround /\ RoundInv(games[r], paid[r])
  BY <1>2 DEF ClientInv, IInv, TypeOK
<1>4. w \in Wallets \cup {NoWallet} /\ (w # NoWallet => games[r].is_completed)
  BY <1>3 DEF GameGround, RoundInv
<1>5. run' = [run EXCEPT ![s] = k] /\ UNCHANGED <<vars, ledger>>
  BY <1>1 DEF PrintWinner, ClientInv, RunState
<1>6. k \in RunState /\ k.tx = run[s].tx /\ k.at = "ended" /\ k.sent = run[s].sent
      /\ k.printed = w /\ k.result = run[s].result
  BY <1>1, <1>4 DEF RunState
<1>7. run[s].result = "signature" => games[r].is_completed
  <2>1. run[s].tx.round = r
    BY <1>1 DEF RunInv
  <2>2. run[s].result = "signature" => Effect(run[s].tx)
    BY <1>1 DEF RunInv, Succeeded, ClientInv, LedgerInv
  <2> QED BY <1>1, <2>1, <2>2 DEF Effect
<1>8. RunInv(k)
  <2> HIDE DEF k
  <2> QED BY <1>1, <1>4, <1>6, <1>7 DEF RunInv
<1> HIDE DEF k
<1> QED BY <1>5, <1>6, <1>8, OneRunMoves

-----------------------------------------------------------------------------
(***************************************************************************)
(* Refusals that are recorded: what they say of the round, and why it      *)
(* lasts.                                                                  *)
(***************************************************************************)
LEMMA ClaimedStays ==
    ASSUME IInv, [Next]_vars, NEW r \in Rounds, games[r].is_claimed
    PROVE  games'[r].is_claimed
<1>1. games[r].exists
  BY BlankFields DEF IInv, RoundInv
<1>2. CASE SameSeats(games[r], games'[r])
  BY <1>2 DEF SameSeats
<1>3. ASSUME NEW p \in Players, NEW a \in DepositAmounts, JoinGame(r, p, a)
      PROVE  games'[r].is_claimed
  BY <1>3, JoinMoves DEF SameDraw
<1> QED BY <1>1, <1>2, <1>3, RoundMoves

LEMMA LockedStays ==
    ASSUME IInv, [Next]_vars, NEW r \in Rounds, Locked(games[r])
    PROVE  Locked(games[r])'
<1>1. games[r].exists /\ ~OpenToJoin(games[r])
  BY DEF Locked
<1>2. \A p \in Players, a \in DepositAmounts : ~JoinGame(r, p, a)
  BY <1>1, JoinMoves
<1>3. SameSeats(games[r], games'[r])
  BY <1>1, <1>2, RoundMoves
<1>4. games[r] \in GameGround
  BY DEF IInv, TypeOK
<1>5. games[r].end_date \in Int /\ now \in Nat /\ now' \in Nat /\ now' >= now
  BY <1>4, TimeMoves DEF GameGround
<1> QED BY <1>1, <1>3, <1>5 DEF SameSeats, Locked, OpenToJoin

LEMMA FullStays ==
    ASSUME IInv, [Next]_vars, NEW r \in Rounds, NEW u, Full(games[r], u)
    PROVE  Full(games[r], u)'
<1> DEFINE g == games[r]
           h == games'[r]
<1>1. g \in GameGround /\ g.exists /\ ~HasEntry(g, u) /\ g.user_count >= g.max_joiner_count
  BY DEF Full, IInv, TypeOK
<1>2. CASE SameSeats(g, h)
  BY <1>1, <1>2 DEF SameSeats, Full, HasEntry
<1>3. ASSUME NEW p \in Players, NEW a \in DepositAmounts, JoinGame(r, p, a)
      PROVE  Full(games[r], u)'
  <2> DEFINE applied == AmountApplied(a, BpsMul(config.platform_fee, a))
             k == EntryOf(g, p)
  <2>1. /\ HasSeat(h) /\ SameDraw(g, h)
        /\ h.user_count = IF HasEntry(g, p) THEN g.user_count ELSE g.user_count + 1
        /\ h.deposit_list = DepositedList(g, p, applied)
    BY <1>3, JoinMoves
  <2>2. HasEntry(g, p)
    BY <1>1, <2>1 DEF HasSeat, SameDraw, GameGround
  <2>3. k \in 1..Len(g.deposit_list)
    BY <1>1, <2>2, EntryOfInList
  <2>4. h.deposit_list = Raised(g.deposit_list, k, applied)
    BY <2>1, <2>2 DEF DepositedList
  <2>5. g.deposit_list \in Seq(DepositInfo)
    BY <1>1 DEF GameGround
  <2> HIDE DEF applied, k
  <2>6. /\ Len(h.deposit_list) = Len(g.deposit_list)
        /\ \A i \in 1..Len(g.deposit_list) :
              h.deposit_list[i].user = g.deposit_list[i].user
    <3>1. Len(h.deposit_list) = Len(g.deposit_list)
      BY <2>3, <2>4, <2>5 DEF Raised
    <3>2. ASSUME NEW i \in 1..Len(g.deposit_list)
          PROVE  h.deposit_list[i].user = g.deposit_list[i].user
      <4>1. g.deposit_list[i] \in DepositInfo
        BY <2>5
      <4> QED BY <2>3, <2>4, <2>5, <4>1 DEF Raised, DepositInfo
    <3> QED BY <3>1, <3>2
  <2>7. ~HasEntry(h, u)
    BY <1>1, <2>6 DEF HasEntry
  <2> QED BY <1>1, <2>1, <2>2, <2>7 DEF Full, SameDraw, HasEntry
<1> QED BY <1>1, <1>2, <1>3, RoundMoves

LEMMA FinalRecordStays ==
    ASSUME IInv, [Next]_vars, NEW tx \in Transaction, NEW error, FinalRecord(tx, error)
    PROVE  FinalRecord(tx, error)'
<1>1. tx.round \in Rounds
  BY DEF Transaction
<1>2. /\ games[tx.round].is_claimed => games'[tx.round].is_claimed
      /\ games[tx.round].is_claimed => games[tx.round].is_completed
      /\ DrawKept(tx.round)
  BY <1>1, ClaimedStays, RoundsKeep DEF IInv, RoundInv
<1>3. /\ Full(games[tx.round], tx.command.user) => Full(games[tx.round], tx.command.user)'
      /\ Locked(games[tx.round]) => Locked(games[tx.round])'
  BY <1>1, LockedStays, FullStays
<1> QED BY <1>2, <1>3 DEF FinalRecord, DrawKept

(***************************************************************************)
(* What a transaction has done is not undone.                              *)
(***************************************************************************)
LEMMA EffectStays ==
    ASSUME IInv, [Next]_vars, NEW tx \in Transaction, Effect(tx)
    PROVE  Effect(tx)'
<1> DEFINE g == games[tx.round]
           h == games'[tx.round]
<1>1. tx.round \in Rounds
  BY DEF Transaction
<1>2. g.exists => h.exists /\ h.force = g.force /\ EntriesKept(g.deposit_list, h.deposit_list)
  BY <1>1, RoundsKeep DEF DepositsKept
<1>3. g.is_completed => h.is_completed /\ h.winner = g.winner
  BY <1>1, RoundsKeep DEF DrawKept
<1>4. g.is_claimed => g.is_completed /\ h.is_claimed
  BY <1>1, ClaimedStays DEF IInv, RoundInv
<1>5. ASSUME NEW u, g.exists, HasEntry(g, u)
      PROVE  HasEntry(g, u)'
  <2>1. PICK i \in 1..Len(g.deposit_list) : g.deposit_list[i].user = u
    BY <1>5 DEF HasEntry
  <2>2. g \in GameGround /\ h \in GameGround
    BY <1>1, NextIInv DEF IInv, TypeOK
  <2>3. EntriesKept(g.deposit_list, h.deposit_list)
    BY <1>2, <1>5
  <2>4. Len(g.deposit_list) \in Nat /\ Len(h.deposit_list) \in Nat
    <3>1. g.deposit_list \in Seq(DepositInfo) /\ h.deposit_list \in Seq(DepositInfo)
      BY <2>2 DEF GameGround
    <3> QED BY <3>1
  <2> HIDE DEF g, h
  <2>5. i \in 1..Len(h.deposit_list)
    BY <2>1, <2>3, <2>4 DEF EntriesKept
  <2>6. h.deposit_list[i].user = u
    BY <2>1, <2>3 DEF EntriesKept
  <2> QED BY <2>5, <2>6 DEF HasEntry, g, h
<1> QED BY <1>2, <1>3, <1>4, <1>5 DEF Effect

(***************************************************************************)
(* What a refusal with a final error says of the round.                    *)
(***************************************************************************)
LEMMA JoinRefused ==
    ASSUME IInv, NEW tx \in Transaction, Resolved(tx), tx.command.name = "join",
           Refusal(tx) # NoError
    PROVE  Named(Refusal(tx)) /\ FinalRecord(tx, Refusal(tx))
<1> DEFINE acc == AccountsOf(tx)
           r == tx.round
           u == tx.command.user
           a == tx.command.amount
           fee == BpsMul(config.platform_fee, a)
           checks == JoinGameChecks(acc, r, a)
<1>1. /\ tx.command \in Commands /\ r \in Rounds /\ u \in Players /\ a \in DepositAmounts
      /\ acc.joiner = u
  BY CommandFields, JoinNames DEF Resolved, Transaction
<1>2. Refusal(tx) = FirstError(checks)
  BY DEF Refusal, ChecksOf
<1>3. /\ Len(checks) = 13
      /\ \A i \in 1..13 :
            /\ checks[i] = NoError \/ Named(checks[i])
            /\ checks[i] = "gameAlreadyCompleted" => i = 7
            /\ checks[i] = "userCountOverError" => i = 12
            /\ checks[i] \notin {"setWinnerCompleted", "winnerClaimed"}
  BY JoinGameList
<1>4. /\ checks[1] = Check(Configured /\ games[r].exists, "accountNotInitialized")
      /\ checks[7] = Check(OpenToJoin(games[r]), "gameAlreadyCompleted")
      /\ checks[8] = Check(FeeFits(fee, a), FeeError(fee))
      /\ checks[12] = Check(HasSeat(JoinedBy(r, u, a)), "userCountOverError")
  BY <1>1, JoinGameList
<1> HIDE DEF checks
<1>5. PICK i \in 1..13 : /\ checks[i] = FirstError(checks)
                         /\ \A j \in 1..(i - 1) : checks[j] = NoError
  <2>1. Len(checks) = 13 /\ FirstError(checks) # NoError
    BY <1>2, <1>3
  <2>2. Len(checks) \in Nat
    BY <2>1
  <2>3. \E i \in 1..Len(checks) :
           /\ checks[i] = FirstError(checks)
           /\ \A j \in 1..(i - 1) : checks[j] = NoError
    BY <2>1, <2>2, RefusedBy
  <2> QED BY <2>1, <2>3
<1>6. Refusal(tx) = checks[i] /\ Named(checks[i])
  BY <1>2, <1>3, <1>5
<1>7. CASE i = 7
  <2>1. checks[1] = NoError
    BY <1>5, <1>7
  <2>2. Locked(games[r])
    BY <1>4, <1>6, <1>7, <2>1 DEF Check, Locked, NoError
  <2> QED BY <1>3, <1>6, <1>7, <2>2 DEF FinalRecord
<1>8. CASE i = 12
  <2>1. checks[1] = NoError /\ checks[8] = NoError
    BY <1>5, <1>8
  <2>2. games[r].exists /\ FeeFits(fee, a) /\ ~HasSeat(JoinedBy(r, u, a))
    BY <1>4, <1>6, <1>8, <2>1 DEF Check, FeeError, NoError
  <2>3. games[r] \in GameGround /\ RoundInv(games[r], paid[r]) /\ TypeOK
    BY <1>1 DEF IInv, TypeOK
  <2>4. a \in Nat /\ fee \in Nat
    BY <1>1, InputsAssumption, FeeIsNat DEF IInv, TypeOK, ConfigData
  <2>5. AmountApplied(a, fee) \in Nat
    <3> HIDE DEF fee, a
    <3> QED BY <2>2, <2>4 DEF FeeFits, AmountApplied
  <2>6. /\ JoinedBy(r, u, a).user_count =
              IF HasEntry(games[r], u) THEN games[r].user_count ELSE games[r].user_count + 1
        /\ JoinedBy(r, u, a).max_joiner_count = games[r].max_joiner_count
    BY <1>1, <2>3, <2>5, JoinedByFields
  <2>7. Full(games[r], u)
    <3>1. games[r].user_count \in Nat /\ games[r].max_joiner_count \in Nat
          /\ games[r].user_count <= games[r].max_joiner_count
      BY <2>3 DEF RoundInv, GameGround
    <3> QED BY <2>2, <2>6, <3>1 DEF HasSeat, Full
  <2> QED BY <1>3, <1>6, <1>8, <2>7 DEF FinalRecord
<1>9. CASE i # 7 /\ i # 12
  BY <1>3, <1>6, <1>9 DEF FinalRecord
<1> QED BY <1>6, <1>7, <1>8, <1>9

LEMMA RefusalIsRecorded ==
    ASSUME IInv, NEW tx \in Transaction, Resolved(tx), Refusal(tx) # NoError
    PROVE  Named(Refusal(tx)) /\ FinalRecord(tx, Refusal(tx))
<1> DEFINE acc == AccountsOf(tx)
           r == tx.round
           c == tx.command
<1>1. c \in Commands /\ c.name \in {"config", "create", "join", "winner", "claim"}
  BY CommandFields DEF Resolved
<1>2. ASSUME NEW checks, NEW n \in Nat, Len(checks) = n, Refusal(tx) = FirstError(checks),
             \A i \in 1..n : /\ checks[i] = NoError \/ Named(checks[i])
                             /\ checks[i] \notin FinalErrors
      PROVE  Named(Refusal(tx)) /\ FinalRecord(tx, Refusal(tx))
  BY <1>2, RefusedBy DEF FinalRecord, FinalErrors
<1>3. CASE c.name = "config"
  <2>1. Refusal(tx) = FirstError(ConfigureChecks(acc))
    BY <1>3 DEF Refusal, ChecksOf
  <2> QED BY <1>2, <2>1, ConfigureList
<1>4. CASE c.name = "create"
  <2>1. Refusal(tx) = FirstError(CreateGameChecks(acc, tx.force, c.time, c.min_deposit,
                                                  c.max_joiner))
    BY <1>4 DEF Refusal, ChecksOf
  <2> QED BY <1>2, <2>1, CreateGameList
<1>5. CASE c.name = "join"
  BY <1>5, JoinRefused
<1>6. CASE c.name = "winner"
  <2> DEFINE checks == SetWinnerChecks(acc, r)
  <2>1. Refusal(tx) = FirstError(checks)
    BY <1>6 DEF Refusal, ChecksOf
  <2>2. /\ Len(checks) = 9
        /\ \A i \in 1..9 : /\ checks[i] = NoError \/ Named(checks[i])
                           /\ checks[i] \in FinalErrors => i = 6
    BY SetWinnerList
  <2>3. checks[6] = Check(NotDrawn(games[r]), "setWinnerCompleted")
    BY SetWinnerList
  <2> HIDE DEF checks
  <2>4. PICK i \in 1..9 : checks[i] = FirstError(checks)
    BY <2>1, <2>2, RefusedBy
  <2>5. i = 6 => games[r].is_completed /\ checks[i] = "setWinnerCompleted"
    BY <2>1, <2>3, <2>4 DEF Check, NotDrawn
  <2> QED BY <1>6, <2>1, <2>2, <2>4, <2>5 DEF FinalRecord, FinalErrors
<1>7. CASE c.name = "claim"
  <2> DEFINE checks == ClaimRewardChecks(acc, r)
  <2>1. Refusal(tx) = FirstError(checks) /\ acc.winner = c.user
    BY <1>7, ClaimNames DEF Refusal, ChecksOf
  <2>2. /\ Len(checks) = 9
        /\ \A i \in 1..9 : /\ checks[i] = NoError \/ Named(checks[i])
                           /\ checks[i] \in FinalErrors => i = 5
    BY ClaimRewardList
  <2>3. /\ checks[2] = Check(IsWinner(acc, r), "incorrectAuthority")
        /\ checks[5] = Check(~games[r].is_claimed, "winnerClaimed")
    BY ClaimRewardList
  <2> HIDE DEF checks, acc
  <2>4. PICK i \in 1..9 : /\ checks[i] = FirstError(checks)
                          /\ \A j \in 1..(i - 1) : checks[j] = NoError
    BY <2>1, <2>2, RefusedBy
  <2>5. i = 5 => checks[i] = "winnerClaimed" /\ games[r].is_claimed
    BY <2>1, <2>3, <2>4 DEF Check
  <2>6. i = 5 => games[r].winner = c.user
    BY <2>1, <2>3, <2>4 DEF Check, NoError, IsWinner
  <2> QED BY <1>7, <2>1, <2>2, <2>4, <2>5, <2>6 DEF FinalRecord, FinalErrors
<1> QED BY <1>1, <1>3, <1>4, <1>5, <1>6, <1>7

-----------------------------------------------------------------------------
(***************************************************************************)
(* The ledger's steps, and those of others.                                *)
(***************************************************************************)
LEMMA ExecutedCreate ==
    ASSUME ClientInv, NEW tx \in Transaction, Executes(tx), tx.command.name = "create"
    PROVE  games'[tx.round].exists /\ games'[tx.round].force = tx.force
<1> DEFINE acc == AccountsOf(tx)
           new == NewGame(games[config.game_round].lamports, tx.force, tx.command.time,
                          tx.command.min_deposit, tx.command.max_joiner)
<1>1. ExecutesCreate(tx, acc)
  BY DEF Executes, ExecutesConfig, ExecutesJoin, ExecutesWinner, ExecutesClaim
<1>2. tx.round = config.game_round
  <2>1. acc.gameGround = RoundAddress(tx.round)
    BY CreateNames
  <2>2. acc.gameGround = RoundAddress(config.game_round)
    BY <1>1 DEF ExecutesCreate, NamesNextRound
  <2> HIDE DEF acc
  <2> QED BY <2>1, <2>2 DEF RoundAddress, Pda
<1>3. config.game_round \in Rounds /\ games \in [Rounds -> GameGround]
  BY DEF ClientInv, IInv, TypeOK, ConfigData
<1>4. games' = [games EXCEPT ![config.game_round] = new]
  BY <1>1 DEF ExecutesCreate, CreateGame
<1>5. new.exists /\ new.force = tx.force
  BY DEF NewGame, NoGame
<1> HIDE DEF new
<1> QED BY <1>2, <1>3, <1>4, <1>5

LEMMA ExecutedJoin ==
    ASSUME ClientInv, NEW tx \in Transaction, Resolved(tx), Executes(tx),
           tx.command.name = "join"
    PROVE  games'[tx.round].exists /\ HasEntry(games[tx.round], tx.command.user)'
<1> DEFINE acc == AccountsOf(tx)
           r == tx.round
           u == tx.command.user
           g == games[r]
           h == games'[r]
           applied == AmountApplied(tx.command.amount,
                                    BpsMul(config.platform_fee, tx.command.amount))
<1>1. ExecutesJoin(tx, acc)
  BY DEF Executes, ExecutesConfig, ExecutesCreate, ExecutesWinner, ExecutesClaim
<1>2. acc.joiner = u /\ u \in Players /\ tx.command.amount \in DepositAmounts /\ r \in Rounds
  BY JoinNames, CommandFields DEF Resolved, Transaction
<1>3. JoinGame(r, u, tx.command.amount) /\ g.exists
  BY <1>1, <1>2 DEF ExecutesJoin, JoinGame, Addressable
<1>4. SameDraw(g, h) /\ h.deposit_list = DepositedList(g, u, applied)
  BY <1>2, <1>3, JoinMoves DEF ClientInv
<1>5. g \in GameGround
  BY <1>2 DEF ClientInv, IInv, TypeOK
<1>6. applied \in Nat
  <2> DEFINE a == tx.command.amount
             fee == BpsMul(config.platform_fee, a)
  <2>1. a \in Nat /\ fee \in Nat
    BY <1>2, InputsAssumption, FeeIsNat DEF ClientInv, IInv, TypeOK, ConfigData
  <2>2. fee <= a
    BY <1>3 DEF JoinGame, FeeFits
  <2> HIDE DEF fee, a
  <2> QED BY <2>1, <2>2 DEF AmountApplied, fee, a
<1> HIDE DEF acc, applied
<1>7. CASE HasEntry(g, u)
  <2> DEFINE k == EntryOf(g, u)
  <2>1. k \in 1..Len(g.deposit_list) /\ g.deposit_list[k].user = u
    BY <1>2, <1>5, <1>7, EntryOfInList
  <2>2. h.deposit_list = Raised(g.deposit_list, k, applied)
    BY <1>4, <1>7 DEF DepositedList
  <2>3. g.deposit_list \in Seq(DepositInfo)
    BY <1>5 DEF GameGround
  <2> HIDE DEF k
  <2>4. k \in 1..Len(h.deposit_list) /\ h.deposit_list[k].user = u
    <3>1. g.deposit_list[k] \in DepositInfo
      BY <2>1, <2>3
    <3> QED BY <2>1, <2>2, <2>3, <3>1 DEF Raised, DepositInfo
  <2> QED BY <1>3, <1>4, <2>4 DEF SameDraw, HasEntry
<1>8. CASE ~HasEntry(g, u)
  <2> DEFINE n == Len(g.deposit_list) + 1
  <2>1. h.deposit_list = Append(g.deposit_list, [user |-> u, amount |-> applied])
    BY <1>4, <1>8 DEF DepositedList
  <2>2. g.deposit_list \in Seq(DepositInfo) /\ [user |-> u, amount |-> applied] \in DepositInfo
    BY <1>2, <1>5, <1>6 DEF GameGround, DepositInfo
  <2>3. n \in 1..Len(h.deposit_list) /\ h.deposit_list[n].user = u
    <3> HIDE DEF g, h
    <3> QED BY <2>1, <2>2
  <2> QED BY <1>3, <1>4, <2>3 DEF SameDraw, HasEntry
<1> QED BY <1>7, <1>8

LEMMA ExecutedDraw ==
    ASSUME ClientInv, NEW tx \in Transaction, Resolved(tx), Executes(tx)
    PROVE  /\ tx.command.name = "winner" => games'[tx.round].is_completed
           /\ tx.command.name = "claim" =>
                 /\ games'[tx.round].is_claimed
                 /\ games'[tx.round].winner = tx.command.user
<1> DEFINE acc == AccountsOf(tx)
           r == tx.round
<1>1. r \in Rounds /\ games \in [Rounds -> GameGround]
  BY DEF Transaction, ClientInv, IInv, TypeOK
<1>2. CASE tx.command.name = "winner"
  <2>1. SetWinner(r)
    BY <1>2 DEF Executes, ExecutesConfig, ExecutesCreate, ExecutesJoin, ExecutesWinner,
                ExecutesClaim
  <2>2. games' = [games EXCEPT ![r] = WithWinner(games[r], CurrentState(games[r].force))]
    BY <2>1 DEF SetWinner
  <2>3. CurrentState(games[r].force) \in Nat
    BY <1>1, <2>1, WordType DEF ClientInv, IInv
  <2>4. WithWinner(games[r], CurrentState(games[r].force)).is_completed
    BY <1>1, <2>3, WithWinnerFields
  <2> QED BY <1>1, <1>2, <2>2, <2>4
<1>3. CASE tx.command.name = "claim"
  <2>1. IsWinner(acc, r) /\ ClaimReward(r)
    BY <1>3 DEF Executes, ExecutesConfig, ExecutesCreate, ExecutesJoin, ExecutesWinner,
                ExecutesClaim
  <2>2. acc.winner = tx.command.user
    BY <1>3, ClaimNames
  <2>3. games' = [games EXCEPT ![r] = AfterClaim(games[r])]
    BY <2>1 DEF ClaimReward
  <2>4. AfterClaim(games[r]).is_claimed /\ AfterClaim(games[r]).winner = games[r].winner
    BY <1>1 DEF AfterClaim, GameGround
  <2> HIDE DEF acc
  <2> QED BY <1>1, <1>3, <2>1, <2>2, <2>3, <2>4 DEF IsWinner
<1> QED BY <1>2, <1>3

LEMMA ExecutedEffect ==
    ASSUME ClientInv, NEW tx \in Transaction, Resolved(tx), Executes(tx)
    PROVE  Effect(tx)'
BY ExecutedCreate, ExecutedJoin, ExecutedDraw DEF Effect

LEMMA LedgerRecords ==
    ASSUME ClientInv, [Next]_vars, UNCHANGED run, NEW s \in Runs, NEW error,
           InFlight(s), error = NoError \/ Named(error), FinalRecord(run[s].tx, error)',
           ledger' = ledger \cup {[tx |-> run[s].tx, error |-> error]},
           error = NoError => Effect(run[s].tx)'
    PROVE  ClientInv'
<1> DEFINE new == [tx |-> run[s].tx, error |-> error]
<1>1. IInv'
  BY NextIInv DEF ClientInv
<1>2. \A q \in Runs : RunInv(run[q])'
  BY RunInvStays DEF ClientInv
<1>3. LedgerInv'
  <2> SUFFICES ASSUME NEW e \in ledger'
               PROVE  /\ e = [tx |-> e.tx, error |-> e.error]
                      /\ e.tx \in Transaction
                      /\ e.error = NoError \/ Named(e.error)
                      /\ FinalRecord(e.tx, e.error)'
                      /\ \E q \in Runs : run'[q].sent /\ run'[q].tx = e.tx
                      /\ \A d \in ledger' : d.tx = e.tx => d = e
                      /\ e.error = NoError => Effect(e.tx)'
    BY DEF LedgerInv
  <2>1. \A d \in ledger : d.tx # new.tx
    BY DEF InFlight, Unprocessed, Executed
  <2>2. CASE e = new
    <3>1. run[s].sent /\ run[s].tx \in Transaction
      BY DEF InFlight, ClientInv, RunState
    <3> QED BY <2>1, <2>2, <3>1
  <2>3. CASE e \in ledger
    <3>1. /\ e = [tx |-> e.tx, error |-> e.error]
          /\ e.tx \in Transaction
          /\ e.error = NoError \/ Named(e.error)
          /\ FinalRecord(e.tx, e.error)
          /\ \E q \in Runs : run[q].sent /\ run[q].tx = e.tx
          /\ \A d \in ledger : d.tx = e.tx => d = e
          /\ e.error = NoError => Effect(e.tx)
      BY <2>3 DEF ClientInv, LedgerInv
    <3>2. e.error = NoError => Effect(e.tx)'
      BY <3>1, EffectStays DEF ClientInv
    <3>3. FinalRecord(e.tx, e.error)'
      BY <3>1, FinalRecordStays DEF ClientInv
    <3> QED BY <2>1, <2>3, <3>1, <3>2, <3>3
  <2> QED BY <2>2, <2>3
<1> QED BY <1>1, <1>2, <1>3 DEF ClientInv

LEMMA LandInv ==
    ASSUME ClientInv, NEW s \in Runs, Land(s)
    PROVE  ClientInv'
<1> DEFINE tx == run[s].tx
<1>1. tx \in Transaction /\ Resolved(tx) /\ Executes(tx) /\ InFlight(s)
  BY DEF Land, InFlight, ClientInv, RunInv, RunState
<1>2. Next
  BY <1>1, ExecutesStep
<1>3. Effect(tx)'
  BY <1>1, ExecutedEffect DEF Land, Effect
<1>4. FinalRecord(tx, NoError)'
  BY DEF FinalRecord, NoError
<1> QED BY <1>1, <1>2, <1>3, <1>4, LedgerRecords DEF Land

LEMMA LandFailedInv ==
    ASSUME ClientInv, NEW s \in Runs, LandFailed(s)
    PROVE  ClientInv'
<1> DEFINE tx == run[s].tx
<1>1. UNCHANGED vars /\ run' = run /\ InFlight(s) /\ Refusal(tx) # NoError
  BY DEF LandFailed
<1>2. tx \in Transaction /\ Resolved(tx) /\ IInv
  BY <1>1 DEF InFlight, ClientInv, RunInv, RunState
<1>3. Named(Refusal(tx)) /\ FinalRecord(tx, Refusal(tx))
  BY <1>1, <1>2, RefusalIsRecorded
<1>4. ASSUME NEW error, FinalRecord(tx, error)
      PROVE  FinalRecord(tx, error)'
  BY <1>1, <1>2, <1>4, FinalRecordStays
<1> QED BY <1>1, <1>3, <1>4, LedgerRecords DEF LandFailed

LEMMA ElsewhereInv ==
    ASSUME ClientInv, [Next]_vars, UNCHANGED clientVars
    PROVE  ClientInv'
<1>1. IInv' /\ run' = run /\ ledger' = ledger
  BY NextIInv DEF ClientInv, clientVars
<1>2. \A q \in Runs : RunInv(run[q])'
  BY <1>1, RunInvStays DEF ClientInv
<1>3. ASSUME NEW e \in ledger
      PROVE  (e.error = NoError => Effect(e.tx)') /\ FinalRecord(e.tx, e.error)'
  BY FinalRecordStays, EffectStays DEF ClientInv, LedgerInv
<1>4. LedgerInv'
  BY <1>1, <1>3 DEF ClientInv, LedgerInv
<1> QED BY <1>1, <1>2, <1>4 DEF ClientInv

LEMMA ClientNextInv == ClientInv /\ [ClientNext]_allVars => ClientInv'
<1> SUFFICES ASSUME ClientInv, [ClientNext]_allVars PROVE ClientInv'
  OBVIOUS
<1>1. [Next]_vars
  BY ClientStep
<1>2. CASE UNCHANGED allVars \/ Elsewhere
  BY <1>1, <1>2, ElsewhereInv DEF allVars, clientVars, Elsewhere
<1>3. CASE ClientNext
  BY <1>2, <1>3, FetchInv, ResolveInv, SendInv, AbortInv, LandInv, LandFailedInv,
     ConfirmInv, GiveUpInv, PrintWinnerInv DEF ClientNext
<1> QED BY <1>2, <1>3

-----------------------------------------------------------------------------
(***************************************************************************)
(* Invariance of what the runs and the ledger know.                        *)
(***************************************************************************)
THEOREM ClientInvariance == ClientSpec => []ClientInv
BY InitClientInv, ClientNextInv, PTL DEF ClientSpec

(***************************************************************************)
(* The command line does nothing to the program that its instructions do   *)
(* not allow: with any number of runs, late and repeated transactions,     *)
(* each behaviour is one of the program, so that what is proved of the     *)
(* program holds for whoever uses it through the command line.             *)
(***************************************************************************)
THEOREM ClientsFollowProgram == ClientSpec => Spec
<1>1. ClientInit => Init
  BY DEF ClientInit
<1>2. ClientInv /\ [ClientNext]_allVars => [Next]_vars
  BY ClientStep
<1> QED BY <1>1, <1>2, ClientInvariance, PTL DEF ClientSpec, Spec

(***************************************************************************)
(* For any number of runs: what a run reports with a signature has         *)
(* happened and is not undone, and a run that drew prints that winner.     *)
(***************************************************************************)
THEOREM SignaturesAreHonest == ClientSpec => []SignatureMeansEffect
<1>1. ASSUME ClientInv, NEW s \in Runs, run[s].result = "signature"
      PROVE  LET tx == run[s].tx
                 g == games[tx.round]
             IN  /\ tx.command.name = "join" => HasEntry(g, tx.command.user)
                 /\ tx.command.name = "winner" =>
                       g.is_completed /\ (run[s].at = "ended" => run[s].printed = g.winner)
                 /\ tx.command.name = "claim" =>
                       g.winner = tx.command.user /\ paid[tx.round] > 0
  <2> DEFINE tx == run[s].tx
             g == games[tx.round]
  <2>1. RunInv(run[s]) /\ tx \in Transaction
    BY <1>1 DEF ClientInv, RunState
  <2>2. Effect(tx)
    BY <1>1, <2>1 DEF RunInv, Succeeded, ClientInv, LedgerInv
  <2>3. RoundInv(g, paid[tx.round])
    BY <1>1, <2>1 DEF ClientInv, IInv, Transaction
  <2>4. tx.command.name = "claim" => paid[tx.round] > 0
    BY <2>2, <2>3 DEF Effect, RoundInv
  <2>5. tx.command.name = "winner" /\ run[s].at = "ended" => run[s].printed = g.winner
    BY <1>1, <2>1 DEF RunInv
  <2> QED BY <2>2, <2>4, <2>5 DEF Effect
<1>2. ClientInv => SignatureMeansEffect
  BY <1>1 DEF SignatureMeansEffect
<1> QED BY <1>2, ClientInvariance, PTL

(***************************************************************************)
(* For any number of runs of `create` racing for the counter, which stale  *)
(* runs of `config` rewind: a confirmed run has the round it resolved,     *)
(* with the seed it drew.                                                  *)
(***************************************************************************)
THEOREM CreatesDoNotCollide == ClientSpec => []EachCreateHasItsRound
<1>1. ClientInv => EachCreateHasItsRound
  BY DEF ClientInv, RunInv, LedgerInv, Succeeded, Effect, EachCreateHasItsRound
<1> QED BY <1>1, ClientInvariance, PTL

(***************************************************************************)
(* For any number of runs of `winner`, on one round or on many: the winner *)
(* that a run prints is the winner the round keeps.                        *)
(***************************************************************************)
THEOREM PrintedWinnersAreFinal == ClientSpec => []PrintedWinnerIsTheWinner
<1>1. ClientInv => PrintedWinnerIsTheWinner
  BY DEF ClientInv, RunInv, PrintedWinnerIsTheWinner
<1> QED BY <1>1, ClientInvariance, PTL

(***************************************************************************)
(* A final refusal is refused again: the round still fails the same test.  *)
(***************************************************************************)
LEMMA RecordRefuses ==
    ASSUME IInv, NEW tx \in Transaction, Resolved(tx), NEW error \in FinalErrors,
           FinalRecord(tx, error)
    PROVE  Refusal(tx) # NoError
<1> DEFINE acc == AccountsOf(tx)
           r == tx.round
           u == tx.command.user
           a == tx.command.amount
           g == games[r]
<1>1. tx.command \in Commands /\ r \in Rounds
  BY DEF Resolved, Transaction
<1>2. CASE tx.command.name = "claim" /\ g.is_claimed
  <2> DEFINE checks == ClaimRewardChecks(acc, r)
  <2>1. Refusal(tx) = FirstError(checks)
    BY <1>2 DEF Refusal, ChecksOf
  <2>2. Len(checks) = 9 /\ checks[5] # NoError
    BY <1>2, ClaimRewardList DEF Check, NoError
  <2> HIDE DEF checks
  <2> QED BY <2>1, <2>2, Refuses
<1>3. CASE tx.command.name = "winner" /\ g.is_completed
  <2> DEFINE checks == SetWinnerChecks(acc, r)
  <2>1. Refusal(tx) = FirstError(checks)
    BY <1>3 DEF Refusal, ChecksOf
  <2>2. Len(checks) = 9 /\ checks[6] # NoError
    BY <1>3, SetWinnerList DEF Check, NoError, NotDrawn
  <2> HIDE DEF checks
  <2> QED BY <2>1, <2>2, Refuses
<1>4. ASSUME tx.command.name = "join"
      PROVE  LET checks == JoinGameChecks(acc, r, a)
             IN  /\ Locked(g) => checks[7] # NoError
                 /\ Full(g, u) => checks[8] # NoError \/ checks[12] # NoError
                 /\ Len(checks) = 13
                 /\ Refusal(tx) = FirstError(checks)
  <2> DEFINE fee == BpsMul(config.platform_fee, a)
             checks == JoinGameChecks(acc, r, a)
  <2>1. Refusal(tx) = FirstError(checks)
    BY <1>4 DEF Refusal, ChecksOf
  <2>2. /\ Len(checks) = 13
        /\ checks[7] = Check(OpenToJoin(g), "gameAlreadyCompleted")
        /\ checks[8] = Check(FeeFits(fee, a), FeeError(fee))
        /\ checks[12] = Check(HasSeat(JoinedBy(r, acc.joiner, a)), "userCountOverError")
    BY JoinGameList
  <2>3. acc.joiner = u /\ u \in Players /\ a \in DepositAmounts
    BY <1>1, <1>4, JoinNames, CommandFields
  <2>4. ASSUME Full(g, u), FeeFits(fee, a)
        PROVE  ~HasSeat(JoinedBy(r, u, a))
    <3>1. g \in GameGround /\ RoundInv(g, paid[r]) /\ TypeOK
      BY <1>1 DEF IInv, TypeOK
    <3>2. a \in Nat /\ fee \in Nat
      BY <2>3, InputsAssumption, FeeIsNat DEF IInv, TypeOK, ConfigData
    <3>3. AmountApplied(a, fee) \in Nat
      <4> HIDE DEF fee, a
      <4> QED BY <2>4, <3>2 DEF FeeFits, AmountApplied
    <3>4. /\ JoinedBy(r, u, a).user_count =
                IF HasEntry(g, u) THEN g.user_count ELSE g.user_count + 1
          /\ JoinedBy(r, u, a).max_joiner_count = g.max_joiner_count
      BY <1>1, <2>3, <3>1, <3>3, JoinedByFields
    <3>5. g.user_count \in Nat /\ g.max_joiner_count \in Nat
      BY <3>1 DEF GameGround
    <3> QED BY <2>4, <3>4, <3>5 DEF Full, HasSeat
  <2> HIDE DEF checks, fee
  <2> QED BY <2>1, <2>2, <2>3, <2>4 DEF Check, FeeError, Locked, NoError, checks
<1>5. CASE tx.command.name = "join" /\ (Locked(g) \/ Full(g, u))
  <2> DEFINE checks == JoinGameChecks(acc, r, a)
  <2>1. /\ Len(checks) = 13 /\ Refusal(tx) = FirstError(checks)
        /\ \E i \in {7, 8, 12} : checks[i] # NoError
    BY <1>4, <1>5
  <2> HIDE DEF checks
  <2> QED BY <2>1, Refuses
<1> QED BY <1>2, <1>3, <1>5 DEF FinalRecord, FinalErrors

(***************************************************************************)
(* For any number of runs and any later steps of anybody: who was told     *)
(* that a round is drawn, claimed, full or over is refused again.          *)
(***************************************************************************)
THEOREM RefusalsAreFinal == ClientSpec => []FinalRefusalsStay
<1>1. ASSUME ClientInv, NEW e \in ledger, e.error \in FinalErrors
      PROVE  Refusal(e.tx) # NoError
  <2>1. /\ e.tx \in Transaction /\ FinalRecord(e.tx, e.error)
        /\ \E s \in Runs : run[s].sent /\ run[s].tx = e.tx
    BY <1>1 DEF ClientInv, LedgerInv
  <2>2. Resolved(e.tx)
    BY <1>1, <2>1 DEF ClientInv, RunInv
  <2> QED BY <1>1, <2>1, <2>2, RecordRefuses DEF ClientInv
<1>2. ClientInv => FinalRefusalsStay
  BY <1>1 DEF FinalRefusalsStay
<1> QED BY <1>2, ClientInvariance, PTL

(***************************************************************************)
(* For any number of runs of `claim`, retried or confirmed late: the       *)
(* refusal that a reward was claimed goes to the winner, who was paid.     *)
(***************************************************************************)
THEOREM ClaimedIsPaid == ClientSpec => []ClaimedMeansPaid
<1>1. ASSUME ClientInv, NEW e \in ledger, e.error = "winnerClaimed"
      PROVE  /\ games[e.tx.round].winner = e.tx.command.user
             /\ paid[e.tx.round] > 0
  <2>1. e.tx \in Transaction /\ FinalRecord(e.tx, e.error)
    BY <1>1 DEF ClientInv, LedgerInv
  <2>2. RoundInv(games[e.tx.round], paid[e.tx.round])
    BY <1>1, <2>1 DEF ClientInv, IInv, Transaction
  <2> QED BY <1>1, <2>1, <2>2 DEF FinalRecord, RoundInv
<1>2. ClientInv => ClaimedMeansPaid
  BY <1>1 DEF ClaimedMeansPaid
<1> QED BY <1>2, ClientInvariance, PTL

(***************************************************************************)
(* A command finds an address for every account of its instruction.        *)
(***************************************************************************)
LEMMA ResolvedIsResolvable ==
    ASSUME NEW tx, tx.command.name \in {"config", "create", "join", "winner", "claim"}
    PROVE  Resolvable(Entries(tx), Passes(tx), Keys(tx))
<1>1. CASE tx.command.name = "config"
  <2>1. /\ Entries(tx) = ConfigureAccounts
        /\ DOMAIN Passes(tx) = {"payer"}
    BY <1>1 DEF Entries, AccountsOfInstruction, Instruction, Passes
  <2> QED BY <2>1
          DEF Resolvable, ConfigureAccounts, GlobalVault, Signer, SystemProgram, Derived, Fixed
<1>2. CASE tx.command.name = "create"
  <2>1. /\ Entries(tx) = CreateGameAccounts
        /\ DOMAIN Passes(tx) = {"creator", "treasury", "payer"}
        /\ DOMAIN Keys(tx) = {"force", "gameRound"}
    BY <1>2 DEF Entries, AccountsOfInstruction, Instruction, Passes, Keys
  <2> QED BY <2>1
          DEF Resolvable, CreateGameAccounts, OracleAccounts, GlobalConfig, GlobalVault, Passed,
              Signer, RoundKeyedBy, SystemProgram, Derived, Fixed
<1>3. CASE tx.command.name = "join"
  <2>1. /\ Entries(tx) = JoinGameAccounts
        /\ DOMAIN Passes(tx) = {"joiner", "payer", "teamWallet"}
        /\ DOMAIN Keys(tx) = {"roundNum"}
    BY <1>3 DEF Entries, AccountsOfInstruction, Instruction, Passes, Keys
  <2> QED BY <2>1
          DEF Resolvable, JoinGameAccounts, GlobalConfig, GlobalVault, Passed, Signer,
              RoundKeyedBy, SystemProgram, Derived, Fixed
<1>4. CASE tx.command.name = "winner"
  <2>1. /\ Entries(tx) = SetWinnerAccounts
        /\ DOMAIN Passes(tx) = {"creator", "random"}
        /\ DOMAIN Keys(tx) = {"roundNum"}
    BY <1>4 DEF Entries, AccountsOfInstruction, Instruction, Passes, Keys
  <2> QED BY <2>1
          DEF Resolvable, SetWinnerAccounts, GlobalConfig, GlobalVault, Passed, Signer,
              RoundKeyedBy, SystemProgram, Derived, Fixed
<1>5. CASE tx.command.name = "claim"
  <2>1. /\ Entries(tx) = ClaimRewardAccounts
        /\ DOMAIN Passes(tx) = {"winner", "payer"}
        /\ DOMAIN Keys(tx) = {"roundNum"}
    BY <1>5 DEF Entries, AccountsOfInstruction, Instruction, Passes, Keys
  <2> QED BY <2>1
          DEF Resolvable, ClaimRewardAccounts, GlobalConfig, GlobalVault, Signer, RoundKeyedBy,
              SystemProgram, Derived, Fixed
<1> QED BY <1>1, <1>2, <1>3, <1>4, <1>5

(***************************************************************************)
(* For any number of runs: the types of what runs know, at most one        *)
(* outcome for each transaction, none for what was not sent, and an        *)
(* address for every account of what was.                                  *)
(***************************************************************************)
THEOREM ClientTypesCorrect == ClientSpec => []ClientTypeOK
<1>1. ASSUME ClientInv, NEW s \in Runs
      PROVE  /\ run[s].at \in {"idle", "resolving", "signing", "confirming", "printing", "ended"}
             /\ run[s].result \in {"none", "signature", "undefined", "threw"}
             /\ run[s].tx.command \in Commands \cup {NoCommand}
             /\ run[s].tx.force \in Forces \cup {NoForce}
             /\ run[s].tx.round \in Rounds /\ run[s].tx.game_round \in Rounds
             /\ run[s].printed \in Wallets \cup {NoWallet}
  BY <1>1 DEF ClientInv, RunState, Transaction
<1>2. ASSUME ClientInv, NEW s \in Runs, run[s].sent
      PROVE  Resolvable(Entries(run[s].tx), Passes(run[s].tx), Keys(run[s].tx))
  <2>1. Resolved(run[s].tx)
    BY <1>2 DEF ClientInv, RunInv
  <2> QED BY <2>1, ResolvedIsResolvable, CommandFields DEF Resolved
<1>3. ASSUME ClientInv, NEW e \in ledger
      PROVE  /\ e.error \in ContractErrors \cup OtherErrors \cup {NoError}
             /\ \E s \in Runs : run[s].sent /\ run[s].tx = e.tx
             /\ \A d \in ledger : d.tx = e.tx => d = e
  BY <1>3 DEF ClientInv, LedgerInv, Named
<1>4. ClientInv => ClientTypeOK
  BY <1>1, <1>2, <1>3 DEF ClientTypeOK, ClientInv, IInv
<1> QED BY <1>4, ClientInvariance, PTL

-----------------------------------------------------------------------------
(***************************************************************************)
(* The counter, and the copies of it that runs of `config` hold: none is   *)
(* beyond the numbers that have rounds.                                    *)
(***************************************************************************)
HeldCountersLag ==
    \A s \in Runs, r \in Rounds : r < run[s].tx.game_round => games[r].exists

LEMMA HeldCountersMove ==
    ASSUME ClientInv, [ClientNext]_allVars, NEW s \in Runs
    PROVE  run'[s].tx.game_round \in {run[s].tx.game_round, config.game_round, 0}
<1>1. run \in [Runs -> RunState]
  BY DEF ClientInv
<1>2. ASSUME run' = run
      PROVE  run'[s].tx.game_round = run[s].tx.game_round
  BY <1>2
<1>3. ASSUME NEW q \in Runs, NEW c \in Commands, Fetch(q, c)
      PROVE  run'[s].tx.game_round \in {run[s].tx.game_round, config.game_round, 0}
  <2>1. Draft(c).game_round \in {config.game_round, 0}
    BY DEF Draft, NoTransaction
  <2>2. run'[s].tx = IF q = s THEN Draft(c) ELSE run[s].tx
    BY <1>1, <1>3 DEF Fetch, RunState
  <2> QED BY <2>1, <2>2
<1>4. ASSUME NEW q \in Runs, NEW f \in Forces, ResolveCreate(q, f)
      PROVE  run'[s].tx.game_round = run[s].tx.game_round
  <2> DEFINE t == [run[q].tx EXCEPT !.round = config.game_round, !.force = f]
  <2>1. run'[s].tx = IF q = s THEN t ELSE run[s].tx
    BY <1>1, <1>4 DEF ResolveCreate, RunState
  <2>2. t.game_round = run[q].tx.game_round
    BY <1>1 DEF RunState, Transaction
  <2> QED BY <2>1, <2>2
<1>5. ASSUME NEW q \in Runs, Send(q)
      PROVE  run'[s].tx.game_round = run[s].tx.game_round
  BY <1>1, <1>5 DEF Send, RunState, Transaction
<1>6. ASSUME NEW q \in Runs, ResolveWinner(q)
      PROVE  run'[s].tx.game_round = run[s].tx.game_round
  <2> DEFINE f == games[run[q].tx.command.round].force
             t == [run[q].tx EXCEPT !.force = f]
  <2>1. ASSUME run' = [run EXCEPT ![q].at = "signing", ![q].tx.force = f]
        PROVE  run'[s].tx = IF q = s THEN t ELSE run[s].tx
    <3> HIDE DEF f
    <3> QED BY <1>1, <2>1 DEF RunState
  <2>2. t.game_round = run[q].tx.game_round
    BY <1>1 DEF RunState, Transaction
  <2>3. CASE Returned(q, "threw")
    <3>1. run'[s].tx = run[s].tx
      BY <1>1, <2>3 DEF Returned, RunState
    <3> QED BY <3>1
  <2>4. CASE run' = [run EXCEPT ![q].at = "signing", ![q].tx.force = f]
    <3> HIDE DEF t
    <3> QED BY <2>1, <2>2, <2>4
  <2> QED BY <1>6, <2>3, <2>4 DEF ResolveWinner
<1>7. ASSUME NEW q \in Runs, (\E result : Returned(q, result)) \/ PrintWinner(q)
      PROVE  run'[s].tx.game_round = run[s].tx.game_round
  <2>1. CASE PrintWinner(q)
    BY <1>1, <2>1 DEF PrintWinner, RunState
  <2>2. ASSUME NEW result, Returned(q, result)
        PROVE  run'[s].tx.game_round = run[s].tx.game_round
    <3>1. run'[s].tx = run[s].tx
      BY <1>1, <2>2 DEF Returned, RunState
    <3> QED BY <3>1
  <2> QED BY <1>7, <2>1, <2>2
<1>8. ASSUME NEW q \in Runs,
              Confirm(q) \/ GiveUp(q) \/ \E result : Abort(q, result)
      PROVE  \E result : Returned(q, result)
  BY <1>8 DEF Confirm, GiveUp, Abort
<1>9. ASSUME \/ UNCHANGED allVars
             \/ \E q \in Runs : Land(q) \/ LandFailed(q)
             \/ Elsewhere
      PROVE  run' = run
  BY <1>9 DEF allVars, Land, LandFailed, Elsewhere, clientVars
<1>10. CASE UNCHANGED allVars
  BY <1>2, <1>9, <1>10
<1>11. CASE ClientNext
  BY <1>2, <1>3, <1>4, <1>5, <1>6, <1>7, <1>8, <1>9, <1>11 DEF ClientNext
<1> QED BY <1>10, <1>11

(* The counter is written back by a run of `config`, kept, or moved past a *)
(* round that was just created.                                            *)
CounterMoves ==
    \/ config'.game_round = config.game_round
    \/ \E s \in Runs : config'.game_round = run[s].tx.game_round
    \/ /\ config'.game_round = config.game_round + 1
       /\ games'[config.game_round].exists

LEMMA CreateMovesCounter ==
    ASSUME TypeOK, NEW f \in Forces, NEW t, NEW d, NEW j, CreateGame(f, t, d, j)
    PROVE  CounterMoves
<1>1. games \in [Rounds -> GameGround] /\ config \in ConfigData /\ config.game_round \in Rounds
  BY DEF TypeOK, ConfigData
<1>2. config'.game_round = config.game_round + 1
  BY <1>1 DEF CreateGame, ConfigData, NextCounter
<1>3. games'[config.game_round].exists
  BY <1>1 DEF CreateGame, NewGame, NoGame
<1> QED BY <1>2, <1>3 DEF CounterMoves

LEMMA CounterStep ==
    ASSUME ClientInv, [ClientNext]_allVars
    PROVE  CounterMoves
<1>1. TypeOK /\ config \in ConfigData /\ CliSettings \in ConfigData /\ Configs \subseteq ConfigData
  BY ClientAssumption, ConfigsAssumption DEF ClientInv, IInv, TypeOK
<1>2. ASSUME config' = config
      PROVE  CounterMoves
  BY <1>2 DEF CounterMoves
<1>3. ASSUME NEW c \in ConfigData, NEW n
      PROVE  [c EXCEPT !.game_round = n].game_round = n
  BY DEF ConfigData
<1>4. ASSUME NEW s \in Runs, Land(s)
      PROVE  CounterMoves
  <2> DEFINE tx == run[s].tx
             acc == AccountsOf(tx)
  <2>1. tx \in Transaction /\ Resolved(tx) /\ Executes(tx)
    BY <1>4 DEF Land, InFlight, ClientInv, RunInv, RunState
  <2>2. CASE ExecutesConfig(tx, acc)
    BY <1>1, <1>3, <2>2 DEF ExecutesConfig, Configure, CounterMoves
  <2>3. CASE ExecutesCreate(tx, acc)
    <3>1. tx.force \in Forces
      BY <2>1, <2>3 DEF ExecutesCreate, Resolved
    <3> QED BY <1>1, <2>3, <3>1, CreateMovesCounter DEF ExecutesCreate
  <2>4. CASE ExecutesJoin(tx, acc) \/ ExecutesWinner(tx, acc) \/ ExecutesClaim(tx, acc)
    BY <1>2, <2>4
    DEF ExecutesJoin, ExecutesWinner, ExecutesClaim, JoinGame, SetWinner, ClaimReward
  <2> QED BY <2>1, <2>2, <2>3, <2>4 DEF Executes
<1>5. CASE Elsewhere
  <2>1. ASSUME NEW payer, NEW c \in Configs,
               Configure(payer, [c EXCEPT !.game_round = config.game_round])
        PROVE  CounterMoves
    BY <1>1, <1>3, <2>1 DEF Configure, CounterMoves
  <2>2. ASSUME NEW f \in Forces, NEW t, NEW d, NEW j, CreateGame(f, t, d, j)
        PROVE  CounterMoves
    BY <1>1, <2>2, CreateMovesCounter
  <2>3. ASSUME \/ \E r, p, a : JoinGame(r, p, a)
               \/ \E r : SetWinner(r) \/ ClaimReward(r)
               \/ \E f, v : Fulfill(f, v)
               \/ Tick
        PROVE  config' = config
    <3>1. ASSUME NEW r, NEW p, NEW a, JoinGame(r, p, a)
          PROVE  config' = config
      BY <3>1 DEF JoinGame
    <3>2. ASSUME NEW r, SetWinner(r) \/ ClaimReward(r)
          PROVE  config' = config
      BY <3>2 DEF SetWinner, ClaimReward
    <3> QED BY <2>3, <3>1, <3>2 DEF Fulfill, Tick
  <2> QED BY <1>2, <1>5, <2>1, <2>2, <2>3 DEF Elsewhere
<1>6. CASE UNCHANGED allVars
  BY <1>2, <1>6 DEF allVars, vars
<1>7. ASSUME NEW s \in Runs, UNCHANGED vars
      PROVE  CounterMoves
  BY <1>2, <1>7 DEF vars
<1>8. CASE ClientNext
  BY <1>4, <1>5, <1>7, <1>8
  DEF ClientNext, Fetch, ResolveCreate, ResolveWinner, Send, Abort, LandFailed, Confirm,
      GiveUp, PrintWinner
<1> QED BY <1>6, <1>8

(***************************************************************************)
(* For any number of runs of `config` and `create`, landing in any order   *)
(* and however late: every number below the counter has its round.  The    *)
(* invariant adds the counters that runs hold, which lag behind as well.   *)
(***************************************************************************)
THEOREM RoundsAreNeverSkipped == ClientSpec => []NoRoundIsSkipped
<1> DEFINE Inv == NoRoundIsSkipped /\ HeldCountersLag
<1>1. ClientInit => Inv
  <2> SUFFICES ASSUME ClientInit PROVE Inv
    OBVIOUS
  <2>1. config.game_round = 0 /\ \A s \in Runs : run[s].tx.game_round = 0
    BY DEF ClientInit, Init, NoConfig, NoRun, NoTransaction
  <2> QED BY <2>1, BoundsAssumption DEF NoRoundIsSkipped, HeldCountersLag, Rounds
<1>2. ClientInv /\ Inv /\ [ClientNext]_allVars => Inv'
  <2> SUFFICES ASSUME ClientInv, Inv, [ClientNext]_allVars PROVE Inv'
    OBVIOUS
  <2>1. /\ \A r \in Rounds : r \in Nat
        /\ config.game_round \in Rounds
        /\ \A r \in Rounds : games[r].exists => games'[r].exists
    <3>1. IInv /\ [Next]_vars
      BY ClientStep DEF ClientInv
    <3>2. \A r \in Rounds : games[r].exists => games'[r].exists
      BY <3>1, RoundsKeep DEF DepositsKept
    <3> QED BY <3>1, <3>2, BoundsAssumption DEF IInv, TypeOK, ConfigData, Rounds
  <2>2. ASSUME NEW s \in Runs, NEW r \in Rounds, r < run'[s].tx.game_round
        PROVE  games'[r].exists
    BY <2>1, <2>2, HeldCountersMove DEF NoRoundIsSkipped, HeldCountersLag
  <2>3. ASSUME NEW r \in Rounds, r < config'.game_round
        PROVE  games'[r].exists
    <3>1. CASE config'.game_round = config.game_round
      BY <2>1, <2>3, <3>1 DEF NoRoundIsSkipped
    <3>2. CASE \E s \in Runs : config'.game_round = run[s].tx.game_round
      BY <2>1, <2>3, <3>2 DEF HeldCountersLag
    <3>3. CASE /\ config'.game_round = config.game_round + 1
               /\ games'[config.game_round].exists
      <4>1. r = config.game_round \/ r < config.game_round
        BY <2>1, <2>3, <3>3
      <4> QED BY <2>1, <3>3, <4>1 DEF NoRoundIsSkipped
    <3> QED BY <3>1, <3>2, <3>3, CounterStep DEF CounterMoves
  <2> QED BY <2>2, <2>3 DEF NoRoundIsSkipped, HeldCountersLag
<1>3. Inv => NoRoundIsSkipped
  OBVIOUS
<1> HIDE DEF Inv
<1> QED BY <1>1, <1>2, <1>3, ClientInvariance, PTL DEF ClientSpec

-----------------------------------------------------------------------------
(***************************************************************************)
(* What a transaction changes, it has declared writable.                   *)
(***************************************************************************)
LEMMA ExecutedWrites ==
    ASSUME ClientInv, NEW tx \in Transaction, Executes(tx)
    PROVE  Touched \subseteq Writable(tx)
<1> DEFINE acc == AccountsOf(tx)
<1>1. /\ config.game_round \in Rounds /\ games \in [Rounds -> GameGround]
      /\ wallet \in [Wallets -> Nat] /\ random \in [Forces -> Randomness]
  BY DEF ClientInv, IInv, TypeOK, ConfigData
<1>2. CASE ExecutesConfig(tx, acc)
  <2>1. /\ \A w \in Wallets : wallet'[w] # wallet[w] => w = acc.payer
        /\ games' = games /\ random' = random
    BY <1>1, <1>2 DEF ExecutesConfig, Configure
  <2>2. acc.payer = tx.command.user
        /\ {tx.command.user, ConfigAddress, VaultAddress} \subseteq Writable(tx)
    BY <1>2, ConfigNames DEF ExecutesConfig
  <2> QED BY <2>1, <2>2 DEF Touched
<1>3. CASE ExecutesCreate(tx, acc)
  <2>1. /\ \A w \in Wallets : wallet'[w] # wallet[w] => w = config.payer_wallet
        /\ \A r \in Rounds : games'[r] # games[r] => r = config.game_round
        /\ \A f \in Forces : random'[f] # random[f] => f = tx.force
        /\ vault' = vault
    BY <1>1, <1>3 DEF ExecutesCreate, CreateGame
  <2>2. /\ acc.payer = config.payer_wallet
        /\ acc.gameGround = RoundAddress(config.game_round)
    BY <1>3 DEF ExecutesCreate, PaysForPlatform, NamesNextRound
  <2>3. /\ acc.payer = FeePayer /\ acc.gameGround = RoundAddress(tx.round)
        /\ {FeePayer, ConfigAddress, RoundAddress(tx.round), RandomnessAddress(tx.force)}
              \subseteq Writable(tx)
    BY <1>3, CreateNames DEF ExecutesCreate
  <2>4. /\ {w \in Wallets : wallet'[w] # wallet[w]} \subseteq {FeePayer}
        /\ {RoundAddress(r) : r \in {q \in Rounds : games'[q] # games[q]}}
              \subseteq {RoundAddress(tx.round)}
        /\ {RandomnessAddress(f) : f \in {e \in Forces : random'[e] # random[e]}}
              \subseteq {RandomnessAddress(tx.force)}
    BY <2>1, <2>2, <2>3
  <2> QED BY <2>1, <2>3, <2>4 DEF Touched
<1>4. CASE ExecutesJoin(tx, acc)
  <2>1. /\ \A w \in Wallets : wallet'[w] # wallet[w] =>
              w \in {acc.joiner, config.team_wallet, config.payer_wallet}
        /\ \A r \in Rounds : games'[r] # games[r] => r = tx.round
        /\ random' = random /\ config' = config
    BY <1>1, <1>4 DEF ExecutesJoin, JoinGame
  <2>2. acc.payer = config.payer_wallet /\ acc.teamWallet = config.team_wallet
    BY <1>4 DEF ExecutesJoin, PaysForPlatform, IsTeamWallet
  <2>3. /\ acc.payer = FeePayer /\ acc.joiner = tx.command.user
        /\ acc.teamWallet = CliSettings.team_wallet
        /\ {FeePayer, tx.command.user, CliSettings.team_wallet, VaultAddress,
            RoundAddress(tx.round)} \subseteq Writable(tx)
    BY <1>4, JoinNames DEF ExecutesJoin
  <2> QED BY <2>1, <2>2, <2>3 DEF Touched
<1>5. CASE ExecutesWinner(tx, acc)
  <2>1. /\ \A r \in Rounds : games'[r] # games[r] => r = tx.round
        /\ wallet' = wallet /\ random' = random /\ config' = config /\ vault' = vault
    BY <1>1, <1>5 DEF ExecutesWinner, SetWinner
  <2>2. RoundAddress(tx.round) \in Writable(tx)
    BY <1>5, WinnerNames DEF ExecutesWinner
  <2> QED BY <2>1, <2>2 DEF Touched
<1>6. CASE ExecutesClaim(tx, acc)
  <2>1. /\ \A w \in Wallets : wallet'[w] # wallet[w] => w = games[tx.round].winner
        /\ \A r \in Rounds : games'[r] # games[r] => r = tx.round
        /\ random' = random /\ config' = config
    BY <1>1, <1>6 DEF ExecutesClaim, ClaimReward
  <2>2. acc.winner = games[tx.round].winner
    BY <1>6 DEF ExecutesClaim, IsWinner
  <2>3. /\ acc.winner = tx.command.user
        /\ {tx.command.user, VaultAddress, RoundAddress(tx.round)} \subseteq Writable(tx)
    BY <1>6, ClaimNames DEF ExecutesClaim
  <2> QED BY <2>1, <2>2, <2>3 DEF Touched
<1> QED BY <1>2, <1>3, <1>4, <1>5, <1>6 DEF Executes

(***************************************************************************)
(* For any number of runs, rounds and settings: no transaction of the      *)
(* command line changes an account that the interface description does not *)
(* declare writable, so the runtime never undoes one for it.               *)
(***************************************************************************)
THEOREM WritesStayDeclared == ClientSpec => WritesAreDeclared
<1>1. ASSUME ClientInv, [ClientNext]_allVars, NEW e \in ledger' \ ledger
      PROVE  Touched \subseteq WritableOf(Entries(e.tx), AccountsOf(e.tx))
  <2>1. ASSUME NEW s \in Runs, Land(s)
        PROVE  Touched \subseteq Writable(e.tx)
    <3>1. e.tx = run[s].tx /\ run[s].tx \in Transaction /\ Executes(run[s].tx)
      BY <1>1, <2>1 DEF Land, ClientInv, RunState
    <3> QED BY <1>1, <3>1, ExecutedWrites
  <2>2. CASE UNCHANGED vars
    BY <2>2 DEF vars, Touched
  <2>3. ledger' # ledger
    BY <1>1
  <2>4. ClientNext
    BY <1>1, <2>3 DEF allVars
  <2>5. (\E s \in Runs : Land(s)) \/ UNCHANGED vars
    BY <2>3, <2>4 DEF ClientNext, Fetch, ResolveCreate, ResolveWinner, Send, Abort, LandFailed,
       Confirm, GiveUp, PrintWinner, Elsewhere, clientVars
  <2> QED BY <2>1, <2>2, <2>5 DEF Writable
<1>2. ClientInv /\ [ClientNext]_allVars =>
         [\A e \in ledger' \ ledger :
             Touched \subseteq WritableOf(Entries(e.tx), AccountsOf(e.tx))]_allVars
  BY <1>1
<1> QED BY <1>2, ClientInvariance, PTL DEF ClientSpec, WritesAreDeclared
=============================================================================
