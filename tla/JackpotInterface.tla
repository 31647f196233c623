-------------------------- MODULE JackpotInterface --------------------------
(***************************************************************************)
(* The interface of the program as its IDL describes it to clients: the    *)
(* accounts each instruction takes, which of them must sign, which may be  *)
(* written, how the address of each is found, the layout of the accounts   *)
(* the program owns, and the errors it names.  Byte strings (seeds,        *)
(* discriminators, program keys) are names here; what matters of a derived *)
(* address is only which program, prefix and key it is derived from.       *)
(***************************************************************************)
EXTENDS JackpotArith

(***************************************************************************)
(* Entries of an account list.  A client must be told the address of an    *)
(* entry that is from "caller"; it looks up a "fixed" one in the IDL, and  *)
(* derives the others from a prefix and, where there is one, a key: an     *)
(* argument of the instruction or, for the round to be created, the        *)
(* counter gameRound, which it has to fetch.                               *)
(***************************************************************************)
Unkeyed == "unkeyed"

Signer(name) ==
    [name |-> name, signer |-> TRUE, writable |-> TRUE, from |-> "caller"]

Passed(name) ==
    [name |-> name, signer |-> FALSE, writable |-> TRUE, from |-> "caller"]

Derived(name, program, prefix, key) ==
    [name |-> name, signer |-> FALSE, writable |-> TRUE, from |-> "seeds",
     program |-> program, prefix |-> prefix, key |-> key]

Fixed(name) ==
    [name |-> name, signer |-> FALSE, writable |-> FALSE, from |-> "fixed"]

GlobalConfig == Derived("globalConfig", "jackpot", "config", Unkeyed)

GlobalVault == Derived("globalVault", "jackpot", "global", Unkeyed)

RoundKeyedBy_ReadOnly(key) ==
    [Derived("gameGround", "jackpot", "BONDING_CURVE", key) EXCEPT !.writable = FALSE]
RoundKeyedBy(key) == Derived("gameGround", "jackpot", "BONDING_CURVE", key)

SystemProgram == Fixed("systemProgram")

(***************************************************************************)
(* The account lists of the five instructions.                             *)
(***************************************************************************)
ClaimRewardAccounts ==
    {GlobalConfig, GlobalVault, Signer("winner"), Signer("payer"),
     RoundKeyedBy("roundNum"), SystemProgram}

ConfigureAccounts ==
    {Signer("payer"), Derived("config", "jackpot", "config", Unkeyed), GlobalVault,
     SystemProgram}

OracleAccounts ==
    {Derived("random", "vrf", "orao-vrf-randomness-request", "force"), Passed("treasury"),
     Derived("config", "vrf", "orao-vrf-network-configuration", Unkeyed), Fixed("vrf")}

CreateGameAccounts ==
    {GlobalConfig, GlobalVault, Signer("creator"), Signer("payer"),
     RoundKeyedBy("gameRound"), SystemProgram} \cup OracleAccounts

JoinGameAccounts ==
    {GlobalConfig, GlobalVault, Passed("teamWallet"), Signer("joiner"), Signer("payer"),
     RoundKeyedBy("roundNum"), SystemProgram}

SetWinnerAccounts ==
    {GlobalConfig, GlobalVault, Signer("creator"), RoundKeyedBy("roundNum"),
     Passed("random"), SystemProgram}

AccountsOfInstruction ==
    [configure |-> ConfigureAccounts, createGame |-> CreateGameAccounts,
     joinGame |-> JoinGameAccounts, setWinner |-> SetWinnerAccounts,
     claimReward |-> ClaimRewardAccounts]

(***************************************************************************)
(* Anchor's account resolution: what the caller passes, what the IDL       *)
(* fixes, and what follows from seeds.  It is possible when the caller     *)
(* passes every address that can be found in no other way.                 *)
(***************************************************************************)
Pda(program, prefix, key) == <<program, prefix, key>>

Resolvable(entries, passed, keys) ==
    \A a \in entries :
        /\ a.from = "caller" => a.name \in DOMAIN passed
        /\ a.from = "seeds" => a.key \in DOMAIN keys \cup {Unkeyed}

AddressOf(a, passed, keys) ==
    CASE a.from = "caller" -> passed[a.name]
      [] a.from = "fixed" -> Pda(a.name, Unkeyed, Unkeyed)
      [] a.from = "seeds" ->
            Pda(a.program, a.prefix, IF a.key = Unkeyed THEN Unkeyed ELSE keys[a.key])

Resolve(entries, passed, keys) ==
    [n \in {a.name : a \in entries} |->
        AddressOf(CHOOSE a \in entries : a.name = n, passed, keys)]

SignersOf(entries, addresses) == {addresses[a.name] : a \in {b \in entries : b.signer}}

WritableOf(entries, addresses) == {addresses[a.name] : a \in {b \in entries : b.writable}}

(***************************************************************************)
(* The layout of the program's accounts, field by field, and the number of *)
(* bytes Borsh needs for it after the 8-byte discriminator.                *)
(***************************************************************************)
ConfigFields == <<"pubkey", "pubkey", "pubkey", "u64", "u64", "u64", "u64", "bool">>

DepositInfoFields == <<"pubkey", "u64">>

GameGroundFields ==
    <<"pubkey", "u64", "i64", "i64", "i64", "i64", "u64", "u64", "pubkey", "u64", "u64",
      "u64", "seed", "bool", "bool", "vec">>

Discriminator == 8

(* A sequence is written as its length, in 4 bytes, and its elements.      *)
Width ==
    [pubkey |-> 32, seed |-> 32, u64 |-> 8, i64 |-> 8, bool |-> 1, vec |-> 4]

BytesOf(fields) == SumTo([i \in 1..Len(fields) |-> Width[fields[i]]], Len(fields))

GameGroundBytes(entries) ==
    Discriminator + BytesOf(GameGroundFields) + entries * BytesOf(DepositInfoFields)

ConfigBytes == Discriminator + BytesOf(ConfigFields)

(***************************************************************************)
(* The errors the program names; any other error comes from Anchor, from   *)
(* the system program or from a panic.                                     *)
(***************************************************************************)
ContractErrors ==
    {"valueTooSmall", "valueTooLarge", "valueInvalid", "incorrectAuthority",
     "incorrectTeamWalletAuthority", "incorrectPayerAuthority", "incorrectConfigAccount",
     "overflowOrUnderflowOccurred", "invalidAmount", "incorrectTeamWallet",
     "gameAlreadyCompleted", "setWinnerCompleted", "gameNotCompleted", "winnerClaimed",
     "returnAmountTooSmall", "notInitialized", "invalidGlobalAuthority", "insufficientSol",
     "arithmeticError", "mathOverflow", "endTimeError", "roundTimeError",
     "minDepositAmountError", "maxJoinerCountError", "userCountOverError",
     "stillProcessing", "depositAmountError", "roundNumberError"}
=============================================================================
