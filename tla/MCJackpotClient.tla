--------------------------- MODULE MCJackpotClient ---------------------------
(***************************************************************************)
(* Small instances of JackpotClient for TLC.                               *)
(***************************************************************************)
EXTENDS JackpotClient, MCJackpot

CONSTANTS s1, s2, s3

Create == [name |-> "create", user |-> admin, time |-> 1, min_deposit |-> 1, max_joiner |-> 2]

Config == [name |-> "config", user |-> admin]

Join == [name |-> "join", user |-> p1, round |-> 0, amount |-> 2]

TopUp == [name |-> "join", user |-> p1, round |-> 0, amount |-> 1]

DrawIt == [name |-> "winner", user |-> admin, round |-> 0]

Claim == [name |-> "claim", user |-> p1, round |-> 0]

(* Runs that race for the round counter.                                   *)
OperatorCommands == {Create, Config}

(* A player who joins, tops up and claims; an operator who draws.          *)
SessionCommands == {Join, TopUp, Claim, DrawIt}

JoinOnly == {Join}
ConfigOnly == {Config}

CliWrites == Settings(admin, 0, 3)

(* The player of the session can join and top up, but not join twice and   *)
(* keep the rent of the wallet; the other player can join with 1.          *)
SessionBalances == [Balances EXCEPT ![p2] = WalletRent + 1]

(* The authority may raise the fee to a half while a join is on its way.   *)
FeeChanges == {Settings(admin, 0, 3), Settings(admin, 5000, 3)}

(***************************************************************************)
(* Whatever a run has sent is either executed or refused by name: the list *)
(* of an instruction's errors is complete, and none of them is raised      *)
(* where the instruction would have gone through.                          *)
(***************************************************************************)
ExecutedOrRefused ==
    \A s \in Runs :
        InFlight(s) => (Refusal(run[s].tx) = NoError <=> ENABLED Executes(run[s].tx))

RunSymmetry == Permutations(Runs)
=============================================================================
