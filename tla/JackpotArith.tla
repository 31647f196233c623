---------------------------- MODULE JackpotArith ----------------------------
(***************************************************************************)
(* The arithmetic the program computes without touching its state: the     *)
(* platform fee, the size and rent of a round's account, running totals of *)
(* amounts, and the weighted draw.  Recursion is written as recursive      *)
(* functions, so that TLC can evaluate and TLAPS can reason about it.      *)
(***************************************************************************)
EXTENDS Integers, Sequences

(***************************************************************************)
(* The platform fee, in lamports: an integer division that rounds down.    *)
(* bps_mul has no value beyond 64 bits: FeeFits and FeeError say what      *)
(* join_game makes of that.                                                *)
(***************************************************************************)
BpsDivisor == 10000

BpsMul_RoundsUp(bps, value) == (value * bps + BpsDivisor - 1) \div BpsDivisor
BpsMul(bps, value) == (value * bps) \div BpsDivisor

(***************************************************************************)
(* What a fee on deposits a and b should be: bps_mul never exceeds the     *)
(* exact share, is less than one lamport below it, leaves a deposit for a  *)
(* rate up to 100%, and splitting a deposit over two joins never costs     *)
(* more.                                                                   *)
(***************************************************************************)
FairFee(bps, a, b) ==
    /\ BpsMul(bps, a) * BpsDivisor <= bps * a
    /\ bps * a < (BpsMul(bps, a) + 1) * BpsDivisor
    /\ bps <= BpsDivisor => BpsMul(bps, a) <= a
    /\ BpsMul(bps, a) + BpsMul(bps, b) <= BpsMul(bps, a + b)

(***************************************************************************)
(* Account sizes.  GameGroundInitSpace counts the fixed fields and then    *)
(* 24 + 40 bytes for the deposit list, so an account sized for len entries *)
(* has slack for one more; SerializedLen is what Borsh writes: the 8-byte  *)
(* discriminator, the 178 bytes of fixed fields, a 4-byte length and 40    *)
(* bytes for each deposit.                                                 *)
(***************************************************************************)
DepositInfoSpace == 32 + 8

GameGroundInitSpace == 32 + 7 * 8 + 32 + 3 * 8 + 32 + 2 + (24 + DepositInfoSpace)

GameGroundSpace_NoSlack(len) == 8 + 32 + 7 * 8 + 32 + 3 * 8 + 32 + 2 + 24 + len * DepositInfoSpace
GameGroundSpace(len) == 8 + GameGroundInitSpace + len * DepositInfoSpace

SerializedLen(len) == 8 + 178 + 4 + len * DepositInfoSpace

ConfigLen == 8 + 3 * 32 + 4 * 8 + 1

(* The rent-exempt minimum of an account of the given size, in lamports.   *)
RentMinimum(space) == (128 + space) * 6960

(* What configure leaves in the global vault on top of all deposits.       *)
VaultSeed_TooSmall == 100000
VaultSeed == 1000000

(***************************************************************************)
(* Running totals: RunningTotal(f, n)[i] = f[1] + ... + f[i].              *)
(***************************************************************************)
RunningTotal(f, n) ==
    LET total[i \in 0..n] == IF i = 0 THEN 0 ELSE total[i - 1] + f[i]
    IN  total

SumTo(f, n) == RunningTotal(f, n)[n]

Amounts(list) == [i \in 1..Len(list) |-> list[i].amount]

TotalOf(list) == SumTo(Amounts(list), Len(list))

(***************************************************************************)
(* The weighted draw.  The loop walks the list, and remaining shrinks by   *)
(* the amount of every entry it passes: before entry i it is the ticket    *)
(* less the running total of the entries before i.  The loop stops at the  *)
(* first entry whose amount exceeds what remains, or runs off the list.    *)
(***************************************************************************)
Remaining(list, ticket, i) == ticket - RunningTotal(Amounts(list), Len(list))[i - 1]

StopsAt_KeepsEqual(list, ticket, i) ==
    /\ Remaining(list, ticket, i) <= list[i].amount
    /\ \A j \in 1..(i - 1) : Remaining(list, ticket, j) > list[j].amount
StopsAt(list, ticket, i) ==
    /\ Remaining(list, ticket, i) < list[i].amount
    /\ \A j \in 1..(i - 1) : Remaining(list, ticket, j) >= list[j].amount

HasStop(list, ticket) == \E i \in 1..Len(list) : StopsAt(list, ticket, i)

Ticket_OffByOne(total, word) == word % (total + 1)
Ticket(total, word) == word % total

DrawnUser(list, ticket) ==
    list[CHOOSE i \in 1..Len(list) : StopsAt(list, ticket, i)].user
=============================================================================
