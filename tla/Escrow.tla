------------------------------- MODULE Escrow -------------------------------
(***************************************************************************)
(* What the jackpot promises about money, and nothing else: one vault      *)
(* holds the pots of all rounds over a reserve that is never spent; a pot  *)
(* only grows, until it is awarded once, to somebody with a stake in it,   *)
(* and is paid at most once, whole, to whom it was awarded.  It does not   *)
(* promise that the growth stops at the award: the program does not stop   *)
(* it.                                                                     *)
(***************************************************************************)
EXTENDS Integers

CONSTANTS Rounds, Wallets, NoWallet, MinReserve, MaxDeposit

VARIABLES pot, backers, beneficiary, payout, settled, vault, reserve

vars == <<pot, backers, beneficiary, payout, settled, vault, reserve>>

Init ==
    /\ pot = [r \in Rounds |-> 0]
    /\ backers = [r \in Rounds |-> {}]
    /\ beneficiary = [r \in Rounds |-> NoWallet]
    /\ payout = [r \in Rounds |-> 0]
    /\ settled = [r \in Rounds |-> FALSE]
    /\ vault = 0
    /\ reserve = 0

Endow ==
    /\ reserve' >= reserve
    /\ vault' - vault = reserve' - reserve
    /\ UNCHANGED <<pot, backers, beneficiary, payout, settled>>

Fund(r, w, amount) ==
    /\ reserve >= MinReserve
    /\ pot' = [pot EXCEPT ![r] = @ + amount]
    /\ backers' = [backers EXCEPT ![r] = IF amount > 0 THEN @ \cup {w} ELSE @]
    /\ vault' = vault + amount
    /\ UNCHANGED <<beneficiary, payout, settled, reserve>>

Award(r, w) ==
    /\ beneficiary[r] = NoWallet
    /\ w \in backers[r]
    /\ beneficiary' = [beneficiary EXCEPT ![r] = w]
    /\ UNCHANGED <<pot, backers, payout, settled, vault, reserve>>

Pay(r) ==
    /\ beneficiary[r] # NoWallet
    /\ ~settled[r]
    /\ payout' = [payout EXCEPT ![r] = pot[r]]
    /\ settled' = [settled EXCEPT ![r] = TRUE]
    /\ vault' = vault - pot[r]
    /\ vault' >= reserve
    /\ UNCHANGED <<pot, backers, beneficiary, reserve>>

Next ==
    \/ Endow
    \/ \E r \in Rounds, w \in Wallets, amount \in 0..MaxDeposit : Fund(r, w, amount)
    \/ \E r \in Rounds, w \in Wallets : Award(r, w)
    \/ \E r \in Rounds : Pay(r)

Spec == Init /\ [][Next]_vars
=============================================================================
