--------------------------- MODULE MCJackpotArith ---------------------------
(***************************************************************************)
(* The pure algorithms against reference definitions, over every deposit   *)
(* list and fee within the bounds.  The state is just the input.           *)
(***************************************************************************)
EXTENDS JackpotInterface, SequencesExt

CONSTANTS
    Users, MaxEntries, MaxAmount,
    FeeChoices, MaxValue,
    WordCount    (* number of values of the random word, 2^64 in the code *)

ASSUME NumbersAssumption ==
    /\ MaxAmount \in Nat /\ MaxValue \in Nat /\ FeeChoices \subseteq Nat
    /\ WordCount \in Nat \ {0}

VARIABLES list, bps

Init == list = << >> /\ bps \in FeeChoices

AddEntry ==
    /\ Len(list) < MaxEntries
    /\ \E u \in Users, a \in 0..MaxAmount :
          list' = Append(list, [user |-> u, amount |-> a])
    /\ UNCHANGED bps

Spec == Init /\ [][AddEntry]_<<list, bps>>

(* One slip of paper per lamport, in the order of the list.                *)
Slips == FlattenSeq([i \in 1..Len(list) |->
            [k \in 1..list[i].amount |-> list[i].user]])

(***************************************************************************)
(* The running total over a list, the pot set_winner divides by, is the    *)
(* number of slips; every ticket below it is drawn, and the loop picks the *)
(* owner of exactly that slip, also across entries of amount zero.         *)
(***************************************************************************)
DrawIsOneSlipPerLamport ==
    /\ TotalOf(list) = Len(Slips)
    /\ \A ticket \in 0..(Len(Slips) - 1) :
          /\ HasStop(list, ticket)
          /\ DrawnUser(list, ticket) = Slips[ticket + 1]

(***************************************************************************)
(* Over all values of the random word, an entry wins in proportion to its  *)
(* amount up to the bias of the remainder: per lamport, either the floor   *)
(* or the ceiling of the fair share of the words.                          *)
(***************************************************************************)
Words == 0..(WordCount - 1)

DrawIsProportional ==
    \A i \in 1..Len(list) :
        LET total == TotalOf(list)
            wins == {w \in Words : StopsAt(list, Ticket(total, w), i)}
            share == WordCount \div total
        IN  total > 0 => /\ Cardinality(wins) >= list[i].amount * share
                         /\ Cardinality(wins) <= list[i].amount * (share + 1)

(***************************************************************************)
(* The fee the program computes is fair for any two deposits.              *)
(***************************************************************************)
FeeIsFair == \A a, b \in 0..MaxValue : FairFee(bps, a, b)

(***************************************************************************)
(* Clients decode the accounts by the layout of the IDL, field by field;   *)
(* the program counts their bytes by hand.  The two agree, and an account  *)
(* that join_game has sized for a list still holds the layout when one     *)
(* more entry has been appended.                                           *)
(***************************************************************************)
LayoutFitsAllocation ==
    LET n == Len(list)
    IN  /\ ConfigBytes = ConfigLen
        /\ GameGroundBytes(n) = SerializedLen(n)
        /\ GameGroundBytes(n + 1) <= GameGroundSpace(n)
=============================================================================
