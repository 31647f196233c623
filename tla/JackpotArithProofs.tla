------------------------- MODULE JackpotArithProofs -------------------------
(***************************************************************************)
(* Facts about running totals and the weighted draw, for every list and    *)
(* every amount, that the proofs about the program rest on.                *)
(***************************************************************************)
EXTENDS JackpotArith, WellFoundedInduction, TLAPS

(***************************************************************************)
(* Least elements and induction on the naturals, both from the well-       *)
(* foundedness of <.                                                       *)
(***************************************************************************)
LEMMA LeastElement ==
    ASSUME NEW T, T \subseteq Nat, T # {}
    PROVE  \E x \in T : \A y \in T : x <= y
<1> DEFINE R == {p \in Nat \X Nat : p[1] < p[2]}
<1>1. IsWellFoundedOn(R, Nat)
  BY NatLessThanWellFounded DEF OpToRel
<1>2. PICK x \in T : \A y \in T : ~ (<<y, x>> \in R)
  <2> HIDE DEF R
  <2> QED BY <1>1, WFMin
<1>3. ASSUME NEW y \in T
      PROVE  x <= y
  <2>1. x \in Nat /\ y \in Nat
    OBVIOUS
  <2>2. ~ (y < x)
    BY <1>2, <2>1
  <2> QED BY <2>1, <2>2
<1> QED BY <1>3

LEMMA SetInduction ==
    ASSUME NEW S, 0 \in S, \A n \in Nat : n \in S => n + 1 \in S
    PROVE  \A n \in Nat : n \in S
<1> DEFINE T == Nat \ S
<1>1. SUFFICES ASSUME T # {} PROVE FALSE
  OBVIOUS
<1>2. PICK x \in T : \A y \in T : x <= y
  <2>1. T \subseteq Nat
    OBVIOUS
  <2> HIDE DEF T
  <2> QED BY <1>1, <2>1, LeastElement
<1>3. x # 0 /\ x - 1 \in Nat /\ ~ (x <= x - 1)
  BY DEF T
<1>4. x - 1 \in S
  BY <1>2, <1>3
<1>5. (x - 1) + 1 = x
  BY <1>3
<1> QED BY <1>3, <1>4, <1>5

(***************************************************************************)
(* The recursive definition of running totals defines a function.          *)
(***************************************************************************)
LEMMA RunningTotalDef ==
    ASSUME NEW f, NEW n \in Nat
    PROVE  RunningTotal(f, n) =
              [i \in 0..n |-> IF i = 0 THEN 0 ELSE RunningTotal(f, n)[i - 1] + f[i]]
<1> DEFINE IsTotal(g, m) == g = [i \in 0..m |-> IF i = 0 THEN 0 ELSE g[i - 1] + f[i]]
           S == {m \in Nat : \E g : IsTotal(g, m)}
<1>1. 0 \in S
  <2>1. IsTotal([i \in 0..0 |-> 0], 0)
    OBVIOUS
  <2> QED BY <2>1
<1>2. ASSUME NEW m \in Nat, m \in S
      PROVE  m + 1 \in S
  <2>1. PICK g : IsTotal(g, m)
    BY <1>2
  <2> DEFINE h == [i \in 0..(m + 1) |-> IF i = m + 1 THEN g[m] + f[m + 1] ELSE g[i]]
  <2>2. \A i \in 0..(m + 1) : h[i] = IF i = 0 THEN 0 ELSE h[i - 1] + f[i]
    <3> SUFFICES ASSUME NEW i \in 0..(m + 1)
                 PROVE  h[i] = IF i = 0 THEN 0 ELSE h[i - 1] + f[i]
      OBVIOUS
    <3>1. CASE i = m + 1
      <4>1. h[i - 1] = g[m]
        BY <3>1
      <4> QED BY <3>1, <4>1
    <3>2. CASE i # m + 1 /\ i = 0
      BY <2>1, <3>2
    <3>3. CASE i # m + 1 /\ i # 0
      <4>1. i \in 0..m /\ i - 1 \in 0..m
        BY <3>3
      <4>2. h[i] = g[i] /\ h[i - 1] = g[i - 1]
        BY <3>3, <4>1
      <4>3. g[i] = g[i - 1] + f[i]
        BY <2>1, <3>3, <4>1
      <4> QED BY <3>3, <4>2, <4>3
    <3> QED BY <3>1, <3>2, <3>3
  <2>3. IsTotal(h, m + 1)
    BY <2>2
  <2>4. \E e : IsTotal(e, m + 1)
    <3> HIDE DEF h, IsTotal
    <3> QED BY <2>3
  <2> QED BY <2>4
<1>3. \E g : IsTotal(g, n)
  <2> HIDE DEF S
  <2>1. \A m \in Nat : m \in S
    BY <1>1, <1>2, SetInduction
  <2> QED BY <2>1 DEF S
<1>4. RunningTotal(f, n) = CHOOSE g : IsTotal(g, n)
  BY DEF RunningTotal
<1>5. IsTotal(RunningTotal(f, n), n)
  <2> HIDE DEF IsTotal
  <2> QED BY <1>3, <1>4
<1> QED BY <1>5

LEMMA RunningTotalStep ==
    ASSUME NEW f, NEW n \in Nat
    PROVE  /\ RunningTotal(f, n)[0] = 0
           /\ \A i \in 1..n : RunningTotal(f, n)[i] = RunningTotal(f, n)[i - 1] + f[i]
<1> DEFINE g == RunningTotal(f, n)
<1>1. g = [i \in 0..n |-> IF i = 0 THEN 0 ELSE g[i - 1] + f[i]]
  BY RunningTotalDef
<1> HIDE DEF g
<1>2. g[0] = 0 /\ \A i \in 1..n : g[i] = g[i - 1] + f[i]
  BY <1>1
<1> QED BY <1>2 DEF g

(***************************************************************************)
(* Totals of integers are integers, totals of naturals are naturals that   *)
(* only grow.                                                              *)
(***************************************************************************)
LEMMA RunningTotalInt ==
    ASSUME NEW f, NEW n \in Nat, \A i \in 1..n : f[i] \in Int
    PROVE  \A i \in 0..n : RunningTotal(f, n)[i] \in Int
<1> DEFINE g == RunningTotal(f, n)
           S == {i \in Nat : i <= n => g[i] \in Int}
<1>1. g[0] = 0 /\ \A i \in 1..n : g[i] = g[i - 1] + f[i]
  BY RunningTotalStep
<1> HIDE DEF g
<1>2. 0 \in S
  BY <1>1
<1>3. ASSUME NEW i \in Nat, i \in S
      PROVE  i + 1 \in S
  <2> SUFFICES ASSUME i + 1 <= n PROVE g[i + 1] \in Int
    OBVIOUS
  <2>1. i + 1 \in 1..n /\ (i + 1) - 1 = i /\ i <= n
    OBVIOUS
  <2>2. g[i + 1] = g[i] + f[i + 1]
    BY <1>1, <2>1
  <2> QED BY <1>3, <2>1, <2>2
<1>4. \A i \in Nat : i \in S
  <2> HIDE DEF S
  <2> QED BY <1>2, <1>3, SetInduction
<1> QED BY <1>4 DEF g

LEMMA RunningTotalNat ==
    ASSUME NEW f, NEW n \in Nat, \A i \in 1..n : f[i] \in Nat
    PROVE  /\ \A i \in 0..n : RunningTotal(f, n)[i] \in Nat
           /\ \A i \in 1..n : RunningTotal(f, n)[i] <= RunningTotal(f, n)[n]
<1> DEFINE g == RunningTotal(f, n)
           S == {i \in Nat : i <= n => g[i] \in Nat}
           D == {k \in Nat : k <= n => g[n - k] <= g[n]}
<1>1. g[0] = 0 /\ \A i \in 1..n : g[i] = g[i - 1] + f[i]
  BY RunningTotalStep
<1> HIDE DEF g
<1>2. 0 \in S
  BY <1>1
<1>3. ASSUME NEW i \in Nat, i \in S
      PROVE  i + 1 \in S
  <2> SUFFICES ASSUME i + 1 <= n PROVE g[i + 1] \in Nat
    OBVIOUS
  <2>1. i + 1 \in 1..n /\ (i + 1) - 1 = i /\ i <= n
    OBVIOUS
  <2>2. g[i + 1] = g[i] + f[i + 1]
    BY <1>1, <2>1
  <2> QED BY <1>3, <2>1, <2>2
<1>4. \A i \in Nat : i \in S
  <2> HIDE DEF S
  <2> QED BY <1>2, <1>3, SetInduction
<1>5. \A i \in 0..n : g[i] \in Nat
  BY <1>4
<1>6. 0 \in D
  BY <1>5
<1>7. ASSUME NEW k \in Nat, k \in D
      PROVE  k + 1 \in D
  <2> SUFFICES ASSUME k + 1 <= n PROVE g[n - (k + 1)] <= g[n]
    OBVIOUS
  <2>1. n - k \in 1..n /\ (n - k) - 1 = n - (k + 1) /\ k <= n
    OBVIOUS
  <2>2. g[n - k] = g[n - (k + 1)] + f[n - k]
    BY <1>1, <2>1
  <2>3. f[n - k] \in Nat /\ g[n - (k + 1)] \in Nat /\ g[n] \in Nat /\ g[n - k] \in Nat
    BY <1>5, <2>1
  <2>4. g[n - k] <= g[n]
    BY <1>7, <2>1
  <2> QED BY <2>2, <2>3, <2>4
<1>8. \A k \in Nat : k \in D
  <2> HIDE DEF D
  <2> QED BY <1>6, <1>7, SetInduction
<1>9. ASSUME NEW i \in 1..n
      PROVE  g[i] <= g[n]
  <2>1. n - i \in Nat /\ n - i <= n /\ n - (n - i) = i
    OBVIOUS
  <2> QED BY <1>8, <2>1
<1> QED BY <1>5, <1>9 DEF g

(***************************************************************************)
(* A running total depends only on the amounts it adds up, and changing    *)
(* one amount by d changes by d the totals that include it.                *)
(***************************************************************************)
Shifted(f, h, n, k, d) ==
    \A i \in 1..n : f[i] \in Int /\ h[i] = IF i = k THEN f[i] + d ELSE f[i]

TotalsShifted(f, h, n, m, k, d) ==
    \A i \in 0..n : RunningTotal(h, m)[i] =
        IF 1 <= k /\ k <= i THEN RunningTotal(f, n)[i] + d ELSE RunningTotal(f, n)[i]

LEMMA RunningTotalChange ==
    ASSUME NEW f, NEW h, NEW n \in Nat, NEW m \in Nat, NEW k \in Nat, NEW d \in Int,
           n <= m, Shifted(f, h, n, k, d)
    PROVE  TotalsShifted(f, h, n, m, k, d)
<1> DEFINE F == RunningTotal(f, n)
           H == RunningTotal(h, m)
           S == {i \in Nat : i <= n => H[i] = IF 1 <= k /\ k <= i THEN F[i] + d ELSE F[i]}
<1>1. F[0] = 0 /\ \A i \in 1..n : F[i] = F[i - 1] + f[i]
  BY RunningTotalStep
<1>2. H[0] = 0 /\ \A i \in 1..m : H[i] = H[i - 1] + h[i]
  BY RunningTotalStep
<1>3. \A i \in 0..n : F[i] \in Int
  BY RunningTotalInt DEF Shifted
<1> HIDE DEF F, H
<1>4. 0 \in S
  BY <1>1, <1>2
<1>5. ASSUME NEW i \in Nat, i \in S
      PROVE  i + 1 \in S
  <2> SUFFICES ASSUME i + 1 <= n
               PROVE  H[i + 1] = IF 1 <= k /\ k <= i + 1 THEN F[i + 1] + d ELSE F[i + 1]
    OBVIOUS
  <2>1. i + 1 \in 1..n /\ i + 1 \in 1..m /\ (i + 1) - 1 = i /\ i \in 0..n
    OBVIOUS
  <2>2. F[i + 1] = F[i] + f[i + 1] /\ H[i + 1] = H[i] + h[i + 1]
    BY <1>1, <1>2, <2>1
  <2>3. H[i] = IF 1 <= k /\ k <= i THEN F[i] + d ELSE F[i]
    BY <1>5, <2>1
  <2>4. h[i + 1] = IF i + 1 = k THEN f[i + 1] + d ELSE f[i + 1]
    BY <2>1 DEF Shifted
  <2>5. F[i] \in Int /\ f[i + 1] \in Int
    BY <1>3, <2>1 DEF Shifted
  <2> QED BY <2>2, <2>3, <2>4, <2>5
<1>6. \A i \in Nat : i \in S
  <2> HIDE DEF S
  <2> QED BY <1>4, <1>5, SetInduction
<1> QED BY <1>6 DEF F, H, TotalsShifted

LEMMA SumChange ==
    ASSUME NEW f, NEW h, NEW n \in Nat, NEW k \in 1..n, NEW d \in Int, Shifted(f, h, n, k, d)
    PROVE  SumTo(h, n) = SumTo(f, n) + d /\ SumTo(f, n) \in Int
<1>1. n \in 0..n /\ n <= n /\ k \in Nat /\ 1 <= k /\ k <= n
  OBVIOUS
<1>2. RunningTotal(h, n)[n] = RunningTotal(f, n)[n] + d
  <2>1. TotalsShifted(f, h, n, n, k, d)
    BY <1>1, RunningTotalChange
  <2> QED BY <1>1, <2>1 DEF TotalsShifted
<1>3. RunningTotal(f, n)[n] \in Int
  BY <1>1, RunningTotalInt DEF Shifted
<1> QED BY <1>2, <1>3 DEF SumTo

LEMMA SumExtend ==
    ASSUME NEW f, NEW h, NEW n \in Nat, NEW m \in {n, n + 1},
           \A i \in 1..n : f[i] \in Int /\ h[i] = f[i]
    PROVE  SumTo(h, m) = IF m = n THEN SumTo(f, n) ELSE SumTo(f, n) + h[n + 1]
<1>1. Shifted(f, h, n, 0, 0)
  BY DEF Shifted
<1>2. m \in Nat /\ n <= m /\ n \in 0..n
  OBVIOUS
<1>3. RunningTotal(h, m)[n] = RunningTotal(f, n)[n]
  <2>1. TotalsShifted(f, h, n, m, 0, 0)
    BY <1>1, <1>2, RunningTotalChange
  <2> QED BY <1>2, <2>1 DEF TotalsShifted
<1>4. CASE m = n
  BY <1>3, <1>4 DEF SumTo
<1>5. CASE m = n + 1
  <2>1. n + 1 \in 1..m /\ (n + 1) - 1 = n
    BY <1>5
  <2>2. RunningTotal(h, m)[n + 1] = RunningTotal(h, m)[(n + 1) - 1] + h[n + 1]
    BY <1>2, <2>1, RunningTotalStep
  <2> QED BY <1>3, <1>5, <2>1, <2>2 DEF SumTo
<1> QED BY <1>4, <1>5

LEMMA SumExtendByOne ==
    ASSUME NEW f, NEW h, NEW n \in Nat, \A i \in 1..n : f[i] \in Int /\ h[i] = f[i]
    PROVE  SumTo(h, n + 1) = SumTo(f, n) + h[n + 1]
<1>1. n + 1 \in {n, n + 1} /\ n + 1 # n
  OBVIOUS
<1>2. SumTo(h, n + 1) = IF n + 1 = n THEN SumTo(f, n) ELSE SumTo(f, n) + h[n + 1]
  BY <1>1, SumExtend
<1> QED BY <1>1, <1>2

(***************************************************************************)
(* The same for a list of deposits: its total is a natural number at least *)
(* as large as each entry, adding an entry or raising one adds to it.      *)
(***************************************************************************)
LEMMA EntryType ==
    ASSUME NEW U, NEW list \in Seq([user : U, amount : Nat])
    PROVE  /\ Len(list) \in Nat
           /\ \A i \in 1..Len(list) : /\ list[i] \in [user : U, amount : Nat]
                                      /\ list[i].user \in U
                                      /\ list[i].amount \in Nat
                                      /\ Amounts(list)[i] = list[i].amount
<1>1. Len(list) \in Nat
  OBVIOUS
<1>2. ASSUME NEW i \in 1..Len(list)
      PROVE  list[i] \in [user : U, amount : Nat]
  <2> DEFINE V == [user : U, amount : Nat]
  <2>1. list \in Seq(V)
    OBVIOUS
  <2> HIDE DEF V
  <2>2. list[i] \in V
    BY <2>1
  <2> QED BY <2>2 DEF V
<1>3. ASSUME NEW i \in 1..Len(list)
      PROVE  /\ list[i].user \in U
             /\ list[i].amount \in Nat
             /\ Amounts(list)[i] = list[i].amount
  <2>1. list[i] \in [user : U, amount : Nat]
    BY <1>2
  <2>2. Amounts(list)[i] = list[i].amount
    BY DEF Amounts
  <2> QED BY <2>1, <2>2
<1> QED BY <1>1, <1>2, <1>3

LEMMA TotalOfNat ==
    ASSUME NEW U, NEW list \in Seq([user : U, amount : Nat])
    PROVE  TotalOf(list) \in Nat
<1>1. Len(list) \in Nat /\ \A i \in 1..Len(list) : Amounts(list)[i] \in Nat
  BY EntryType
<1>2. Len(list) \in 0..Len(list)
  BY <1>1
<1> QED BY <1>1, <1>2, RunningTotalNat DEF TotalOf, SumTo

LEMMA EntryBelowTotal ==
    ASSUME NEW U, NEW list \in Seq([user : U, amount : Nat]), NEW i \in 1..Len(list)
    PROVE  list[i].amount <= TotalOf(list)
<1> DEFINE n == Len(list)
           g == RunningTotal(Amounts(list), n)
<1>1. n \in Nat /\ \A j \in 1..n : Amounts(list)[j] \in Nat
  BY EntryType
<1>2. i \in 1..n /\ i - 1 \in 0..n /\ i \in 0..n
  BY <1>1
<1>3. g[i] = g[i - 1] + Amounts(list)[i]
  BY <1>1, <1>2, RunningTotalStep
<1>4. g[i - 1] \in Nat /\ g[i] \in Nat /\ g[n] \in Nat /\ g[i] <= g[n]
  <2>1. (\A j \in 0..n : g[j] \in Nat) /\ (\A j \in 1..n : g[j] <= g[n])
    BY <1>1, RunningTotalNat
  <2>2. n \in 0..n
    BY <1>1
  <2> QED BY <1>2, <2>1, <2>2
<1>5. Amounts(list)[i] = list[i].amount /\ list[i].amount \in Nat
  BY EntryType
<1>6. TotalOf(list) = g[n]
  BY DEF TotalOf, SumTo
<1> HIDE DEF g, n
<1> QED BY <1>3, <1>4, <1>5, <1>6

LEMMA TotalOfAppend ==
    ASSUME NEW U, NEW list \in Seq([user : U, amount : Nat]), NEW e \in [user : U, amount : Nat]
    PROVE  TotalOf(Append(list, e)) = TotalOf(list) + e.amount
<1> DEFINE n == Len(list)
           f == Amounts(list)
           h == Amounts(Append(list, e))
<1>1. n \in Nat /\ Len(Append(list, e)) = n + 1
  OBVIOUS
<1>2. ASSUME NEW i \in 1..n
      PROVE  f[i] \in Int /\ h[i] = f[i]
  <2>1. i \in 1..(n + 1) /\ Append(list, e)[i] = list[i]
    BY <1>1
  <2>2. h[i] = Append(list, e)[i].amount
    BY <1>1, <2>1 DEF Amounts
  <2>3. f[i] = list[i].amount /\ f[i] \in Int
    BY EntryType
  <2> QED BY <2>1, <2>2, <2>3
<1>3. h[n + 1] = e.amount
  <2>1. n + 1 \in 1..(n + 1) /\ Append(list, e)[n + 1] = e
    BY <1>1
  <2> QED BY <1>1, <2>1 DEF Amounts
<1> HIDE DEF f, h, n
<1>4. SumTo(h, n + 1) = SumTo(f, n) + h[n + 1]
  <2>1. \A i \in 1..n : f[i] \in Int /\ h[i] = f[i]
    BY <1>2
  <2> QED BY ONLY <1>1, <2>1, SumExtendByOne, Zenon
<1> QED BY <1>1, <1>3, <1>4 DEF TotalOf, f, h, n

LEMMA TotalOfRaise ==
    ASSUME NEW U, NEW list \in Seq([user : U, amount : Nat]),
           NEW k \in 1..Len(list), NEW a \in Nat
    PROVE  TotalOf([list EXCEPT ![k].amount = @ + a]) = TotalOf(list) + a
<1> DEFINE raised == [list EXCEPT ![k].amount = @ + a]
           n == Len(list)
           f == Amounts(list)
           h == Amounts(raised)
<1>1. n \in Nat /\ Len(raised) = n /\ k \in 1..n
  OBVIOUS
<1>2. ASSUME NEW i \in 1..n
      PROVE  f[i] \in Int /\ h[i] = IF i = k THEN f[i] + a ELSE f[i]
  <2>1. /\ list[i] \in [user : U, amount : Nat]
        /\ f[i] = list[i].amount
        /\ list[i].amount \in Nat
    BY EntryType
  <2>2. h[i] = raised[i].amount
    BY <1>1 DEF Amounts
  <2>3. raised[i] = IF i = k THEN [list[i] EXCEPT !.amount = @ + a] ELSE list[i]
    OBVIOUS
  <2> QED BY <2>1, <2>2, <2>3
<1> HIDE DEF f, h, n, raised
<1>3. SumTo(h, n) = SumTo(f, n) + a
  <2>1. a \in Int /\ Shifted(f, h, n, k, a)
    BY <1>2 DEF Shifted
  <2> QED BY <1>1, <2>1, SumChange
<1> QED BY <1>1, <1>3 DEF TotalOf, f, h, n, raised

(* What is left of a ticket when the walk passes an entry.                 *)
LEMMA StillAbove ==
    ASSUME NEW t \in Nat, NEW x, NEW y \in Nat, NEW z \in Nat, ~ (t < x), x = y + z
    PROVE  t - y >= z
OBVIOUS

LEMMA PassedBelow ==
    ASSUME NEW t \in Nat, NEW x, NEW y \in Nat, NEW z \in Nat, x = y + z, t - y >= z
    PROVE  t - x >= 0
OBVIOUS

(***************************************************************************)
(* The draw is total: every ticket below the pot stops at an entry, and    *)
(* wherever the loop stops there is a positive deposit.                    *)
(***************************************************************************)
LEMMA DrawStops ==
    ASSUME NEW U, NEW list \in Seq([user : U, amount : Nat]),
           NEW ticket \in Nat, ticket < TotalOf(list)
    PROVE  HasStop(list, ticket)
<1> DEFINE n == Len(list)
           g == RunningTotal(Amounts(list), n)
           T == {i \in 0..n : ticket < g[i]}
<1>1. n \in Nat /\ \A i \in 1..n : Amounts(list)[i] = list[i].amount /\ list[i].amount \in Nat
  BY EntryType
<1>2. g[0] = 0 /\ \A i \in 1..n : g[i] = g[i - 1] + list[i].amount
  BY <1>1, RunningTotalStep
<1>3. \A i \in 0..n : g[i] \in Nat
  BY <1>1, RunningTotalNat
<1>4. n \in T
  BY <1>1 DEF TotalOf, SumTo
<1>5. \A i \in 1..n : Remaining(list, ticket, i) = ticket - g[i - 1]
  BY DEF Remaining
<1> HIDE DEF g, n
<1>6. PICK s \in T : \A y \in T : s <= y
  <2>1. T \subseteq Nat /\ T # {}
    BY <1>1, <1>4
  <2> HIDE DEF T
  <2> QED BY <2>1, LeastElement
<1>7. s \in 1..n /\ s - 1 \in 0..n
  BY <1>1, <1>2
<1>8. Remaining(list, ticket, s) < list[s].amount
  <2>1. ticket < g[s] /\ g[s] = g[s - 1] + list[s].amount
    BY <1>2, <1>7
  <2>2. g[s - 1] \in Nat /\ list[s].amount \in Nat
    BY <1>1, <1>3, <1>7
  <2>3. Remaining(list, ticket, s) = ticket - g[s - 1]
    BY <1>5, <1>7
  <2> QED BY <2>1, <2>2, <2>3
<1>9. ASSUME NEW j \in 1..(s - 1)
      PROVE  Remaining(list, ticket, j) >= list[j].amount
  <2>1. j \in 1..n /\ j \in 0..n /\ j - 1 \in 0..n /\ ~ (s <= j)
    BY <1>1, <1>7
  <2>2. ~ (ticket < g[j])
    BY <1>6, <2>1
  <2>3. g[j] = g[j - 1] + list[j].amount /\ Remaining(list, ticket, j) = ticket - g[j - 1]
    BY <1>2, <1>5, <2>1
  <2>4. g[j] \in Nat /\ g[j - 1] \in Nat /\ list[j].amount \in Nat
    BY <1>1, <1>3, <2>1
  <2>5. ticket - g[j - 1] >= list[j].amount
    BY ONLY <2>2, <2>3, <2>4, ticket \in Nat, StillAbove, Zenon
  <2> QED BY <2>3, <2>5
<1> QED BY <1>7, <1>8, <1>9 DEF HasStop, StopsAt, n

LEMMA StopHasStake ==
    ASSUME NEW U, NEW list \in Seq([user : U, amount : Nat]),
           NEW ticket \in Nat, NEW i \in 1..Len(list), StopsAt(list, ticket, i)
    PROVE  list[i].amount > 0
<1> DEFINE n == Len(list)
           g == RunningTotal(Amounts(list), n)
<1>1. n \in Nat /\ \A j \in 1..n : Amounts(list)[j] = list[j].amount /\ list[j].amount \in Nat
  BY EntryType
<1>2. g[0] = 0 /\ \A j \in 1..n : g[j] = g[j - 1] + list[j].amount
  <2>1. g[0] = 0 /\ \A j \in 1..n : g[j] = g[j - 1] + Amounts(list)[j]
    BY <1>1, RunningTotalStep
  <2> QED BY <1>1, <2>1
<1>3. \A j \in 0..n : g[j] \in Nat
  BY <1>1, RunningTotalNat
<1>4. \A j \in 1..n : Remaining(list, ticket, j) = ticket - g[j - 1]
  BY DEF Remaining
<1>5. i \in 1..n
  OBVIOUS
<1> HIDE DEF g, n
<1>6. Remaining(list, ticket, i) < list[i].amount
  BY DEF StopsAt
<1>7. ticket - g[i - 1] >= 0
  <2>1. CASE i = 1
    BY <1>2, <2>1
  <2>2. CASE i # 1
    <3>1. i - 1 \in 1..(i - 1) /\ i - 1 \in 1..n /\ (i - 1) - 1 \in 0..n
      BY <1>1, <1>5, <2>2
    <3>2. Remaining(list, ticket, i - 1) >= list[i - 1].amount
      BY <3>1 DEF StopsAt
    <3>3. g[i - 1] = g[(i - 1) - 1] + list[i - 1].amount
      BY <1>2, <3>1
    <3>4. Remaining(list, ticket, i - 1) = ticket - g[(i - 1) - 1]
      BY <1>4, <3>1
    <3>5. ticket - g[(i - 1) - 1] >= list[i - 1].amount
      BY <3>2, <3>4
    <3>6. g[(i - 1) - 1] \in Nat /\ list[i - 1].amount \in Nat
      BY <1>1, <1>3, <3>1
    <3> QED BY ONLY <3>3, <3>5, <3>6, ticket \in Nat, PassedBelow, Zenon
  <2> QED BY <2>1, <2>2
<1>8. Remaining(list, ticket, i) = ticket - g[i - 1]
  BY <1>4, <1>5
<1>9. g[i - 1] \in Nat /\ list[i].amount \in Nat
  <2>1. i - 1 \in 0..n
    BY <1>1, <1>5
  <2> QED BY <1>1, <1>3, <1>5, <2>1
<1>10. ticket - g[i - 1] < list[i].amount
  BY <1>6, <1>8
<1> QED BY ONLY <1>7, <1>9, <1>10, ticket \in Nat

(***************************************************************************)
(* Whatever word the oracle delivers, a pot that is not empty is won by an *)
(* entry of the list with a positive amount.                               *)
(***************************************************************************)
THEOREM DrawPicksAStake ==
    ASSUME NEW U, NEW list \in Seq([user : U, amount : Nat]),
           NEW word \in Nat, TotalOf(list) > 0
    PROVE  LET ticket == Ticket(TotalOf(list), word)
           IN  /\ HasStop(list, ticket)
               /\ \E i \in 1..Len(list) : /\ list[i].user = DrawnUser(list, ticket)
                                          /\ list[i].amount > 0
<1> DEFINE ticket == Ticket(TotalOf(list), word)
<1>1. TotalOf(list) \in Nat
  BY TotalOfNat
<1>2. ticket \in Nat /\ ticket < TotalOf(list)
  BY <1>1 DEF Ticket
<1> HIDE DEF ticket
<1>3. HasStop(list, ticket)
  BY <1>2, DrawStops
<1> DEFINE i == CHOOSE j \in 1..Len(list) : StopsAt(list, ticket, j)
<1>4. i \in 1..Len(list) /\ StopsAt(list, ticket, i)
  BY <1>3 DEF HasStop
<1>5. list[i].user = DrawnUser(list, ticket)
  BY DEF DrawnUser
<1> HIDE DEF i
<1>6. list[i].amount > 0
  BY <1>2, <1>4, StopHasStake
<1> QED BY <1>3, <1>4, <1>5, <1>6 DEF ticket

-----------------------------------------------------------------------------
LEMMA Quotient ==
    ASSUME NEW x \in Nat
    PROVE  /\ x \div BpsDivisor \in Nat
           /\ (x \div BpsDivisor) * BpsDivisor <= x
           /\ x < (x \div BpsDivisor + 1) * BpsDivisor
BY DEF BpsDivisor

(***************************************************************************)
(* The fee is fair for every rate and all deposits, so the subtraction in  *)
(* join_game can fail only while the configured rate is above 100%.        *)
(***************************************************************************)
THEOREM FeesAreFair ==
    ASSUME NEW bps \in Nat, NEW a \in Nat, NEW b \in Nat
    PROVE  FairFee(bps, a, b)
<1> DEFINE x == a * bps
           y == b * bps
           z == (a + b) * bps
           fx == x \div BpsDivisor
           fy == y \div BpsDivisor
           fz == z \div BpsDivisor
<1>1. x \in Nat /\ y \in Nat /\ z \in Nat /\ z = x + y
  OBVIOUS
<1>2. BpsMul(bps, a) = fx /\ BpsMul(bps, b) = fy /\ BpsMul(bps, a + b) = fz
  BY DEF BpsMul
<1>3. bps * a = x
  OBVIOUS
<1>4. bps <= BpsDivisor => x <= a * BpsDivisor
  BY DEF BpsDivisor
<1> HIDE DEF x, y, z
<1>5. /\ fx \in Nat /\ fx * BpsDivisor <= x /\ x < (fx + 1) * BpsDivisor
      /\ fy \in Nat /\ fy * BpsDivisor <= y /\ y < (fy + 1) * BpsDivisor
      /\ fz \in Nat /\ fz * BpsDivisor <= z /\ z < (fz + 1) * BpsDivisor
  BY <1>1, Quotient
<1> HIDE DEF fx, fy, fz
<1>6. fx + fy <= fz
  BY <1>1, <1>5 DEF BpsDivisor
<1>7. bps <= BpsDivisor => fx <= a
  BY <1>1, <1>4, <1>5 DEF BpsDivisor
<1> QED BY <1>2, <1>3, <1>5, <1>6, <1>7 DEF FairFee
=============================================================================
