-------------------------- MODULE JackpotDrawProofs --------------------------
(***************************************************************************)
(* The pure algorithms against their reference definitions, for deposit    *)
(* lists of any length, any amounts and any number of random words.        *)
(***************************************************************************)
EXTENDS MCJackpotArith, JackpotArithProofs, FiniteSetTheorems, SequenceTheorems

Entry == [user : Users, amount : Nat]

InputOK == list \in Seq(Entry) /\ bps \in Nat

LEMMA InputsAreTyped == Spec => []InputOK
<1>1. Init => InputOK
  BY NumbersAssumption DEF Init, InputOK
<1>2. InputOK /\ [AddEntry]_<<list, bps>> => InputOK'
  <2> SUFFICES ASSUME InputOK, [AddEntry]_<<list, bps>> PROVE InputOK'
    OBVIOUS
  <2>1. CASE AddEntry
    <3>1. PICK u \in Users, a \in 0..MaxAmount :
            list' = Append(list, [user |-> u, amount |-> a])
      BY <2>1 DEF AddEntry
    <3>2. [user |-> u, amount |-> a] \in Entry
      BY NumbersAssumption DEF Entry
    <3> QED BY <2>1, <3>1, <3>2 DEF AddEntry, InputOK
  <2>2. CASE UNCHANGED <<list, bps>>
    BY <2>2 DEF InputOK
  <2> QED BY <2>1, <2>2
<1> QED BY <1>1, <1>2, PTL DEF Spec

(***************************************************************************)
(* The fee is fair for any two deposits.                                   *)
(***************************************************************************)
THEOREM FeeStaysFair == Spec => []FeeIsFair
<1>1. InputOK => FeeIsFair
  BY NumbersAssumption, FeesAreFair DEF InputOK, FeeIsFair
<1> QED BY <1>1, InputsAreTyped, PTL

-----------------------------------------------------------------------------
(***************************************************************************)
(* The bytes of a layout, added up field by field.                         *)
(***************************************************************************)
AddsUp(g, fields, n) ==
    /\ g[0] = 0 /\ BytesOf(fields) = g[n]
    /\ \A i \in 1..n : g[i] = g[i - 1] + Width[fields[i]]

LEMMA WidthsOf ==
    ASSUME NEW fields, NEW n \in Nat, Len(fields) = n
    PROVE  \E g : AddsUp(g, fields, n)
<1> DEFINE f == [i \in 1..n |-> Width[fields[i]]]
           g == RunningTotal(f, n)
<1>1. g[0] = 0 /\ \A i \in 1..n : g[i] = g[i - 1] + f[i]
  BY RunningTotalStep
<1>2. BytesOf(fields) = g[n]
  BY DEF BytesOf, SumTo
<1> HIDE DEF g
<1>3. \A i \in 1..n : g[i] = g[i - 1] + Width[fields[i]]
  BY <1>1
<1> QED BY <1>1, <1>2, <1>3 DEF AddsUp

LEMMA ConfigBytesCounted == ConfigBytes = ConfigLen
<1>1. Len(ConfigFields) = 8
  BY DEF ConfigFields
<1>2. PICK g : AddsUp(g, ConfigFields, 8)
  BY <1>1, WidthsOf
<1>3. /\ g[1] = g[0] + 32 /\ g[2] = g[1] + 32 /\ g[3] = g[2] + 32
      /\ g[4] = g[3] + 8 /\ g[5] = g[4] + 8 /\ g[6] = g[5] + 8 /\ g[7] = g[6] + 8
      /\ g[8] = g[7] + 1
  BY <1>2 DEF AddsUp, ConfigFields, Width
<1> QED BY <1>2, <1>3 DEF AddsUp, ConfigBytes, ConfigLen, Discriminator

LEMMA DepositBytesCounted == BytesOf(DepositInfoFields) = DepositInfoSpace
<1>1. Len(DepositInfoFields) = 2
  BY DEF DepositInfoFields
<1>2. PICK g : AddsUp(g, DepositInfoFields, 2)
  BY <1>1, WidthsOf
<1>3. g[1] = g[0] + 32 /\ g[2] = g[1] + 8
  BY <1>2 DEF AddsUp, DepositInfoFields, Width
<1> QED BY <1>2, <1>3 DEF AddsUp, DepositInfoSpace

LEMMA RoundBytesCounted == BytesOf(GameGroundFields) = 178 + 4
<1>1. Len(GameGroundFields) = 16
  BY DEF GameGroundFields
<1>2. PICK g : AddsUp(g, GameGroundFields, 16)
  BY <1>1, WidthsOf
<1>3. /\ g[1] = g[0] + 32 /\ g[2] = g[1] + 8 /\ g[3] = g[2] + 8 /\ g[4] = g[3] + 8
      /\ g[5] = g[4] + 8 /\ g[6] = g[5] + 8 /\ g[7] = g[6] + 8 /\ g[8] = g[7] + 8
  BY <1>2 DEF AddsUp, GameGroundFields, Width
<1>4. /\ g[9] = g[8] + 32 /\ g[10] = g[9] + 8 /\ g[11] = g[10] + 8 /\ g[12] = g[11] + 8
      /\ g[13] = g[12] + 32 /\ g[14] = g[13] + 1 /\ g[15] = g[14] + 1 /\ g[16] = g[15] + 4
  BY <1>2 DEF AddsUp, GameGroundFields, Width
<1> QED BY <1>2, <1>3, <1>4 DEF AddsUp

(***************************************************************************)
(* For a list of any length, the layout of the interface description takes *)
(* the bytes the program counts, and fits an account sized for one entry   *)
(* less.                                                                   *)
(***************************************************************************)
THEOREM LayoutStaysInside == Spec => []LayoutFitsAllocation
<1>1. ASSUME NEW n \in Nat
      PROVE  /\ GameGroundBytes(n) = SerializedLen(n)
             /\ GameGroundBytes(n + 1) <= GameGroundSpace(n)
  BY RoundBytesCounted, DepositBytesCounted
     DEF GameGroundBytes, SerializedLen, GameGroundSpace, GameGroundInitSpace, Discriminator,
         DepositInfoSpace
<1>2. InputOK => LayoutFitsAllocation
  <2>1. InputOK => Len(list) \in Nat
    BY DEF InputOK
  <2> QED BY <1>1, <2>1, ConfigBytesCounted DEF LayoutFitsAllocation
<1> QED BY <1>2, InputsAreTyped, PTL

-----------------------------------------------------------------------------
(***************************************************************************)
(* The tickets that stop at an entry are those from the running total      *)
(* before it up to the running total after it.                             *)
(***************************************************************************)
Before(l, i) == RunningTotal(Amounts(l), Len(l))[i - 1]

LEMMA TotalsGrow ==
    ASSUME NEW l \in Seq(Entry)
    PROVE  /\ Len(l) \in Nat
           /\ Before(l, 1) = 0 /\ Before(l, Len(l) + 1) = TotalOf(l)
           /\ \A i \in 1..(Len(l) + 1) : Before(l, i) \in Nat /\ Before(l, i) <= TotalOf(l)
           /\ \A i \in 1..Len(l) : /\ l[i].amount \in Nat /\ l[i].user \in Users
                                   /\ Before(l, i + 1) = Before(l, i) + l[i].amount
<1> DEFINE n == Len(l)
           g == RunningTotal(Amounts(l), n)
<1>1. /\ n \in Nat
      /\ \A i \in 1..n : /\ Amounts(l)[i] = l[i].amount
                         /\ l[i].amount \in Nat /\ l[i].user \in Users
  BY EntryType DEF Entry
<1>2. g[0] = 0 /\ \A i \in 1..n : g[i] = g[i - 1] + l[i].amount
  <2>1. g[0] = 0 /\ \A i \in 1..n : g[i] = g[i - 1] + Amounts(l)[i]
    BY <1>1, RunningTotalStep
  <2> QED BY <1>1, <2>1
<1>3. (\A i \in 0..n : g[i] \in Nat) /\ (\A i \in 1..n : g[i] <= g[n])
  BY <1>1, RunningTotalNat
<1>4. \A i : Before(l, i) = g[i - 1]
  BY DEF Before
<1>5. TotalOf(l) = g[n]
  BY DEF TotalOf, SumTo
<1> HIDE DEF g, n
<1>6. \A i \in 1..(n + 1) : i - 1 \in 0..n
  BY <1>1
<1>7. g[n] \in Nat /\ n \in 0..n
  BY <1>1, <1>3
<1>8. \A i \in 0..n : g[i] <= g[n]
  BY <1>1, <1>2, <1>3, <1>7
<1>9. \A i \in 1..n : (i + 1) - 1 = i
  BY <1>1
<1>10. 1 - 1 = 0 /\ (n + 1) - 1 = n
  BY <1>1
<1> QED BY <1>1, <1>2, <1>3, <1>4, <1>5, <1>6, <1>8, <1>9, <1>10 DEF n

LEMMA TotalsOrdered ==
    ASSUME NEW l \in Seq(Entry), NEW i \in 1..Len(l)
    PROVE  \A j \in 1..i : Before(l, j) <= Before(l, i)
<1> DEFINE n == Len(l)
           B(j) == Before(l, j)
           K == {k \in Nat : k < i => B(i - k) <= B(i)}
<1>1. /\ n \in Nat
      /\ \A j \in 1..(n + 1) : B(j) \in Nat
      /\ \A j \in 1..n : l[j].amount \in Nat /\ B(j + 1) = B(j) + l[j].amount
  BY TotalsGrow
<1>2. i \in 1..n
  OBVIOUS
<1> HIDE DEF n, B
<1>3. 0 \in K
  BY <1>1, <1>2
<1>4. ASSUME NEW k \in Nat, k \in K
      PROVE  k + 1 \in K
  <2> SUFFICES ASSUME k + 1 < i PROVE B(i - (k + 1)) <= B(i)
    OBVIOUS
  <2> DEFINE j == i - (k + 1)
  <2>1. j \in 1..n /\ j \in 1..(n + 1) /\ i \in 1..(n + 1) /\ j + 1 = i - k /\ k < i
    BY <1>1, <1>2
  <2> HIDE DEF j
  <2>2. B(j + 1) <= B(i)
    BY <1>4, <2>1
  <2>3. B(j + 1) = B(j) + l[j].amount /\ l[j].amount \in Nat /\ B(j) \in Nat /\ B(i) \in Nat
    BY <1>1, <2>1
  <2> QED BY <2>2, <2>3 DEF j
<1>5. \A k \in Nat : k \in K
  <2> HIDE DEF K
  <2> QED BY <1>3, <1>4, SetInduction
<1>6. ASSUME NEW j \in 1..i
      PROVE  B(j) <= B(i)
  <2>1. i - j \in Nat /\ i - j < i /\ i - (i - j) = j
    BY <1>1, <1>2
  <2> QED BY <1>5, <2>1
<1> QED BY <1>6 DEF B

LEMMA StopsInInterval ==
    ASSUME NEW l \in Seq(Entry), NEW ticket \in Nat, NEW i \in 1..Len(l)
    PROVE  StopsAt(l, ticket, i) <=> Before(l, i) <= ticket /\ ticket < Before(l, i + 1)
<1> DEFINE n == Len(l)
           B(j) == Before(l, j)
<1>1. /\ n \in Nat /\ B(1) = 0
      /\ \A j \in 1..(n + 1) : B(j) \in Nat
      /\ \A j \in 1..n : l[j].amount \in Nat /\ B(j + 1) = B(j) + l[j].amount
  BY TotalsGrow
<1>2. \A j : Remaining(l, ticket, j) = ticket - B(j)
  BY DEF Remaining, Before
<1>3. StopsAt(l, ticket, i) <=> /\ ticket - B(i) < l[i].amount
                                /\ \A j \in 1..(i - 1) : ticket - B(j) >= l[j].amount
  BY <1>2 DEF StopsAt
<1>4. \A j \in 1..i : B(j) <= B(i)
  BY TotalsOrdered
<1>5. i \in 1..n
  OBVIOUS
<1> HIDE DEF n, B
<1>6. /\ i \in 1..(n + 1) /\ B(i) \in Nat /\ l[i].amount \in Nat
      /\ B(i + 1) = B(i) + l[i].amount
  <2>1. i \in 1..(n + 1)
    BY <1>1, <1>5
  <2> QED BY <1>1, <1>5, <2>1
<1>7. ASSUME ticket - B(i) < l[i].amount,
             \A j \in 1..(i - 1) : ticket - B(j) >= l[j].amount
      PROVE  B(i) <= ticket
  <2>1. CASE i = 1
    BY <1>1, <2>1
  <2>2. CASE i # 1
    <3> DEFINE j == i - 1
    <3>1. j \in 1..(i - 1) /\ j \in 1..n /\ j \in 1..(n + 1) /\ j + 1 = i
      BY <1>1, <1>5, <2>2
    <3> HIDE DEF j
    <3>2. ticket - B(j) >= l[j].amount
      BY <1>7, <3>1
    <3>3. B(i) = B(j) + l[j].amount /\ B(j) \in Nat /\ l[j].amount \in Nat
      BY <1>1, <3>1
    <3> QED BY <1>6, <3>2, <3>3
  <2> QED BY <2>1, <2>2
<1>8. ASSUME B(i) <= ticket, NEW j \in 1..(i - 1)
      PROVE  ticket - B(j) >= l[j].amount
  <2>1. j \in 1..n /\ j \in 1..(n + 1) /\ j + 1 \in 1..i
    BY <1>1, <1>5
  <2>2. B(j + 1) <= B(i) /\ B(j + 1) = B(j) + l[j].amount
    BY <1>1, <1>4, <2>1
  <2>3. B(j) \in Nat /\ l[j].amount \in Nat
    BY <1>1, <2>1
  <2> QED BY <1>6, <1>8, <2>2, <2>3
<1>9. ticket - B(i) < l[i].amount <=> ticket < B(i + 1)
  BY <1>6
<1> QED BY <1>3, <1>7, <1>8, <1>9 DEF B

-----------------------------------------------------------------------------
(***************************************************************************)
(* One slip of paper per lamport: FlattenSeq joins the slips of an entry   *)
(* to those of the entries before it.                                      *)
(***************************************************************************)
LEMMA FlattenJoins ==
    ASSUME NEW seqs, NEW n \in Nat, n # 0, Len(seqs) = n
    PROVE  \E h : /\ FlattenSeq(seqs) = h[n]
                  /\ h[1] = seqs[1]
                  /\ \A i \in 1..n : i # 1 => h[i] = h[i - 1] \o seqs[i]
<1> DEFINE Joins(h, m) == h = [i \in 1..m |-> IF i = 1 THEN seqs[i] ELSE h[i - 1] \o seqs[i]]
           S == {m \in Nat : \E h : Joins(h, m)}
<1>1. 0 \in S
  <2>1. Joins([i \in 1..0 |-> 0], 0)
    OBVIOUS
  <2> QED BY <2>1
<1>2. ASSUME NEW m \in Nat, m \in S
      PROVE  m + 1 \in S
  <2>1. PICK h : Joins(h, m)
    BY <1>2
  <2> DEFINE last == IF m = 0 THEN seqs[1] ELSE h[m] \o seqs[m + 1]
             e == [i \in 1..(m + 1) |-> IF i = m + 1 THEN last ELSE h[i]]
  <2>2. \A i \in 1..(m + 1) : e[i] = IF i = 1 THEN seqs[i] ELSE e[i - 1] \o seqs[i]
    <3> SUFFICES ASSUME NEW i \in 1..(m + 1)
                 PROVE  e[i] = IF i = 1 THEN seqs[i] ELSE e[i - 1] \o seqs[i]
      OBVIOUS
    <3>1. CASE i = m + 1 /\ m = 0
      BY <3>1
    <3>2. CASE i = m + 1 /\ m # 0
      <4>1. i # 1 /\ i - 1 = m /\ m \in 1..(m + 1) /\ m # m + 1
        BY <3>2
      <4>2. e[i - 1] = h[m]
        BY <4>1
      <4>3. e[i] = h[m] \o seqs[m + 1]
        BY <3>2
      <4> HIDE DEF e
      <4> QED BY <3>2, <4>1, <4>2, <4>3
    <3>3. CASE i # m + 1
      <4>1. i \in 1..m /\ e[i] = h[i]
        BY <3>3
      <4>2. h[i] = IF i = 1 THEN seqs[i] ELSE h[i - 1] \o seqs[i]
        BY <2>1, <4>1
      <4>3. i # 1 => e[i - 1] = h[i - 1]
        BY <4>1
      <4> HIDE DEF e
      <4> QED BY <4>1, <4>2, <4>3
    <3> QED BY <3>1, <3>2, <3>3
  <2>3. Joins(e, m + 1)
    BY <2>2
  <2> HIDE DEF e, Joins
  <2> QED BY <2>3
<1>3. \E h : Joins(h, n)
  <2> HIDE DEF S
  <2>1. \A m \in Nat : m \in S
    BY <1>1, <1>2, SetInduction
  <2> QED BY <2>1 DEF S
<1> DEFINE flat == CHOOSE h : Joins(h, n)
<1>4. FlattenSeq(seqs) = flat[n]
  BY DEF FlattenSeq
<1>5. Joins(flat, n)
  <2> HIDE DEF Joins
  <2> QED BY <1>3
<1> HIDE DEF flat
<1>6. \A i \in 1..n : flat[i] = IF i = 1 THEN seqs[i] ELSE flat[i - 1] \o seqs[i]
  BY <1>5
<1>7. 1 \in 1..n
  OBVIOUS
<1> QED BY <1>4, <1>6, <1>7

LEMMA FunctionIsSequence ==
    ASSUME NEW a \in Nat, NEW V, NEW s \in [1..a -> V]
    PROVE  s \in Seq(V) /\ Len(s) = a
<1>1. s \in Seq(V)
  BY SeqDef
<1>2. Len(s) \in Nat /\ 1..Len(s) = 1..a
  BY <1>1, LenProperties
<1> QED BY <1>1, <1>2

(***************************************************************************)
(* The slips s stand for the first i entries of l: as many as lamports,    *)
(* and those of an entry are the ones from the total before it on.         *)
(***************************************************************************)
SlipsOfFirst(s, l, i) ==
    /\ s \in Seq(Users) /\ Len(s) = Before(l, i + 1)
    /\ \A j \in 1..i : \A t \in Nat :
          Before(l, j) <= t /\ t < Before(l, j + 1) => s[t + 1] = l[j].user

LEMMA SlipsJoin ==
    ASSUME NEW l \in Seq(Entry), NEW i \in 1..Len(l),
           NEW s, i = 1 => s = << >>, i # 1 => SlipsOfFirst(s, l, i - 1),
           NEW p, p = [k \in 1..l[i].amount |-> l[i].user]
    PROVE  SlipsOfFirst(s \o p, l, i)
<1> DEFINE B(j) == Before(l, j)
           a == l[i].amount
<1>1. /\ Len(l) \in Nat /\ B(1) = 0
      /\ \A j \in 1..(Len(l) + 1) : B(j) \in Nat
      /\ \A j \in 1..Len(l) : /\ l[j].amount \in Nat /\ l[j].user \in Users
                              /\ B(j + 1) = B(j) + l[j].amount
  BY TotalsGrow
<1>2. /\ i \in 1..(Len(l) + 1) /\ B(i) \in Nat /\ a \in Nat /\ l[i].user \in Users
      /\ B(i + 1) = B(i) + a
  BY <1>1
<1>3. p \in Seq(Users) /\ Len(p) = a /\ \A k \in 1..a : p[k] = l[i].user
  <2>1. p \in [1..a -> Users] /\ \A k \in 1..a : p[k] = l[i].user
    BY <1>2
  <2> HIDE DEF a
  <2> QED BY <1>2, <2>1, FunctionIsSequence
<1>4. /\ s \in Seq(Users) /\ Len(s) = B(i)
      /\ \A j \in 1..(i - 1) : \A t \in Nat :
            B(j) <= t /\ t < B(j + 1) => s[t + 1] = l[j].user
  <2>1. CASE i = 1
    BY <1>1, <2>1, EmptySeq
  <2>2. CASE i # 1
    <3>1. (i - 1) + 1 = i
      BY <1>1
    <3> QED BY <2>2, <3>1 DEF SlipsOfFirst
  <2> QED BY <2>1, <2>2
<1>5. /\ s \o p \in Seq(Users) /\ Len(s \o p) = B(i) + a
      /\ \A k \in 1..(B(i) + a) : (s \o p)[k] = IF k <= B(i) THEN s[k] ELSE p[k - B(i)]
  <2> DEFINE m == Len(s)
  <2>1. /\ s \o p \in Seq(Users) /\ Len(s \o p) = m + Len(p)
        /\ \A k \in 1..(m + Len(p)) : (s \o p)[k] = IF k <= m THEN s[k] ELSE p[k - m]
    <3>1. s \in Seq(Users) /\ p \in Seq(Users)
      BY <1>3, <1>4
    <3>2. /\ s \o p \in Seq(Users) /\ Len(s \o p) = Len(s) + Len(p)
          /\ \A k \in 1..(Len(s) + Len(p)) :
                (s \o p)[k] = IF k <= Len(s) THEN s[k] ELSE p[k - Len(s)]
      BY ONLY <3>1, ConcatProperties
    <3> QED BY <3>2
  <2> HIDE DEF m
  <2>2. m = B(i) /\ Len(p) = a
    BY <1>3, <1>4 DEF m
  <2> HIDE DEF B, a
  <2> QED BY <2>1, <2>2
<1>6. \A j \in 1..i : B(j) <= B(i)
  BY TotalsOrdered
<1> HIDE DEF B, a
<1>7. ASSUME NEW j \in 1..i, NEW t \in Nat, B(j) <= t, t < B(j + 1)
      PROVE  (s \o p)[t + 1] = l[j].user
  <2>1. CASE j = i
    <3>1. t + 1 \in 1..(B(i) + a) /\ ~ (t + 1 <= B(i)) /\ (t + 1) - B(i) \in 1..a
      BY <1>2, <1>7, <2>1
    <3> QED BY <1>3, <1>5, <2>1, <3>1
  <2>2. CASE j # i
    <3>1. j \in 1..(i - 1) /\ j + 1 \in 1..i /\ j + 1 \in 1..(Len(l) + 1)
      BY <1>1, <2>2
    <3>2. B(j + 1) <= B(i) /\ B(j + 1) \in Nat
      BY <1>1, <1>6, <3>1
    <3>3. t + 1 \in 1..(B(i) + a) /\ t + 1 <= B(i)
      BY <1>2, <1>7, <3>2
    <3> QED BY <1>4, <1>5, <1>7, <3>1, <3>3
  <2> QED BY <2>1, <2>2
<1>8. \A j \in 1..i : \A t \in Nat : B(j) <= t /\ t < B(j + 1) => (s \o p)[t + 1] = l[j].user
  BY <1>7
<1>9. Len(s \o p) = B(i + 1)
  BY <1>2, <1>5
<1> QED BY <1>5, <1>8, <1>9 DEF SlipsOfFirst, B

LEMMA SlipsOfList ==
    ASSUME list \in Seq(Entry), Len(list) # 0
    PROVE  SlipsOfFirst(Slips, list, Len(list))
<1> DEFINE n == Len(list)
           parts == [i \in 1..n |-> [k \in 1..list[i].amount |-> list[i].user]]
<1>1. n \in Nat /\ n # 0
  OBVIOUS
<1>2. Slips = FlattenSeq(parts)
  BY DEF Slips
<1>3. \A i \in 1..n : parts[i] = [k \in 1..list[i].amount |-> list[i].user]
  OBVIOUS
<1>4. Len(parts) = n
  <2>1. \A i \in 1..n : list[i].amount \in Nat /\ list[i].user \in Users
    BY TotalsGrow
  <2>2. ASSUME NEW i \in 1..n
        PROVE  parts[i] \in Seq(Users)
    <3>1. list[i].amount \in Nat /\ parts[i] \in [1..list[i].amount -> Users]
      BY <2>1
    <3> HIDE DEF parts
    <3> QED BY <3>1, FunctionIsSequence
  <2>3. parts \in [1..n -> Seq(Users)]
    BY <2>2
  <2> HIDE DEF parts, n
  <2> QED BY <1>1, <2>3, FunctionIsSequence
<1> HIDE DEF parts
<1>5. PICK h : /\ Slips = h[n]
               /\ h[1] = parts[1]
               /\ \A i \in 1..n : i # 1 => h[i] = h[i - 1] \o parts[i]
  <2>1. \E h : /\ FlattenSeq(parts) = h[n]
               /\ h[1] = parts[1]
               /\ \A i \in 1..n : i # 1 => h[i] = h[i - 1] \o parts[i]
    <3> HIDE DEF n
    <3> QED BY <1>1, <1>4, FlattenJoins
  <2> QED BY <1>2, <2>1
<1> DEFINE I == {m \in Nat : m + 1 <= n => SlipsOfFirst(h[m + 1], list, m + 1)}
<1>6. 0 \in I
  <2>1. 1 \in 1..n
    BY <1>1
  <2>2. parts[1] = [k \in 1..list[1].amount |-> list[1].user]
    BY <1>3, <2>1
  <2>3. SlipsOfFirst(<< >> \o parts[1], list, 1)
    BY <2>1, <2>2, SlipsJoin
  <2>4. << >> \o parts[1] = parts[1]
    <3>1. list[1].amount \in Nat /\ list[1].user \in Users
      BY <2>1, TotalsGrow
    <3>2. parts[1] \in Seq(Users)
      <4>1. parts[1] \in [1..list[1].amount -> Users]
        BY <2>2, <3>1
      <4> QED BY <3>1, <4>1, FunctionIsSequence
    <3> QED BY <3>2, ConcatEmptySeq
  <2> QED BY <1>5, <2>3, <2>4
<1>7. ASSUME NEW m \in Nat, m \in I
      PROVE  m + 1 \in I
  <2> DEFINE i == (m + 1) + 1
  <2> SUFFICES ASSUME i <= n PROVE SlipsOfFirst(h[i], list, i)
    OBVIOUS
  <2>1. i \in 1..n /\ i # 1 /\ i - 1 = m + 1 /\ m + 1 <= n
    BY <1>1
  <2>2. SlipsOfFirst(h[m + 1], list, m + 1)
    BY <1>7, <2>1
  <2> HIDE DEF i
  <2>3. SlipsOfFirst(h[i - 1] \o parts[i], list, i)
    <3>1. parts[i] = [k \in 1..list[i].amount |-> list[i].user]
      BY <1>3, <2>1
    <3>2. SlipsOfFirst(h[i - 1], list, i - 1)
      BY <2>1, <2>2
    <3> QED BY <2>1, <3>1, <3>2, SlipsJoin
  <2> QED BY <1>5, <2>1, <2>3
<1>8. \A m \in Nat : m \in I
  <2> HIDE DEF I
  <2> QED BY <1>6, <1>7, SetInduction
<1>9. n - 1 \in Nat /\ (n - 1) + 1 = n /\ n <= n
  BY <1>1
<1> QED BY <1>5, <1>8, <1>9

(***************************************************************************)
(* The walk of set_winner draws one slip of paper per lamport, whatever    *)
(* the deposits are and however many.                                      *)
(***************************************************************************)
THEOREM DrawsSlips == Spec => []DrawIsOneSlipPerLamport
<1>1. ASSUME InputOK, Len(list) = 0
      PROVE  DrawIsOneSlipPerLamport
  <2>1. TotalOf(list) = 0
    <3>1. Before(list, 1) = 0 /\ Before(list, Len(list) + 1) = TotalOf(list)
      BY <1>1, TotalsGrow DEF InputOK
    <3>2. Len(list) + 1 = 1
      BY <1>1
    <3> QED BY <3>1, <3>2
  <2>2. Slips = [i \in 1..0 |-> [k \in 1..list[i].amount |-> list[i].user]]
    <3> DEFINE parts == [i \in 1..Len(list) |-> [k \in 1..list[i].amount |-> list[i].user]]
    <3>1. parts = << >>
      BY <1>1
    <3> HIDE DEF parts
    <3>2. Slips = parts
      BY <3>1 DEF Slips, FlattenSeq, parts
    <3> QED BY <1>1, <3>2 DEF parts
  <2>3. Len(Slips) = 0
    BY <2>2
  <2> QED BY <2>1, <2>3 DEF DrawIsOneSlipPerLamport
<1>2. ASSUME InputOK, Len(list) # 0
      PROVE  DrawIsOneSlipPerLamport
  <2> DEFINE n == Len(list)
  <2>1. /\ list \in Seq(Entry) /\ n \in Nat
        /\ Before(list, n + 1) = TotalOf(list) /\ TotalOf(list) \in Nat
    BY <1>2, TotalsGrow DEF InputOK
  <2>2. /\ Len(Slips) = TotalOf(list)
        /\ \A j \in 1..n : \A t \in Nat :
              Before(list, j) <= t /\ t < Before(list, j + 1) => Slips[t + 1] = list[j].user
    BY <1>2, <2>1, SlipsOfList DEF SlipsOfFirst
  <2>3. ASSUME NEW ticket \in 0..(Len(Slips) - 1)
        PROVE  HasStop(list, ticket) /\ DrawnUser(list, ticket) = Slips[ticket + 1]
    <3>1. ticket \in Nat /\ ticket < TotalOf(list)
      BY <2>1, <2>2
    <3>2. HasStop(list, ticket)
      BY <2>1, <3>1, DrawStops DEF Entry
    <3> DEFINE i == CHOOSE j \in 1..Len(list) : StopsAt(list, ticket, j)
    <3>3. i \in 1..n /\ StopsAt(list, ticket, i)
      BY <3>2 DEF HasStop
    <3>4. DrawnUser(list, ticket) = list[i].user
      BY DEF DrawnUser
    <3> HIDE DEF i
    <3>5. Before(list, i) <= ticket /\ ticket < Before(list, i + 1)
      BY <2>1, <3>1, <3>3, StopsInInterval
    <3> QED BY <2>2, <3>1, <3>2, <3>3, <3>4, <3>5
  <2> QED BY <2>2, <2>3 DEF DrawIsOneSlipPerLamport
<1>3. InputOK => DrawIsOneSlipPerLamport
  BY <1>1, <1>2
<1> QED BY <1>3, InputsAreTyped, PTL

-----------------------------------------------------------------------------
(***************************************************************************)
(* Division with remainder.                                                *)
(***************************************************************************)
LEMMA DivMod ==
    ASSUME NEW w \in Nat, NEW t \in Nat \ {0}
    PROVE  /\ w \div t \in Nat /\ w % t \in 0..(t - 1)
           /\ w = t * (w \div t) + (w % t)
OBVIOUS

LEMMA DivModUnique ==
    ASSUME NEW t \in Nat \ {0}, NEW q \in Nat, NEW r \in 0..(t - 1)
    PROVE  (t * q + r) \div t = q /\ (t * q + r) % t = r
OBVIOUS

LEMMA MultiplesApart ==
    ASSUME NEW t \in Nat \ {0}, NEW q \in Nat, NEW p \in Nat, q < p
    PROVE  t * q + t <= t * p
OBVIOUS

LEMMA IntervalSize ==
    ASSUME NEW a \in Nat, NEW b \in Nat, a <= b
    PROVE  IsFiniteSet(a..(b - 1)) /\ Cardinality(a..(b - 1)) = b - a
<1> DEFINE c == b - 1
<1>1. a \in Int /\ c \in Int
  OBVIOUS
<1>2. (IF a > c THEN 0 ELSE c - a + 1) = b - a
  OBVIOUS
<1> HIDE DEF c
<1>3. IsFiniteSet(a..c) /\ Cardinality(a..c) = IF a > c THEN 0 ELSE c - a + 1
  BY <1>1, FS_Interval
<1> QED BY <1>2, <1>3 DEF c

(***************************************************************************)
(* Of the words below count, those whose remainder is at least lo and      *)
(* below hi: hi - lo of each full row of t words, and at most as many of   *)
(* the last row.                                                           *)
(***************************************************************************)
LEMMA WordsWithRemainder ==
    ASSUME NEW count \in Nat, NEW t \in Nat \ {0}, NEW lo \in Nat, NEW hi \in Nat,
           lo <= hi, hi <= t,
           NEW wins, wins = {w \in 0..(count - 1) : lo <= w % t /\ w % t < hi}
    PROVE  /\ Cardinality(wins) >= (hi - lo) * (count \div t)
           /\ Cardinality(wins) <= (hi - lo) * (count \div t + 1)
<1> DEFINE rows == count \div t
           full == 0..(rows - 1)
           all == 0..rows
           columns == lo..(hi - 1)
           n == Cardinality(wins)
<1>1. /\ rows \in Nat /\ count % t \in 0..(t - 1)
      /\ count = t * rows + (count % t)
  BY DivMod
<1>2. IsFiniteSet(wins) /\ n \in Nat
  <2>1. IsFiniteSet(0..(count - 1)) /\ wins \in SUBSET (0..(count - 1))
    BY FS_Interval
  <2> HIDE DEF n
  <2> QED BY <2>1, FS_Subset, FS_CardinalityType DEF n
<1>3. ASSUME NEW w \in wins
      PROVE  w \div t \in all /\ w % t \in columns
  <2>1. w \in Nat /\ w < count /\ lo <= w % t /\ w % t < hi
    OBVIOUS
  <2>2. w \div t \in Nat /\ w % t \in 0..(t - 1) /\ w = t * (w \div t) + (w % t)
    BY <2>1, DivMod
  <2> DEFINE q == w \div t
             r == w % t
  <2> HIDE DEF q, r, rows
  <2>3. q \in Nat /\ r \in 0..(t - 1) /\ w = t * q + r
    BY <2>2 DEF q, r
  <2>4. ~ (rows < q)
    <3>1. ASSUME rows < q PROVE FALSE
      <4>1. t * rows + t <= t * q
        BY <1>1, <2>3, <3>1, MultiplesApart
      <4>2. t * rows \in Nat /\ t * q \in Nat
        BY <1>1, <2>3
      <4> QED BY <1>1, <2>1, <2>3, <4>1, <4>2
    <3> QED BY <3>1
  <2>5. q \in 0..rows
    BY <1>1, <2>3, <2>4
  <2>6. r \in lo..(hi - 1)
    BY <2>1, <2>3 DEF r
  <2> QED BY <2>5, <2>6 DEF q, r, rows
<1>4. ASSUME NEW q \in full, NEW r \in columns
      PROVE  /\ t * q + r \in wins
             /\ (t * q + r) \div t = q /\ (t * q + r) % t = r
  <2> HIDE DEF rows
  <2>1. q \in Nat /\ q < rows /\ r \in 0..(t - 1) /\ lo <= r /\ r < hi
    BY <1>1
  <2>2. (t * q + r) \div t = q /\ (t * q + r) % t = r
    BY <2>1, DivModUnique
  <2>3. t * q + r \in 0..(count - 1)
    <3>1. t * q + t <= t * rows
      BY <1>1, <2>1, MultiplesApart
    <3>2. t * rows \in Nat /\ t * q \in Nat
      BY <1>1, <2>1
    <3> DEFINE x == t * q
               y == t * rows
    <3> HIDE DEF x, y
    <3>3. x \in Nat /\ y \in Nat /\ x + t <= y /\ y <= count
      BY <1>1, <3>1, <3>2 DEF x, y
    <3>4. x + r \in 0..(count - 1)
      BY <2>1, <3>3
    <3> QED BY <3>4 DEF x
  <2> QED BY <2>1, <2>2, <2>3
<1>5. IsFiniteSet(columns) /\ Cardinality(columns) = hi - lo
  BY IntervalSize
<1>6. /\ IsFiniteSet(full) /\ Cardinality(full) = rows
      /\ IsFiniteSet(all) /\ Cardinality(all) = rows + 1
  <2> HIDE DEF rows
  <2>1. 0 \in Nat /\ 0 <= rows /\ rows + 1 \in Nat /\ 0 <= rows + 1 /\ (rows + 1) - 1 = rows
    BY <1>1
  <2>2. IsFiniteSet(0..(rows - 1)) /\ Cardinality(0..(rows - 1)) = rows - 0
    BY <1>1, <2>1, IntervalSize
  <2>3. /\ IsFiniteSet(0..((rows + 1) - 1))
        /\ Cardinality(0..((rows + 1) - 1)) = (rows + 1) - 0
    BY <2>1, IntervalSize
  <2>4. rows - 0 = rows /\ (rows + 1) - 0 = rows + 1
    BY <1>1
  <2> QED BY <2>1, <2>2, <2>3, <2>4
<1> HIDE DEF rows, full, all, columns
<1>7. (hi - lo) * rows <= n
  <2> DEFINE f == [p \in full \X columns |-> t * p[1] + p[2]]
  <2>1. f \in [full \X columns -> wins]
    BY <1>4
  <2>2. ASSUME NEW x \in full \X columns, NEW y \in full \X columns, f[x] = f[y]
        PROVE  x = y
    <3>1. t * x[1] + x[2] = t * y[1] + y[2]
      BY <2>2
    <3>2. x[1] \in full /\ x[2] \in columns /\ y[1] \in full /\ y[2] \in columns
      OBVIOUS
    <3>3. x[1] = y[1] /\ x[2] = y[2]
      BY <1>4, <3>1, <3>2
    <3> QED BY <3>3
  <2>3. f \in Injection(full \X columns, wins)
    <3>1. DOMAIN f = full \X columns
      OBVIOUS
    <3> HIDE DEF f
    <3> QED BY <2>1, <2>2, <3>1 DEF Injection, IsInjective
  <2> HIDE DEF f
  <2>4. Cardinality(full \X columns) <= n
    BY <1>2, <2>3, FS_Injection
  <2>5. Cardinality(full \X columns) = rows * (hi - lo)
    BY <1>5, <1>6, FS_Product
  <2>6. rows * (hi - lo) = (hi - lo) * rows
    BY <1>1
  <2> QED BY <2>4, <2>5, <2>6
<1>8. n <= (hi - lo) * (rows + 1)
  <2> DEFINE f == [w \in wins |-> <<w \div t, w % t>>]
  <2>1. f \in [wins -> all \X columns]
    BY <1>3
  <2>2. ASSUME NEW v \in wins, NEW w \in wins, f[v] = f[w]
        PROVE  v = w
    <3>1. v \div t = w \div t /\ v % t = w % t
      BY <2>2
    <3>2. v \in Nat /\ w \in Nat
      OBVIOUS
    <3>3. v = t * (v \div t) + (v % t) /\ w = t * (w \div t) + (w % t)
      BY <3>2, DivMod
    <3> QED BY <3>1, <3>3
  <2>3. f \in Injection(wins, all \X columns)
    <3>1. DOMAIN f = wins
      OBVIOUS
    <3> HIDE DEF f
    <3> QED BY <2>1, <2>2, <3>1 DEF Injection, IsInjective
  <2> HIDE DEF f
  <2>4. /\ IsFiniteSet(all \X columns)
        /\ Cardinality(all \X columns) = (rows + 1) * (hi - lo)
    BY <1>5, <1>6, FS_Product
  <2>5. n <= Cardinality(all \X columns)
    BY <2>3, <2>4, FS_Injection
  <2>6. (rows + 1) * (hi - lo) = (hi - lo) * (rows + 1)
    BY <1>1
  <2> QED BY <2>4, <2>5, <2>6
<1> QED BY <1>2, <1>7, <1>8 DEF rows

(***************************************************************************)
(* The draw is fair up to the bias of the remainder: per lamport, an entry *)
(* wins for the floor or the ceiling of the words' fair share, whatever    *)
(* the deposits are and however many words there are.                      *)
(***************************************************************************)
THEOREM DrawsInProportion == Spec => []DrawIsProportional
<1>1. ASSUME InputOK, NEW i \in 1..Len(list), TotalOf(list) > 0,
             NEW wins, wins = {w \in Words : StopsAt(list, Ticket(TotalOf(list), w), i)}
      PROVE  /\ Cardinality(wins) >= list[i].amount * (WordCount \div TotalOf(list))
             /\ Cardinality(wins) <= list[i].amount * (WordCount \div TotalOf(list) + 1)
  <2> DEFINE total == TotalOf(list)
             lo == Before(list, i)
             hi == Before(list, i + 1)
  <2>1. list \in Seq(Entry)
    BY <1>1 DEF InputOK
  <2>2. /\ lo \in Nat /\ hi \in Nat /\ lo <= hi /\ hi <= total /\ hi - lo = list[i].amount
        /\ total \in Nat \ {0}
    <3>1. /\ Len(list) \in Nat
          /\ Before(list, Len(list) + 1) = total
          /\ \A j \in 1..(Len(list) + 1) : Before(list, j) \in Nat /\ Before(list, j) <= total
          /\ \A j \in 1..Len(list) : /\ list[j].amount \in Nat
                                     /\ Before(list, j + 1) = Before(list, j) + list[j].amount
      BY <2>1, TotalsGrow
    <3>2. i \in 1..(Len(list) + 1) /\ i + 1 \in 1..(Len(list) + 1)
      BY <3>1
    <3>3. total \in Nat
      BY <3>1
    <3> HIDE DEF total
    <3> QED BY <1>1, <3>1, <3>2, <3>3 DEF total
  <2>3. ASSUME NEW w \in Words
        PROVE  StopsAt(list, Ticket(total, w), i) <=> lo <= w % total /\ w % total < hi
    <3>1. w \in Nat
      BY NumbersAssumption DEF Words
    <3>2. Ticket(total, w) = w % total
      BY DEF Ticket
    <3> HIDE DEF total
    <3>3. w % total \in Nat
      BY <2>2, <3>1
    <3> QED BY <2>1, <3>2, <3>3, StopsInInterval
  <2> HIDE DEF total, lo, hi
  <2>4. wins = {w \in 0..(WordCount - 1) : lo <= w % total /\ w % total < hi}
    BY <1>1, <2>3 DEF Words, total
  <2>5. /\ Cardinality(wins) >= (hi - lo) * (WordCount \div total)
        /\ Cardinality(wins) <= (hi - lo) * (WordCount \div total + 1)
    BY <2>2, <2>4, NumbersAssumption, WordsWithRemainder
  <2> QED BY <2>2, <2>5 DEF total
<1>2. InputOK => DrawIsProportional
  BY <1>1 DEF DrawIsProportional
<1> QED BY <1>2, InputsAreTyped, PTL
=============================================================================
