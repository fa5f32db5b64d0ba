---------------------------- MODULE Sums_proofs -----------------------------
(***************************************************************************)
(* Lemmas about SumOf, and about other functions on 0 .. m that are defined *)
(* by recursion.  Such a function is unfolded by looking at the least index *)
(* at which an equation fails.                                             *)
(***************************************************************************)
EXTENDS Sums, TLAPS, WellFoundedInduction

\* A set of naturals that is not empty has a least member.
LEMMA Least ==
  ASSUME NEW T \in SUBSET Nat, T # {}
  PROVE  \E x \in T : \A y \in T : x <= y
<1> DEFINE Smaller == OpToRel(<,Nat)
<1>1. IsWellFoundedOn(Smaller, Nat)
  BY NatLessThanWellFounded
<1>2. \A x, y \in Nat : <<y, x>> \in Smaller <=> y < x
  BY DEF OpToRel
<1> HIDE DEF Smaller
<1>3. PICK x \in T : \A y \in T : ~ (<<y, x>> \in Smaller)
  BY <1>1, WFMin
<1>4. \A y \in T : ~(y < x)
  BY <1>2, <1>3
<1> QED
  BY <1>3, <1>4

\* A property of 0 that goes from each number to the next holds of all numbers
\* up to n.
LEMMA UpTo ==
  ASSUME NEW n \in Nat, NEW S \in SUBSET (0 .. n),
         0 \in S,
         \A k \in 0 .. n : k \in S /\ k < n => k + 1 \in S
  PROVE  S = 0 .. n
<1> DEFINE T == (0 .. n) \ S
<1> SUFFICES ASSUME T # {} PROVE FALSE
  OBVIOUS
<1>0. T \in SUBSET Nat
  OBVIOUS
<1>1. PICK x \in T : \A y \in T : x <= y
  <2> HIDE DEF T
  <2> QED
    BY <1>0, Least
<1>2. x # 0 /\ x \in 1 .. n
  BY <1>1
<1>3. x - 1 \in 0 .. n /\ x - 1 < n /\ x - 1 + 1 = x
  BY <1>2
<1>4. x - 1 \in S
  BY <1>1, <1>3
<1>5. x \in S
  BY <1>3, <1>4
<1> QED
  BY <1>1, <1>5

-----------------------------------------------------------------------------
\* A step function for m steps in S, and the values that it goes through from a on.
StepFunction(step, m, S) == step \in [(1 .. m) \X S -> S]
Values(step, m, S, a, f) ==
  /\ f \in [0 .. m -> S] /\ f[0] = a
  /\ \A i \in 1 .. m : f[i] = step[<<i, f[i - 1]>>]

\* A step function can be taken any number of times.
LEMMA Recursion ==
  ASSUME NEW m, m \in Nat, NEW S, NEW a, a \in S, NEW step, StepFunction(step, m, S)
  PROVE  \E f : Values(step, m, S, a, f)
<1> DEFINE Steps(k, f) == Values(step, k, S, a, f)
           K == {k \in 0 .. m : \E f : Steps(k, f)}
<1> USE DEF Values, StepFunction
<1>1. 0 \in K
  <2> DEFINE z == [i \in 0 .. 0 |-> a]
  <2>1. z \in [0 .. 0 -> S] /\ z[0] = a
    OBVIOUS
  <2>2. \A i \in 1 .. 0 : FALSE
    OBVIOUS
  <2>3. Steps(0, z)
    <3> HIDE DEF z
    <3> QED
      BY <2>1, <2>2
  <2>4. 0 \in 0 .. m
    OBVIOUS
  <2> HIDE DEF z, Steps
  <2> QED
    BY <2>3, <2>4
<1>2. \A k \in 0 .. m : k \in K /\ k < m => k + 1 \in K
  <2> TAKE k \in 0 .. m
  <2> HAVE k \in K /\ k < m
  <2>1. PICK f : Steps(k, f)
    OBVIOUS
  <2> DEFINE g == [i \in 0 .. (k + 1) |-> IF i = k + 1 THEN step[<<k + 1, f[k]>>] ELSE f[i]]
  <2>2. k \in Nat /\ k + 1 \in 0 .. m /\ k + 1 \in 1 .. m /\ f[k] \in S
    BY <2>1
  <2>3. step[<<k + 1, f[k]>>] \in S
    BY <2>2
  <2>4. g \in [0 .. (k + 1) -> S]
    BY <2>1, <2>2, <2>3
  <2>5. g[0] = a
    BY <2>1, <2>2
  <2>6. ASSUME NEW i \in 1 .. (k + 1)
        PROVE  g[i] = step[<<i, g[i - 1]>>]
    <3>1. i - 1 \in 0 .. (k + 1) /\ i \in 0 .. (k + 1) /\ i - 1 # k + 1
      BY <2>2
    <3>2. g[i - 1] = f[i - 1]
      BY <3>1
    <3>3. CASE i = k + 1
      BY <2>2, <3>1, <3>2, <3>3
    <3>4. CASE i # k + 1
      <4>1. i \in 1 .. k
        BY <2>2, <3>4
      <4>2. f[i] = step[<<i, f[i - 1]>>]
        BY <2>1, <4>1
      <4>3. g[i] = f[i]
        BY <3>1, <3>4
      <4> QED
        BY <3>2, <4>2, <4>3
    <3> QED
      BY <3>3, <3>4
  <2>7. Steps(k + 1, g)
    <3> HIDE DEF g
    <3> QED
      BY <2>4, <2>5, <2>6
  <2> QED
    BY <2>2, <2>7
<1>3. K = 0 .. m
  <2> HIDE DEF K
  <2>1. K \in SUBSET (0 .. m)
    BY DEF K
  <2> QED
    BY <1>1, <1>2, <2>1, UpTo
<1>4. m \in K
  BY <1>3
<1> QED
  BY <1>4

-----------------------------------------------------------------------------
\* The equation of the recursive function in SumOf.
Sums(s, f) == f = [i \in 0 .. Len(s) |-> IF i = 0 THEN 0 ELSE f[i - 1] + s[i]]
\* The same equation up to index k.
SumsTo(s, k, f) == f = [i \in 0 .. k |-> IF i = 0 THEN 0 ELSE f[i - 1] + s[i]]

\* The equation has a solution.
LEMMA SumExists ==
  ASSUME NEW s \in Seq(Nat)
  PROVE  \E f : Sums(s, f)
<1> DEFINE n == Len(s)
           S == {k \in 0 .. n : \E f : SumsTo(s, k, f)}
<1>1. n \in Nat
  OBVIOUS
<1>2. 0 \in S
  <2> DEFINE z == [i \in 0 .. 0 |-> 0]
  <2>1. z = [i \in 0 .. 0 |-> IF i = 0 THEN 0 ELSE z[i - 1] + s[i]]
    OBVIOUS
  <2> HIDE DEF z
  <2>2. SumsTo(s, 0, z)
    BY <2>1 DEF SumsTo
  <2>3. 0 \in 0 .. n
    BY <1>1
  <2> QED
    BY <2>2, <2>3
<1>3. \A k \in 0 .. n : k \in S /\ k < n => k + 1 \in S
  <2> TAKE k \in 0 .. n
  <2> HAVE k \in S /\ k < n
  <2>1. PICK f : SumsTo(s, k, f)
    OBVIOUS
  <2> DEFINE g == [i \in 0 .. (k + 1) |-> IF i = k + 1 THEN f[k] + s[k + 1] ELSE f[i]]
             h == [i \in 0 .. (k + 1) |-> IF i = 0 THEN 0 ELSE g[i - 1] + s[i]]
  <2>2. k \in Nat /\ k + 1 \in 0 .. n
    BY <1>1
  <2>3. \A i \in 0 .. (k + 1) : g[i] = h[i]
    <3> TAKE i \in 0 .. (k + 1)
    <3>1. CASE i = k + 1
      BY <2>2, <3>1
    <3>2. CASE i # k + 1
      <4>1. i \in 0 .. k
        BY <2>2, <3>2
      <4>2. f[i] = IF i = 0 THEN 0 ELSE f[i - 1] + s[i]
        BY <2>1, <4>1 DEF SumsTo
      <4>3. CASE i = 0
        BY <2>2, <4>2, <4>3
      <4>4. CASE i # 0
        <5>1. i - 1 \in 0 .. (k + 1) /\ i - 1 # k + 1
          BY <2>2, <4>1, <4>4
        <5> QED
          BY <2>2, <3>2, <4>2, <4>4, <5>1
      <4> QED
        BY <4>3, <4>4
    <3> QED
      BY <3>1, <3>2
  <2>4. g = h
    BY <2>3
  <2>5. SumsTo(s, k + 1, g)
    BY <2>4 DEF SumsTo
  <2> QED
    BY <2>2, <2>5
<1>4. S = 0 .. n
  <2> HIDE DEF S
  <2>1. S \in SUBSET (0 .. n)
    BY DEF S
  <2> QED
    BY <1>1, <1>2, <1>3, <2>1, UpTo
<1>5. n \in S
  BY <1>1, <1>4
<1> QED
  BY <1>5 DEF SumsTo, Sums

\* Every solution at every index is a number, and any two solutions agree, also
\* when one of them is for a longer sequence.
LEMMA SumUnique ==
  ASSUME NEW s \in Seq(Nat), NEW t \in Seq(Nat), Len(s) <= Len(t),
         \A i \in 1 .. Len(s) : t[i] = s[i],
         NEW f, NEW g, Sums(s, f), Sums(t, g)
  PROVE  \A i \in 0 .. Len(s) : f[i] \in Nat /\ f[i] = g[i]
<1> DEFINE n == Len(s)
           S == {i \in 0 .. n : f[i] \in Nat /\ f[i] = g[i]}
<1>1. n \in Nat /\ Len(t) \in Nat
  OBVIOUS
<1>2. /\ \A i \in 0 .. n : f[i] = IF i = 0 THEN 0 ELSE f[i - 1] + s[i]
      /\ \A i \in 0 .. n : g[i] = IF i = 0 THEN 0 ELSE g[i - 1] + t[i]
  <2> HIDE DEF n
  <2>1. f = [i \in 0 .. n |-> IF i = 0 THEN 0 ELSE f[i - 1] + s[i]]
    BY DEF Sums, n
  <2>2. g = [i \in 0 .. Len(t) |-> IF i = 0 THEN 0 ELSE g[i - 1] + t[i]]
    BY DEF Sums
  <2>3. \A i \in 0 .. n : i \in 0 .. Len(t)
    BY <1>1 DEF n
  <2>4. \A i \in 0 .. n : f[i] = IF i = 0 THEN 0 ELSE f[i - 1] + s[i]
    BY <2>1
  <2>5. \A i \in 0 .. Len(t) : g[i] = IF i = 0 THEN 0 ELSE g[i - 1] + t[i]
    BY <2>2
  <2> QED
    BY <2>3, <2>4, <2>5
<1>3. 0 \in S
  BY <1>1, <1>2
<1>4. \A k \in 0 .. n : k \in S /\ k < n => k + 1 \in S
  <2> TAKE k \in 0 .. n
  <2> HAVE k \in S /\ k < n
  <2>1. k + 1 \in 0 .. n /\ k + 1 # 0 /\ k + 1 - 1 = k /\ k + 1 \in 1 .. n
    BY <1>1
  <2>2. s[k + 1] \in Nat /\ t[k + 1] = s[k + 1]
    BY <2>1
  <2>3. f[k + 1] = f[k] + s[k + 1] /\ g[k + 1] = g[k] + t[k + 1]
    BY <1>2, <2>1
  <2> QED
    BY <2>1, <2>2, <2>3, SMTT(60)
<1>5. S = 0 .. n
  <2> HIDE DEF S
  <2>1. S \in SUBSET (0 .. n)
    BY DEF S
  <2> QED
    BY <1>1, <1>3, <1>4, <2>1, UpTo
<1> QED
  BY <1>5

\* SumOf is the last value of the solution.
LEMMA SumOfDef ==
  ASSUME NEW s \in Seq(Nat)
  PROVE  \E f : Sums(s, f) /\ SumOf(s) = f[Len(s)]
<1> DEFINE f == CHOOSE f : Sums(s, f)
<1>1. Sums(s, f)
  BY SumExists
<1>2. SumOf(s) = f[Len(s)]
  BY DEF SumOf, Sums
<1> QED
  BY <1>1, <1>2

-----------------------------------------------------------------------------
\* The sum of numbers is a number.
LEMMA SumNat ==
  ASSUME NEW s \in Seq(Nat)
  PROVE  SumOf(s) \in Nat
<1>1. PICK f : Sums(s, f) /\ SumOf(s) = f[Len(s)]
  BY SumOfDef
<1>2. f[Len(s)] \in Nat
  BY <1>1, SumUnique
<1> QED
  BY <1>1, <1>2

\* Nothing sums to zero.
LEMMA SumEmpty == SumOf(<<>>) = 0
<1>0. <<>> \in Seq(Nat) /\ Len(<<>>) = 0
  OBVIOUS
<1>1. PICK f : Sums(<<>>, f) /\ SumOf(<<>>) = f[Len(<<>>)]
  BY <1>0, SumOfDef
<1>2. f = [i \in 0 .. 0 |-> IF i = 0 THEN 0 ELSE f[i - 1] + <<>>[i]]
  BY <1>0, <1>1 DEF Sums
<1>3. 0 \in 0 .. 0
  OBVIOUS
<1>4. f[0] = 0
  BY <1>2, <1>3
<1> QED
  BY <1>0, <1>1, <1>4

\* A number at the end of a sequence is added to its sum.
LEMMA SumAppend ==
  ASSUME NEW s \in Seq(Nat), NEW x \in Nat
  PROVE  SumOf(Append(s, x)) = SumOf(s) + x
<1> DEFINE t == Append(s, x)
<1>1. t \in Seq(Nat) /\ Len(t) = Len(s) + 1 /\ Len(s) \in Nat
  OBVIOUS
<1>2. t[Len(s) + 1] = x /\ \A i \in 1 .. Len(s) : t[i] = s[i]
  OBVIOUS
<1>3. PICK f : Sums(s, f) /\ SumOf(s) = f[Len(s)]
  BY SumOfDef
<1>4. PICK g : Sums(t, g) /\ SumOf(t) = g[Len(t)]
  BY <1>1, SumOfDef
<1> HIDE DEF t
<1>5. g[Len(s)] = f[Len(s)]
  <2>1. Len(s) <= Len(t)
    BY <1>1
  <2>2. \A i \in 0 .. Len(s) : f[i] \in Nat /\ f[i] = g[i]
    <3>1. t \in Seq(Nat) /\ \A i \in 1 .. Len(s) : t[i] = s[i]
      BY <1>1, <1>2
    <3>2. Sums(s, f) /\ Sums(t, g)
      BY <1>3, <1>4
    <3> QED
      BY <2>1, <3>1, <3>2, SumUnique, SMTT(30)
  <2> QED
    BY <1>1, <2>2
<1>6. g[Len(t)] = g[Len(s)] + t[Len(s) + 1]
  BY <1>1, <1>4 DEF Sums
<1>7. SumOf(t) = SumOf(s) + x
  BY <1>2, <1>3, <1>4, <1>5, <1>6
<1> QED
  BY <1>7 DEF t

\* The sum of a sequence is its first number and the sum of the rest.
LEMMA SumTail ==
  ASSUME NEW s \in Seq(Nat), s # <<>>
  PROVE  SumOf(s) = Head(s) + SumOf(Tail(s))
<1> DEFINE t == Tail(s)
           m == Len(t)
<1>1. /\ t \in Seq(Nat) /\ Len(s) = m + 1 /\ m \in Nat
      /\ Head(s) = s[1] /\ s[1] \in Nat
      /\ \A i \in 1 .. m : t[i] = s[i + 1]
  OBVIOUS
<1>2. PICK f : Sums(s, f) /\ SumOf(s) = f[Len(s)]
  BY SumOfDef
<1>3. PICK g : Sums(t, g) /\ SumOf(t) = g[Len(t)]
  BY <1>1, SumOfDef
<1> HIDE DEF t
<1>4. \A i \in 0 .. m : g[i] \in Nat
  <2>1. Len(t) <= Len(t) /\ \A i \in 1 .. Len(t) : t[i] = t[i]
    BY <1>1
  <2> QED
    BY <1>1, <1>3, <2>1, SumUnique
<1> HIDE DEF m
<1>5. \A i \in 0 .. (m + 1) : f[i] = IF i = 0 THEN 0 ELSE f[i - 1] + s[i]
  BY <1>1, <1>2 DEF Sums
<1>6. \A i \in 0 .. m : g[i] = IF i = 0 THEN 0 ELSE g[i - 1] + t[i]
  BY <1>1, <1>3 DEF Sums, m
<1> DEFINE S == {k \in 0 .. m : f[k + 1] = s[1] + g[k]}
<1>7. 0 \in S
  <2>1. f[1] = f[1 - 1] + s[1] /\ f[0] = 0 /\ g[0] = 0
    BY <1>1, <1>5, <1>6
  <2> QED
    BY <1>1, <2>1
<1>8. \A k \in 0 .. m : k \in S /\ k < m => k + 1 \in S
  <2> TAKE k \in 0 .. m
  <2> HAVE k \in S /\ k < m
  <2>1. k + 1 \in 1 .. m /\ k + 2 \in 1 .. (m + 1) /\ k + 2 - 1 = k + 1 /\ k + 1 - 1 = k
    BY <1>1
  <2>2. f[k + 2] = f[k + 1] + s[k + 2] /\ g[k + 1] = g[k] + t[k + 1]
    BY <1>1, <1>5, <1>6, <2>1
  <2>3. t[k + 1] = s[k + 2] /\ t[k + 1] \in Nat /\ g[k] \in Nat
    BY <1>1, <1>4, <2>1, SMTT(60) DEF m
  <2>4. f[k + 2] = s[1] + (g[k] + t[k + 1])
    BY <1>1, <2>2, <2>3
  <2>5. k + 1 \in 0 .. m /\ k + 1 + 1 = k + 2
    BY <1>1, <2>1
  <2> QED
    BY <2>2, <2>4, <2>5
<1>9. m \in S
  <2> HIDE DEF S
  <2>1. S \in SUBSET (0 .. m)
    BY DEF S
  <2>2. S = 0 .. m
    BY <1>1, <1>7, <1>8, <2>1, UpTo
  <2> QED
    BY <1>1, <2>2
<1>10. f[m + 1] = s[1] + g[m]
  BY <1>1, <1>9
<1> QED
  BY <1>1, <1>2, <1>3, <1>10 DEF t, m

-----------------------------------------------------------------------------
\* The first n numbers of s.
First(s, n) == [i \in 1 .. n |-> s[i]]

\* The sums of the first numbers grow by one number at a time.
LEMMA SumFirst ==
  ASSUME NEW l \in Nat, NEW s \in [1 .. l -> Nat]
  PROVE  /\ SumOf(First(s, 0)) = 0
         /\ \A n \in 0 .. l : SumOf(First(s, n)) \in Nat
         /\ \A n \in 1 .. l : SumOf(First(s, n)) = SumOf(First(s, n - 1)) + s[n]
<1>1. ASSUME NEW n \in 0 .. l
      PROVE  First(s, n) \in Seq(Nat) /\ Len(First(s, n)) = n
  <2>1. First(s, n) \in [1 .. n -> Nat] /\ n \in Nat
    BY DEF First
  <2> QED
    BY <2>1
<1>2. First(s, 0) = <<>>
  BY DEF First
<1>3. ASSUME NEW n \in 1 .. l
      PROVE  SumOf(First(s, n)) = SumOf(First(s, n - 1)) + s[n]
  <2> DEFINE a == Append(First(s, n - 1), s[n])
  <2>1. n - 1 \in 0 .. l /\ n \in 0 .. l /\ s[n] \in Nat
    OBVIOUS
  <2>2. First(s, n - 1) \in Seq(Nat) /\ Len(First(s, n - 1)) = n - 1
    BY <1>1, <2>1
  <2>3. a = First(s, n)
    <3>1. /\ a \in Seq(Nat) /\ Len(a) = n /\ a[n] = s[n]
          /\ \A i \in 1 .. (n - 1) : a[i] = First(s, n - 1)[i]
      BY <2>1, <2>2
    <3> HIDE DEF a
    <3>2. \A i \in 1 .. n : a[i] = s[i]
      BY <3>1 DEF First
    <3>3. a = [i \in 1 .. n |-> a[i]]
      BY <3>1
    <3> QED
      BY <3>2, <3>3 DEF First
  <2>4. SumOf(a) = SumOf(First(s, n - 1)) + s[n]
    BY <2>1, <2>2, SumAppend
  <2> QED
    BY <2>3, <2>4
<1>4. ASSUME NEW n \in 0 .. l
      PROVE  SumOf(First(s, n)) \in Nat
  BY <1>1, SumNat
<1> QED
  BY <1>2, <1>3, <1>4, SumEmpty

\* A function that goes up, or stays, at every step is larger later on.
LEMMA Upwards ==
  ASSUME NEW l \in Nat, NEW f \in [0 .. l -> Nat], \A n \in 1 .. l : f[n - 1] <= f[n]
  PROVE  \A m, n \in 0 .. l : m <= n => f[m] <= f[n]
<1> DEFINE K == {k \in 0 .. l : \A m \in 0 .. k : f[m] <= f[k]}
<1>1. 0 \in K
  OBVIOUS
<1>2. \A k \in 0 .. l : k \in K /\ k < l => k + 1 \in K
  <2> TAKE k \in 0 .. l
  <2> HAVE k \in K /\ k < l
  <2>1. k + 1 \in 1 .. l /\ k + 1 - 1 = k
    OBVIOUS
  <2>2. f[k] <= f[k + 1] /\ f[k] \in Nat /\ f[k + 1] \in Nat
    BY <2>1
  <2>3. ASSUME NEW m \in 0 .. (k + 1)
        PROVE  f[m] <= f[k + 1]
    <3>1. CASE m = k + 1
      BY <2>2, <3>1
    <3>2. CASE m \in 0 .. k
      <4>1. f[m] <= f[k] /\ f[m] \in Nat
        BY <3>2
      <4> QED
        BY <2>2, <4>1
    <3> QED
      BY <3>1, <3>2
  <2> QED
    BY <2>1, <2>3
<1>3. K = 0 .. l
  <2> HIDE DEF K
  <2>1. K \in SUBSET (0 .. l)
    BY DEF K
  <2> QED
    BY <1>1, <1>2, <2>1, UpTo
<1>4. ASSUME NEW m \in 0 .. l, NEW n \in 0 .. l, m <= n
      PROVE  f[m] <= f[n]
  <2>1. m \in 0 .. n
    BY <1>4
  <2>2. n \in K
    <3> HIDE DEF K
    <3> QED
      BY <1>3
  <2> QED
    BY <2>1, <2>2
<1> QED
  BY <1>4
=============================================================================
