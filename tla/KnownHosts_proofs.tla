-------------------------- MODULE KnownHosts_proofs --------------------------
(***************************************************************************)
(* The verdict on a host key, for every file, host and key.                 *)
(*                                                                         *)
(* globMatches decides whether a pattern denotes a value: all that has been *)
(* passed over since the last star stands for one character each, and the   *)
(* pattern denotes the value only if the rest behind this star denotes some *)
(* end of what the star may leave.  So no earlier star needs to take more,  *)
(* and the loop ends, since each pass goes on in the pattern or makes the   *)
(* last star take more.                                                     *)
(*                                                                         *)
(* The loops over patterns, lines and entries then keep what the ones that  *)
(* they have passed say together, which does not depend on their order.     *)
(***************************************************************************)
EXTENDS KnownHosts, Sums_proofs

-----------------------------------------------------------------------------
(* Globs                                                                   *)

\* The pattern from its element i on stands for the value from its character j on.
Rest(pattern, value, i, j) ==
  \E begin \in [i .. (Len(pattern) + 1) -> 1 .. (Len(value) + 1)] :
    /\ begin[i] = j /\ begin[Len(pattern) + 1] = Len(value) + 1
    /\ \A k \in i .. Len(pattern) : StandsFor(pattern[k], value, begin[k], begin[k + 1])

Globbed(pattern, value) == pattern \in Seq(Characters) /\ value \in Name

\* The end of the pattern stands for the end of the value only.
LEMMA RestLast ==
  ASSUME NEW pattern, NEW value, Globbed(pattern, value), NEW j \in 1 .. (Len(value) + 1)
  PROVE  Rest(pattern, value, Len(pattern) + 1, j) <=> j = Len(value) + 1
<1> DEFINE P == Len(pattern)
           V == Len(value)
<1>1. P \in Nat /\ V \in Nat
  BY DEF Globbed, Name
<1>2. ASSUME j = V + 1 PROVE Rest(pattern, value, P + 1, j)
  <2> DEFINE b == [k \in (P + 1) .. (P + 1) |-> V + 1]
  <2>1. b \in [(P + 1) .. (P + 1) -> 1 .. (V + 1)] /\ b[P + 1] = V + 1
    BY <1>1
  <2>2. \A k \in (P + 1) .. P : FALSE
    BY <1>1
  <2> HIDE DEF b
  <2> QED
    BY <1>2, <2>1, <2>2 DEF Rest
<1>3. ASSUME Rest(pattern, value, P + 1, j) PROVE j = V + 1
  BY <1>3 DEF Rest
<1> QED
  BY <1>2, <1>3

\* An element stands for some characters, and those behind it for the others.
LEMMA RestStep ==
  ASSUME NEW pattern, NEW value, Globbed(pattern, value),
         NEW i \in 1 .. Len(pattern), NEW j \in 1 .. (Len(value) + 1)
  PROVE  Rest(pattern, value, i, j) <=>
           \E l \in 1 .. (Len(value) + 1) :
             StandsFor(pattern[i], value, j, l) /\ Rest(pattern, value, i + 1, l)
<1> DEFINE P == Len(pattern)
           V == Len(value)
<1>1. P \in Nat /\ V \in Nat
  BY DEF Globbed, Name
<1>2. ASSUME NEW l \in 1 .. (V + 1), StandsFor(pattern[i], value, j, l), Rest(pattern, value, i + 1, l)
      PROVE  Rest(pattern, value, i, j)
  <2>1. PICK c \in [(i + 1) .. (P + 1) -> 1 .. (V + 1)] :
          /\ c[i + 1] = l /\ c[P + 1] = V + 1
          /\ \A k \in (i + 1) .. P : StandsFor(pattern[k], value, c[k], c[k + 1])
    BY <1>2 DEF Rest
  <2> DEFINE b == [k \in i .. (P + 1) |-> IF k = i THEN j ELSE c[k]]
  <2>2. b \in [i .. (P + 1) -> 1 .. (V + 1)]
    <3>1. \A k \in i .. (P + 1) : k = i \/ k \in (i + 1) .. (P + 1)
      BY <1>1
    <3> QED
      BY <3>1
  <2>3. b[i] = j /\ \A k \in (i + 1) .. (P + 1) : b[k] = c[k]
    BY <1>1
  <2>4. b[P + 1] = V + 1 /\ b[i + 1] = l
    BY <1>1, <2>1, <2>3
  <2> HIDE DEF b
  <2>5. ASSUME NEW k \in i .. P PROVE StandsFor(pattern[k], value, b[k], b[k + 1])
    <3>1. CASE k = i
      BY <1>2, <2>3, <2>4, <3>1
    <3>2. CASE k # i
      <4>1. k \in (i + 1) .. P /\ k \in (i + 1) .. (P + 1) /\ k + 1 \in (i + 1) .. (P + 1)
        BY <1>1, <3>2
      <4> QED
        BY <2>1, <2>3, <4>1
    <3> QED
      BY <3>1, <3>2
  <2> QED
    BY <2>2, <2>3, <2>4, <2>5 DEF Rest
<1>3. ASSUME Rest(pattern, value, i, j)
      PROVE  \E l \in 1 .. (V + 1) :
               StandsFor(pattern[i], value, j, l) /\ Rest(pattern, value, i + 1, l)
  <2>1. PICK b \in [i .. (P + 1) -> 1 .. (V + 1)] :
          /\ b[i] = j /\ b[P + 1] = V + 1
          /\ \A k \in i .. P : StandsFor(pattern[k], value, b[k], b[k + 1])
    BY <1>3 DEF Rest
  <2> DEFINE c == [k \in (i + 1) .. (P + 1) |-> b[k]]
  <2>2. \A k \in (i + 1) .. (P + 1) : k \in i .. (P + 1) /\ c[k] = b[k]
    BY <1>1
  <2>3. c \in [(i + 1) .. (P + 1) -> 1 .. (V + 1)]
    BY <2>2
  <2>4. i + 1 \in (i + 1) .. (P + 1) /\ P + 1 \in (i + 1) .. (P + 1) /\ i \in i .. P
    BY <1>1
  <2>5. \A k \in (i + 1) .. P :
          k \in i .. P /\ k \in (i + 1) .. (P + 1) /\ k + 1 \in (i + 1) .. (P + 1)
    BY <1>1
  <2> HIDE DEF c
  <2>6. Rest(pattern, value, i + 1, b[i + 1])
    <3>1. c[i + 1] = b[i + 1] /\ c[P + 1] = V + 1
      BY <2>1, <2>2, <2>4
    <3>2. ASSUME NEW k \in (i + 1) .. P PROVE StandsFor(pattern[k], value, c[k], c[k + 1])
      <4>1. c[k] = b[k] /\ c[k + 1] = b[k + 1]
        BY <2>2, <2>5
      <4>2. StandsFor(pattern[k], value, b[k], b[k + 1])
        BY <2>1, <2>5
      <4> QED
        BY <4>1, <4>2
    <3> QED
      BY <2>3, <3>1, <3>2 DEF Rest
  <2>7. b[i + 1] \in 1 .. (V + 1)
    BY <2>2, <2>4
  <2>8. StandsFor(pattern[i], value, j, b[i + 1])
    BY <2>1, <2>4
  <2> QED
    BY <2>6, <2>7, <2>8
<1> QED
  BY <1>2, <1>3

\* A star stands for any characters.
LEMMA RestStar ==
  ASSUME NEW pattern, NEW value, Globbed(pattern, value),
         NEW i \in 1 .. Len(pattern), NEW j \in 1 .. (Len(value) + 1), pattern[i] = "*"
  PROVE  Rest(pattern, value, i, j) <=>
           \E l \in j .. (Len(value) + 1) : Rest(pattern, value, i + 1, l)
<1>1. \A l \in 1 .. (Len(value) + 1) :
        StandsFor(pattern[i], value, j, l) <=> l \in j .. (Len(value) + 1)
  BY DEF StandsFor, Globbed, Name
<1>2. \A l \in j .. (Len(value) + 1) : l \in 1 .. (Len(value) + 1)
  BY DEF Globbed, Name
<1> QED
  BY <1>1, <1>2, RestStep

\* An element that is no star stands for one character.
LEMMA RestChar ==
  ASSUME NEW pattern, NEW value, Globbed(pattern, value),
         NEW i \in 1 .. Len(pattern), NEW j \in 1 .. (Len(value) + 1), pattern[i] # "*"
  PROVE  Rest(pattern, value, i, j) <=>
           j <= Len(value) /\ pattern[i] \in {"?", value[j]} /\ Rest(pattern, value, i + 1, j + 1)
<1>0. Len(value) \in Nat
  BY DEF Globbed, Name
<1>1. \A l \in 1 .. (Len(value) + 1) :
        StandsFor(pattern[i], value, j, l) <=> j <= Len(value) /\ l = j + 1 /\ pattern[i] \in {"?", value[j]}
  BY <1>0 DEF StandsFor
<1>2. j <= Len(value) => j + 1 \in 1 .. (Len(value) + 1)
  BY <1>0
<1> QED
  BY <1>1, <1>2, RestStep

\* Elements that stand for one character each can be passed over together.
LEMMA RestRun ==
  ASSUME NEW pattern, NEW value, Globbed(pattern, value),
         NEW a \in 1 .. (Len(pattern) + 1), NEW b \in a .. (Len(pattern) + 1),
         \A k \in a .. (b - 1) : pattern[k] # "*",
         NEW j \in 1 .. (Len(value) + 1)
  PROVE  /\ Rest(pattern, value, a, j) =>
              j + (b - a) <= Len(value) + 1 /\ Rest(pattern, value, b, j + (b - a))
         /\ /\ j + (b - a) <= Len(value) + 1
            /\ \A k \in a .. (b - 1) : pattern[k] \in {"?", value[j + (k - a)]}
            /\ Rest(pattern, value, b, j + (b - a))
            => Rest(pattern, value, a, j)
<1> DEFINE P == Len(pattern)
           V == Len(value)
           n == b - a
           Over(m) ==
             /\ Rest(pattern, value, a, j) => j + m <= V + 1 /\ Rest(pattern, value, a + m, j + m)
             /\ /\ j + m <= V + 1
                /\ \A k \in a .. (a + m - 1) : pattern[k] \in {"?", value[j + (k - a)]}
                /\ Rest(pattern, value, a + m, j + m)
                => Rest(pattern, value, a, j)
           S == {m \in 0 .. n : Over(m)}
<1>1. P \in Nat /\ V \in Nat /\ n \in Nat /\ a + n = b
  BY DEF Globbed, Name
<1>2. 0 \in S
  <2>1. a + 0 = a /\ j + 0 = j /\ 0 \in 0 .. n /\ j <= V + 1
    BY <1>1
  <2>2. Over(0)
    BY <2>1
  <2> QED
    BY <2>1, <2>2
<1>3. ASSUME NEW m \in 0 .. n, m \in S, m < n PROVE m + 1 \in S
  <2>1. Over(m)
    BY <1>3
  <2>2. /\ a + m \in 1 .. P /\ a + m \in a .. (b - 1) /\ m + 1 \in 0 .. n
        /\ a + m + 1 = a + (m + 1) /\ j + m + 1 = j + (m + 1)
    BY <1>1, <1>3
  <2>3. pattern[a + m] # "*"
    BY <2>2
  <2>4. ASSUME j + m <= V + 1
        PROVE  Rest(pattern, value, a + m, j + m) <=>
                 j + m <= V /\ pattern[a + m] \in {"?", value[j + m]}
                 /\ Rest(pattern, value, a + m + 1, j + m + 1)
    <3>1. j + m \in 1 .. (V + 1)
      BY <1>1, <2>4
    <3> QED
      BY <2>2, <2>3, <3>1, RestChar
  <2>5. ASSUME Rest(pattern, value, a, j)
        PROVE  j + (m + 1) <= V + 1 /\ Rest(pattern, value, a + (m + 1), j + (m + 1))
    <3>1. j + m <= V + 1 /\ Rest(pattern, value, a + m, j + m)
      BY <2>1, <2>5
    <3>2. j + m <= V /\ Rest(pattern, value, a + m + 1, j + m + 1)
      BY <3>1, <2>4
    <3>3. j + (m + 1) <= V + 1
      BY <1>1, <3>2
    <3> QED
      BY <2>2, <3>2, <3>3
  <2>6. ASSUME j + (m + 1) <= V + 1,
               \A k \in a .. (a + (m + 1) - 1) : pattern[k] \in {"?", value[j + (k - a)]},
               Rest(pattern, value, a + (m + 1), j + (m + 1))
        PROVE  Rest(pattern, value, a, j)
    <3>1. j + m <= V + 1 /\ j + m <= V
      BY <1>1, <2>6
    <3>2. a + m \in a .. (a + (m + 1) - 1) /\ (a + m) - a = m
      BY <1>1
    <3>3. \A k \in a .. (a + m - 1) : k \in a .. (a + (m + 1) - 1)
      BY <1>1
    <3>4. pattern[a + m] \in {"?", value[j + m]}
      BY <2>6, <3>2
    <3>5. Rest(pattern, value, a + m, j + m)
      BY <2>2, <2>4, <2>6, <3>1, <3>4
    <3>6. \A k \in a .. (a + m - 1) : pattern[k] \in {"?", value[j + (k - a)]}
      BY <2>6, <3>3
    <3> QED
      BY <2>1, <3>1, <3>5, <3>6
  <2> QED
    BY <2>2, <2>5, <2>6
<1>4. S \in SUBSET (0 .. n)
  OBVIOUS
<1>5. S = 0 .. n
  <2> HIDE DEF S, n
  <2> QED
    BY <1>1, <1>2, <1>3, <1>4, UpTo
<1>6. n \in S
  <2> HIDE DEF S, n
  <2>1. n \in 0 .. n
    BY <1>1
  <2> QED
    BY <1>5, <2>1
<1>7. Over(n)
  BY <1>6
<1>8. a + n - 1 = b - 1
  BY <1>1
<1> QED
  BY <1>1, <1>7, <1>8

\* Nothing but stars stands for the end of a value.
LEMMA RestStars ==
  ASSUME NEW pattern, NEW value, Globbed(pattern, value), NEW p \in 1 .. (Len(pattern) + 1)
  PROVE  Rest(pattern, value, p, Len(value) + 1) <=> \A k \in p .. Len(pattern) : pattern[k] = "*"
<1> DEFINE P == Len(pattern)
           V == Len(value)
<1>1. P \in Nat /\ V \in Nat /\ V + 1 \in 1 .. (V + 1)
  BY DEF Globbed, Name
<1>2. ASSUME \A k \in p .. P : pattern[k] = "*" PROVE Rest(pattern, value, p, V + 1)
  <2> DEFINE b == [k \in p .. (P + 1) |-> V + 1]
  <2>1. b \in [p .. (P + 1) -> 1 .. (V + 1)] /\ b[p] = V + 1 /\ b[P + 1] = V + 1
    BY <1>1
  <2>2. \A k \in p .. P : b[k] = V + 1 /\ b[k + 1] = V + 1
    BY <1>1
  <2>3. \A k \in p .. P : StandsFor(pattern[k], value, b[k], b[k + 1])
    BY <1>1, <1>2, <2>2 DEF StandsFor
  <2> HIDE DEF b
  <2> QED
    BY <2>1, <2>3 DEF Rest
<1>3. ASSUME Rest(pattern, value, p, V + 1), NEW q \in p .. P, pattern[q] # "*" PROVE FALSE
  <2> DEFINE T == {k \in Nat : k \in p .. P /\ pattern[k] # "*"}
  <2>1. T \in SUBSET Nat /\ T # {}
    BY <1>1, <1>3
  <2>2. PICK t \in T : \A y \in T : t <= y
    <3> HIDE DEF T
    <3> QED
      BY <2>1, Least
  <2>3. t \in p .. P /\ pattern[t] # "*"
    BY <2>2
  <2> DEFINE U == {m \in 0 .. (t - p) : Rest(pattern, value, p + m, V + 1)}
  <2>4. 0 \in U /\ t - p \in Nat
    <3>1. p + 0 = p /\ t - p \in Nat /\ 0 \in 0 .. (t - p)
      BY <2>3
    <3> QED
      BY <1>3, <3>1
  <2>5. ASSUME NEW m \in 0 .. (t - p), m \in U, m < t - p PROVE m + 1 \in U
    <3>1. p + m \in p .. P /\ p + m < t /\ p + m \in Nat /\ p + m \in 1 .. P /\ p + m + 1 = p + (m + 1)
          /\ m + 1 \in 0 .. (t - p)
      BY <1>1, <2>3, <2>4, <2>5
    <3>2. pattern[p + m] = "*"
      <4>1. p + m \notin T
        BY <2>2, <3>1
      <4> QED
        BY <3>1, <4>1
    <3>3. PICK l \in (V + 1) .. (V + 1) : Rest(pattern, value, p + m + 1, l)
      BY <1>1, <2>5, <3>1, <3>2, RestStar
    <3>4. l = V + 1
      BY <1>1
    <3> QED
      BY <3>1, <3>3, <3>4
  <2>6. U = 0 .. (t - p)
    <3>1. U \in SUBSET (0 .. (t - p))
      OBVIOUS
    <3> DEFINE n == t - p
    <3> HIDE DEF U, n
    <3>2. n \in Nat /\ U \in SUBSET (0 .. n) /\ 0 \in U /\ \A k \in 0 .. n : k \in U /\ k < n => k + 1 \in U
      BY <2>4, <2>5, <3>1 DEF n
    <3>3. U = 0 .. n
      BY <3>2, UpTo
    <3> QED
      BY <3>3 DEF n
  <2>7. t - p \in U /\ p + (t - p) = t
    <3> HIDE DEF U
    <3>1. t - p \in 0 .. (t - p) /\ p + (t - p) = t
      BY <2>3
    <3> QED
      BY <2>6, <3>1
  <2>8. Rest(pattern, value, t, V + 1)
    BY <2>7
  <2>9. t \in 1 .. P
    BY <2>3
  <2>10. V + 1 <= V
    BY <1>1, <2>3, <2>8, <2>9, RestChar
  <2> QED
    BY <1>1, <2>10
<1> QED
  BY <1>2, <1>3

-----------------------------------------------------------------------------
\* The states of the loop of globMatches.
GlobStates(pattern, value) ==
  [p : 1 .. (Len(pattern) + 1), v : 1 .. (Len(value) + 1), star : 0 .. Len(pattern),
   starValue : 1 .. (Len(value) + 1), differs : BOOLEAN]

Loops == [p : Int, v : Int, star : Int, starValue : Int, differs : BOOLEAN]

\* What is behind the last star stands for what it has passed over, and the
\* pattern stands for the value only if it does with what this star may take.
Matching(pattern, value, m) ==
  /\ m.star < m.p
  /\ m.v = m.starValue + (m.p - (m.star + 1))
  /\ \A k \in (m.star + 1) .. (m.p - 1) :
       pattern[k] # "*" /\ pattern[k] \in {"?", value[m.starValue + (k - (m.star + 1))]}
  /\ m.star = 0 => m.starValue = 1
  /\ m.star # 0 =>
       /\ pattern[m.star] = "*"
       /\ Rest(pattern, value, 1, 1) <=>
            \E l \in m.starValue .. (Len(value) + 1) : Rest(pattern, value, m.star + 1, l)

Globbing(pattern, value, m) ==
  /\ m \in GlobStates(pattern, value)
  /\ IF m.differs THEN ~Rest(pattern, value, 1, 1) ELSE Matching(pattern, value, m)

\* The rest of the pattern can only stand for the rest of the value, with the
\* last star where it is; or for less of it, when the star takes more.
LEMMA Behind ==
  ASSUME NEW pattern, NEW value, Globbed(pattern, value),
         NEW m \in GlobStates(pattern, value), Matching(pattern, value, m)
  PROVE  /\ Rest(pattern, value, m.star + 1, m.starValue) <=> Rest(pattern, value, m.p, m.v)
         /\ \A l \in m.starValue .. (Len(value) + 1) :
              Rest(pattern, value, m.star + 1, l) =>
                \E j \in m.v .. (Len(value) + 1) : Rest(pattern, value, m.p, j)
         /\ m.star = 0 => (Rest(pattern, value, 1, 1) <=> Rest(pattern, value, m.p, m.v))
<1> DEFINE P == Len(pattern)
           V == Len(value)
           a == m.star + 1
           b == m.p
<1>1. P \in Nat /\ V \in Nat
  BY DEF Globbed, Name
<1>2. /\ m.star \in 0 .. P /\ m.p \in 1 .. (P + 1) /\ m.v \in 1 .. (V + 1) /\ m.starValue \in 1 .. (V + 1)
      /\ m.star < m.p /\ m.v = m.starValue + (m.p - (m.star + 1))
  BY DEF GlobStates, Matching
<1>3. a \in 1 .. (P + 1) /\ b \in a .. (P + 1)
  BY <1>1, <1>2, SMTT(60)
<1>4. \A k \in a .. (b - 1) : pattern[k] # "*" /\ pattern[k] \in {"?", value[m.starValue + (k - a)]}
  BY DEF Matching
<1>5. ASSUME NEW l \in 1 .. (V + 1)
      PROVE  /\ Rest(pattern, value, a, l) =>
                  l + (b - a) <= V + 1 /\ Rest(pattern, value, b, l + (b - a))
             /\ /\ l + (b - a) <= V + 1
                /\ \A k \in a .. (b - 1) : pattern[k] \in {"?", value[l + (k - a)]}
                /\ Rest(pattern, value, b, l + (b - a))
                => Rest(pattern, value, a, l)
  <2> HIDE DEF a, b
  <2> QED
    BY <1>3, <1>4, RestRun
<1>6. Rest(pattern, value, a, m.starValue) <=> Rest(pattern, value, b, m.v)
  <2>1. m.starValue + (b - a) = m.v /\ m.v <= V + 1
    BY <1>1, <1>2, SMTT(60)
  <2> HIDE DEF a, b
  <2> QED
    BY <1>2, <1>4, <1>5, <2>1
<1>7. ASSUME NEW l \in m.starValue .. (V + 1), Rest(pattern, value, a, l)
      PROVE  \E j \in m.v .. (V + 1) : Rest(pattern, value, b, j)
  <2>1. l \in 1 .. (V + 1)
    BY <1>1, <1>2
  <2>2. l + (b - a) <= V + 1 /\ Rest(pattern, value, b, l + (b - a))
    <3> HIDE DEF a, b
    <3> QED
      BY <1>5, <1>7, <2>1
  <2>3. l + (b - a) \in m.v .. (V + 1)
    BY <1>1, <1>2, <1>7, <2>2, SMTT(60)
  <2> QED
    BY <2>2, <2>3
<1>8. m.star = 0 => a = 1 /\ m.starValue = 1
  BY DEF Matching
<1> QED
  BY <1>6, <1>7, <1>8

\* The loop begins in such a state.
LEMMA GlobStart ==
  ASSUME NEW pattern, NEW value, Globbed(pattern, value)
  PROVE  Globbing(pattern, value, GlobAt(1, 1, 0, 1))
<1>1. Len(pattern) \in Nat /\ Len(value) \in Nat
  BY DEF Globbed, Name
<1>2. GlobAt(1, 1, 0, 1) \in GlobStates(pattern, value)
  BY <1>1 DEF GlobAt, GlobStates
<1>3. Matching(pattern, value, GlobAt(1, 1, 0, 1))
  BY DEF GlobAt, Matching
<1> QED
  BY <1>2, <1>3 DEF Globbing, GlobAt

\* What a pass does that reads c in the pattern.
Took(value, m, c, n) ==
  /\ n \in Loops
  /\ c \in {"?", value[m.v]} =>
       /\ n.p = m.p + 1 /\ n.v = m.v + 1 /\ n.star = m.star /\ n.starValue = m.starValue
       /\ n.differs = FALSE
  /\ c \notin {"?", value[m.v]} /\ c = "*" =>
       n.p = m.p + 1 /\ n.v = m.v /\ n.star = m.p /\ n.starValue = m.v /\ n.differs = FALSE
  /\ c \notin {"?", value[m.v]} /\ c # "*" /\ m.star # 0 =>
       /\ n.p = m.star + 1 /\ n.v = m.starValue + 1 /\ n.star = m.star
       /\ n.starValue = m.starValue + 1 /\ n.differs = FALSE
  /\ c \notin {"?", value[m.v]} /\ c # "*" /\ m.star = 0 =>
       n.p = m.p /\ n.v = m.v /\ n.star = m.star /\ n.starValue = m.starValue /\ n.differs = TRUE

\* A pass does that.
LEMMA Passed ==
  ASSUME NEW pattern, NEW value, NEW m \in Loops, m.differs = FALSE, m.v <= Len(value), Len(value) \in Nat
  PROVE  Took(value, m, CharAt(pattern, m.p), GlobPass(m, pattern, value))
<1> DEFINE c == CharAt(pattern, m.p)
           n == GlobPass(m, pattern, value)
<1>0. ~(m.v > Len(value))
  BY DEF Loops
<1>1. m.p \in Int /\ m.v \in Int /\ m.star \in Int /\ m.starValue \in Int
  BY DEF Loops
<1> HIDE DEF c, n
<1>2. ASSUME c \in {"?", value[m.v]} PROVE Took(value, m, c, n)
  <2>1. n = GlobAt(m.p + 1, m.v + 1, m.star, m.starValue)
    BY <1>0, <1>2 DEF GlobPass, c, n
  <2>2. /\ n.p = m.p + 1 /\ n.v = m.v + 1 /\ n.star = m.star /\ n.starValue = m.starValue
        /\ n.differs = FALSE
    BY <2>1 DEF GlobAt
  <2>3. m.p + 1 \in Int /\ m.v + 1 \in Int
    BY <1>1
  <2>4. n \in Loops
    BY <1>1, <2>1, <2>3 DEF Loops, GlobAt
  <2> QED
    BY <1>2, <2>2, <2>4 DEF Took
<1>3. ASSUME c \notin {"?", value[m.v]} /\ c = "*" PROVE Took(value, m, c, n)
  <2>1. n = GlobAt(m.p + 1, m.v, m.p, m.v)
    BY <1>0, <1>3 DEF GlobPass, c, n
  <2>2. n.p = m.p + 1 /\ n.v = m.v /\ n.star = m.p /\ n.starValue = m.v /\ n.differs = FALSE
    BY <2>1 DEF GlobAt
  <2>3. m.p + 1 \in Int
    BY <1>1
  <2>4. n \in Loops
    BY <1>1, <2>1, <2>3 DEF Loops, GlobAt
  <2> QED
    BY <1>3, <2>2, <2>4 DEF Took
<1>4. ASSUME c \notin {"?", value[m.v]} /\ c # "*" /\ m.star # 0 PROVE Took(value, m, c, n)
  <2>1. n = GlobAt(m.star + 1, m.starValue + 1, m.star, m.starValue + 1)
    BY <1>0, <1>4 DEF GlobPass, c, n
  <2>2. /\ n.p = m.star + 1 /\ n.v = m.starValue + 1 /\ n.star = m.star
        /\ n.starValue = m.starValue + 1 /\ n.differs = FALSE
    BY <2>1 DEF GlobAt
  <2>3. m.star + 1 \in Int /\ m.starValue + 1 \in Int
    BY <1>1
  <2>4. n \in Loops
    BY <1>1, <2>1, <2>3 DEF Loops, GlobAt
  <2> QED
    BY <1>4, <2>2, <2>4 DEF Took
<1>5. ASSUME c \notin {"?", value[m.v]} /\ c # "*" /\ m.star = 0 PROVE Took(value, m, c, n)
  <2>1. n = [m EXCEPT !.differs = TRUE]
    BY <1>0, <1>5 DEF GlobPass, c, n
  <2>2. n \in Loops
    BY <2>1 DEF Loops
  <2>3. n.p = m.p /\ n.v = m.v /\ n.star = m.star /\ n.starValue = m.starValue /\ n.differs = TRUE
    BY <2>1 DEF Loops
  <2> QED
    BY <1>5, <2>2, <2>3 DEF Took
<1>6. Took(value, m, c, n)
  BY <1>2, <1>3, <1>4, <1>5
<1> QED
  BY <1>6 DEF c, n

\* A pass keeps it, and is one of finitely many.
LEMMA GlobKept ==
  ASSUME NEW pattern, NEW value, Globbed(pattern, value), NEW m \in Loops, Globbing(pattern, value, m),
         m.differs = FALSE, m.v <= Len(value), NEW n, n = GlobPass(m, pattern, value)
  PROVE  /\ Globbing(pattern, value, n)
         /\ \/ n.differs
            \/ n.starValue = m.starValue /\ n.p = m.p + 1
            \/ n.starValue > m.starValue /\ n.p \in Nat
<1> DEFINE P == Len(pattern)
           V == Len(value)
           c == CharAt(pattern, m.p)
<1>1. P \in Nat /\ V \in Nat /\ (\A i \in 1 .. P : pattern[i] \in Characters)
      /\ \A i \in 1 .. V : value[i] \in Characters \ {"*", "end"}
  BY DEF Globbed, Name
<1>2. /\ m \in GlobStates(pattern, value) /\ Matching(pattern, value, m)
      /\ m.star \in 0 .. P /\ m.p \in 1 .. (P + 1) /\ m.v \in 1 .. V /\ m.starValue \in 1 .. (V + 1)
      /\ m.star < m.p /\ m.v = m.starValue + (m.p - (m.star + 1)) /\ m.differs = FALSE
  BY <1>1 DEF Globbing, GlobStates, Matching
<1>a. Took(value, m, c, n)
  BY <1>1, Passed
<1> HIDE DEF c
<1>3. value[m.v] # "*" /\ value[m.v] # "end"
  BY <1>1, <1>2
<1>4. /\ m.p <= P => c = pattern[m.p]
      /\ m.p > P => c = "end"
  <2>1. DOMAIN pattern = 1 .. P
    BY DEF Globbed
  <2> QED
    BY <1>1, <1>2, <2>1 DEF CharAt, c
<1>5. c \in {"?", value[m.v]} \/ c = "*" => m.p \in 1 .. P
  BY <1>1, <1>2, <1>3, <1>4
<1>6. /\ Rest(pattern, value, m.star + 1, m.starValue) <=> Rest(pattern, value, m.p, m.v)
      /\ \A l \in m.starValue .. (V + 1) :
           Rest(pattern, value, m.star + 1, l) =>
             \E j \in m.v .. (V + 1) : Rest(pattern, value, m.p, j)
      /\ m.star = 0 => (Rest(pattern, value, 1, 1) <=> Rest(pattern, value, m.p, m.v))
  BY <1>2, Behind
<1>7. CASE c \in {"?", value[m.v]}
  <2>2. n.p = m.p + 1 /\ n.v = m.v + 1 /\ n.star = m.star /\ n.starValue = m.starValue /\ n.differs = FALSE
    BY <1>7, <1>a DEF Took
  <2>3. n \in GlobStates(pattern, value)
    <3>0. m.p \in 1 .. P
      BY <1>5, <1>7
    <3>1. m.p + 1 \in 1 .. (P + 1) /\ m.v + 1 \in 1 .. (V + 1)
      BY <1>1, <1>2, <3>0, SMTT(60)
    <3>2. /\ n.p \in 1 .. (P + 1) /\ n.v \in 1 .. (V + 1) /\ n.star \in 0 .. P
          /\ n.starValue \in 1 .. (V + 1) /\ n.differs \in BOOLEAN
      BY <1>2, <2>2, <3>1
    <3> QED
      BY <1>a, <3>2 DEF GlobStates, Loops, Took
  <2>4. n.star < n.p /\ n.v = n.starValue + (n.p - (n.star + 1))
    <3>1. m.v + 1 = m.starValue + ((m.p + 1) - (m.star + 1)) /\ m.star < m.p + 1
      BY <1>2, SMTT(60) DEF Loops
    <3> QED
      BY <2>2, <3>1
  <2>5. ASSUME NEW k \in (n.star + 1) .. (n.p - 1)
        PROVE  pattern[k] # "*" /\ pattern[k] \in {"?", value[n.starValue + (k - (n.star + 1))]}
    <3>1. CASE k = m.p
      <4>1. n.starValue + (k - (n.star + 1)) = m.v
        BY <1>2, <2>2, <3>1
      <4> QED
        BY <1>3, <1>4, <1>5, <1>7, <3>1, <4>1
    <3>2. CASE k # m.p
      <4>1. k \in (m.star + 1) .. (m.p - 1)
        BY <1>2, <2>2, <3>2
      <4> QED
        BY <1>2, <2>2, <4>1 DEF Matching
    <3> QED
      BY <3>1, <3>2
  <2>6. Matching(pattern, value, n)
    BY <1>2, <2>2, <2>4, <2>5 DEF Matching
  <2> QED
    BY <2>2, <2>3, <2>6 DEF Globbing
<1>8. CASE c \notin {"?", value[m.v]} /\ c = "*"
  <2>2. n.p = m.p + 1 /\ n.v = m.v /\ n.star = m.p /\ n.starValue = m.v /\ n.differs = FALSE
    BY <1>8, <1>a DEF Took
  <2>3. m.p \in 1 .. P /\ pattern[m.p] = "*"
    BY <1>4, <1>5, <1>8, <1>1
  <2>4. n \in GlobStates(pattern, value)
    <3>1. m.p + 1 \in 1 .. (P + 1) /\ m.p \in 0 .. P /\ m.v \in 1 .. (V + 1)
      BY <1>1, <1>2, <2>3, SMTT(60)
    <3>2. /\ n.p \in 1 .. (P + 1) /\ n.v \in 1 .. (V + 1) /\ n.star \in 0 .. P
          /\ n.starValue \in 1 .. (V + 1) /\ n.differs \in BOOLEAN
      BY <2>2, <3>1
    <3> QED
      BY <1>a, <3>2 DEF GlobStates, Loops, Took
  <2>5. ASSUME NEW j \in 1 .. (V + 1)
        PROVE  Rest(pattern, value, m.p, j) <=> \E l \in j .. (V + 1) : Rest(pattern, value, m.p + 1, l)
    BY <2>3, RestStar
  <2>6. ASSUME Rest(pattern, value, 1, 1)
        PROVE  \E l \in m.v .. (V + 1) : Rest(pattern, value, m.p + 1, l)
    <3>1. CASE m.star = 0
      <4>1. Rest(pattern, value, m.p, m.v)
        BY <1>6, <2>6, <3>1
      <4>2. m.v \in 1 .. (V + 1)
        BY <1>1, <1>2
      <4> QED
        BY <2>5, <4>1, <4>2
    <3>2. CASE m.star # 0
      <4>1. PICK l \in m.starValue .. (V + 1) : Rest(pattern, value, m.star + 1, l)
        BY <1>2, <2>6, <3>2 DEF Matching
      <4>2. PICK j \in m.v .. (V + 1) : Rest(pattern, value, m.p, j)
        BY <1>6, <4>1
      <4>3. j \in 1 .. (V + 1)
        BY <1>1, <1>2
      <4>4. PICK i \in j .. (V + 1) : Rest(pattern, value, m.p + 1, i)
        BY <2>5, <4>2, <4>3
      <4>5. i \in m.v .. (V + 1)
        BY <1>1, <1>2
      <4> QED
        BY <4>4, <4>5
    <3> QED
      BY <3>1, <3>2
  <2>7. ASSUME NEW l \in m.v .. (V + 1), Rest(pattern, value, m.p + 1, l)
        PROVE  Rest(pattern, value, 1, 1)
    <3>1. m.v \in 1 .. (V + 1) /\ m.starValue \in m.starValue .. (V + 1)
      BY <1>1, <1>2
    <3>2. Rest(pattern, value, m.p, m.v)
      BY <2>5, <2>7, <3>1
    <3> QED
      BY <1>2, <1>6, <3>1, <3>2 DEF Matching
  <2>8. \A k \in (n.star + 1) .. (n.p - 1) : FALSE
    BY <1>2, <2>2
  <2>9. n.star # 0 /\ n.star < n.p /\ n.v = n.starValue + (n.p - (n.star + 1))
    BY <1>2, <2>2
  <2>10. Rest(pattern, value, 1, 1) <=>
           \E l \in n.starValue .. (V + 1) : Rest(pattern, value, n.star + 1, l)
    BY <2>2, <2>6, <2>7
  <2>11. Matching(pattern, value, n)
    BY <2>2, <2>3, <2>8, <2>9, <2>10 DEF Matching
  <2>12. n.starValue > m.starValue \/ n.starValue = m.starValue
    BY <1>2, <2>2, SMTT(60)
  <2> QED
    BY <1>2, <2>2, <2>4, <2>11, <2>12 DEF Globbing
<1>9. CASE c \notin {"?", value[m.v]} /\ c # "*"
  <2>1. ~Rest(pattern, value, m.p, m.v)
    <3>1. CASE m.p \in 1 .. P
      <4>1. m.v \in 1 .. (V + 1) /\ pattern[m.p] # "*" /\ pattern[m.p] \notin {"?", value[m.v]}
        BY <1>1, <1>2, <1>4, <1>9, <3>1
      <4> QED
        BY <3>1, <4>1, RestChar
    <3>2. CASE m.p = P + 1
      <4>1. m.v \in 1 .. (V + 1) /\ m.v # V + 1
        BY <1>1, <1>2
      <4> QED
        BY <3>2, <4>1, RestLast
    <3> QED
      BY <1>1, <1>2, <3>1, <3>2
  <2>2. CASE m.star # 0
    <3>2. /\ n.p = m.star + 1 /\ n.v = m.starValue + 1 /\ n.star = m.star
          /\ n.starValue = m.starValue + 1 /\ n.differs = FALSE
      BY <1>9, <1>a, <2>2 DEF Took
    <3>3. m.starValue <= V
      BY <1>1, <1>2
    <3>4. n \in GlobStates(pattern, value)
      BY <1>1, <1>2, <1>a, <3>2, <3>3, SMTT(60) DEF GlobStates, Loops, Took
    <3>5. \A k \in (n.star + 1) .. (n.p - 1) : FALSE
      BY <1>2, <3>2
    <3>6. n.star < n.p /\ n.v = n.starValue + (n.p - (n.star + 1))
      BY <1>2, <3>2
    <3>7. ~Rest(pattern, value, m.star + 1, m.starValue)
      BY <1>6, <2>1
    <3>8. \A l \in m.starValue .. (V + 1) : l = m.starValue \/ l \in (m.starValue + 1) .. (V + 1)
      BY <1>1, <1>2
    <3>9. \A l \in (m.starValue + 1) .. (V + 1) : l \in m.starValue .. (V + 1)
      BY <1>1, <1>2
    <3>10. /\ pattern[m.star] = "*"
           /\ Rest(pattern, value, 1, 1) <=>
                \E l \in m.starValue .. (V + 1) : Rest(pattern, value, m.star + 1, l)
      BY <1>2, <2>2 DEF Matching
    <3>11. Rest(pattern, value, 1, 1) <=>
             \E l \in n.starValue .. (V + 1) : Rest(pattern, value, n.star + 1, l)
      BY <3>2, <3>7, <3>8, <3>9, <3>10
    <3>12. Matching(pattern, value, n)
      BY <2>2, <3>2, <3>5, <3>6, <3>10, <3>11 DEF Matching
    <3> QED
      BY <1>2, <3>2, <3>4, <3>12, SMTT(60) DEF Globbing
  <2>3. CASE m.star = 0
    <3>1. n.p = m.p /\ n.v = m.v /\ n.star = m.star /\ n.starValue = m.starValue /\ n.differs = TRUE
      BY <1>9, <1>a, <2>3 DEF Took
    <3>2. n \in GlobStates(pattern, value) /\ n.differs
      BY <1>1, <1>2, <1>a, <3>1 DEF GlobStates, Loops, Took
    <3>3. ~Rest(pattern, value, 1, 1)
      BY <1>6, <2>1, <2>3
    <3> QED
      BY <3>2, <3>3 DEF Globbing
  <2> QED
    BY <2>2, <2>3
<1> QED
  BY <1>7, <1>8, <1>9

\* A star that takes more counts for more than all that is behind it.
LEMMA Further ==
  ASSUME NEW s \in Nat, NEW t \in Nat, t > s, NEW w \in Nat, NEW p \in Nat, p <= w, NEW q \in Nat
  PROVE  t * w + q >= s * w + p
<1>1. PICK d \in Nat : t = s + 1 + d
  <2>1. t - (s + 1) \in Nat /\ t = s + 1 + (t - (s + 1))
    OBVIOUS
  <2> QED
    BY <2>1
<1>2. t * w = s * w + w + d * w
  BY <1>1
<1>3. d * w >= 0 /\ d * w \in Nat /\ s * w \in Nat
  BY Z3
<1> HIDE DEF Nat
<1> QED
  BY <1>2, <1>3

\* How far the loop has come, which every pass increases.
Travelled(pattern, m) == m.starValue * (Len(pattern) + 2) + m.p

\* A pass that does not end the loop comes further.
LEMMA GlobForward ==
  ASSUME NEW pattern, NEW value, Globbed(pattern, value), NEW m \in Loops, Globbing(pattern, value, m),
         m.differs = FALSE, m.v <= Len(value), NEW n, n = GlobPass(m, pattern, value), n.differs = FALSE
  PROVE  Travelled(pattern, n) >= Travelled(pattern, m) + 1
<1> DEFINE W == Len(pattern) + 2
<1>1. /\ Globbing(pattern, value, n)
      /\ \/ n.starValue = m.starValue /\ n.p = m.p + 1
         \/ n.starValue > m.starValue /\ n.p \in Nat
  BY GlobKept
<1>2. /\ m.p \in 1 .. (Len(pattern) + 1) /\ m.starValue \in Nat
      /\ n.p \in 1 .. (Len(pattern) + 1) /\ n.starValue \in Nat /\ Len(pattern) \in Nat
  BY <1>1 DEF Globbing, GlobStates, Globbed, Name
<1>3. W \in Nat /\ m.p \in Nat /\ m.p + 1 \in Nat /\ m.p + 1 <= W /\ n.p \in Nat
  BY <1>2
<1> HIDE DEF W
<1>6. m.starValue * W \in Nat /\ n.starValue * W \in Nat
  <2>1. \A x, y \in Nat : x * y \in Nat
    BY Z3
  <2> QED
    BY <1>2, <1>3, <2>1
<1>4. CASE n.starValue = m.starValue /\ n.p = m.p + 1
  BY <1>2, <1>3, <1>4, <1>6 DEF Travelled, W
<1>5. CASE n.starValue > m.starValue
  <2>1. n.starValue * W + n.p >= m.starValue * W + (m.p + 1)
    BY <1>2, <1>3, <1>5, Further
  <2>2. n.starValue * W + n.p >= (m.starValue * W + m.p) + 1
    BY <1>3, <1>6, <2>1
  <2> QED
    BY <2>2 DEF Travelled, W
<1> QED
  BY <1>1, <1>4, <1>5

\* The loop is over when it has made as many passes as GlobEnd takes.
LEMMA GlobEnds ==
  ASSUME NEW pattern, NEW value, Globbed(pattern, value)
  PROVE  LET end == GlobEnd(pattern, value)
         IN  Globbing(pattern, value, end) /\ (end.differs \/ end.v = Len(value) + 1)
<1> DEFINE P == Len(pattern)
           V == Len(value)
           L == (V + 1) * (P + 2)
           S == {m \in Loops : Globbing(pattern, value, m)}
           step == [q \in (1 .. L) \X S |-> GlobPass(q[2], pattern, value)]
           first == GlobAt(1, 1, 0, 1)
           After(f) == f = [n \in 0 .. L |-> IF n = 0 THEN first ELSE GlobPass(f[n - 1], pattern, value)]
           A == CHOOSE f : After(f)
           Over(m) == m.differs \/ m.v = V + 1
<1>1. P \in Nat /\ V \in Nat
  BY DEF Globbed, Name
<1>2. L \in Nat
  BY <1>1, Z3
<1>3. \A m : Globbing(pattern, value, m) => m \in Loops
  <2> TAKE m
  <2> HAVE Globbing(pattern, value, m)
  <2>1. m \in GlobStates(pattern, value)
    BY DEF Globbing
  <2> QED
    BY <1>1, <2>1 DEF GlobStates, Loops
<1>4. ASSUME NEW m \in S PROVE GlobPass(m, pattern, value) \in S
  <2>1. m \in Loops /\ Globbing(pattern, value, m) /\ m.v \in 1 .. (V + 1) /\ m.differs \in BOOLEAN
    BY DEF Globbing, GlobStates
  <2>2. CASE m.differs = FALSE /\ m.v <= V
    <3>1. Globbing(pattern, value, GlobPass(m, pattern, value))
      BY <2>1, <2>2, GlobKept
    <3> QED
      BY <1>3, <3>1
  <2>3. CASE ~(m.differs = FALSE /\ m.v <= V)
    <3>1. m.differs \/ m.v > V
      BY <1>1, <2>1, <2>3
    <3>2. GlobPass(m, pattern, value) = m
      BY <3>1 DEF GlobPass
    <3> QED
      BY <3>2
  <2> QED
    BY <2>2, <2>3
<1>5. first \in S
  BY <1>3, GlobStart
<1> HIDE DEF S, first, L
<1>6. StepFunction(step, L, S)
  BY <1>4 DEF StepFunction
<1>7. PICK f : Values(step, L, S, first, f)
  <2> HIDE DEF step
  <2> QED
    BY <1>2, <1>5, <1>6, Recursion
<1>8. f \in [0 .. L -> S] /\ f[0] = first
  BY <1>7 DEF Values
<1>9. \A n \in 1 .. L : f[n] = GlobPass(f[n - 1], pattern, value)
  <2> TAKE n \in 1 .. L
  <2>1. n - 1 \in 0 .. L
    BY <1>2
  <2>2. f[n - 1] \in S /\ f[n] = step[<<n, f[n - 1]>>]
    BY <1>7, <2>1 DEF Values
  <2> QED
    BY <2>2
<1>10. After(f)
  <2> DEFINE h == [n \in 0 .. L |-> IF n = 0 THEN first ELSE GlobPass(f[n - 1], pattern, value)]
  <2>1. \A n \in 0 .. L : f[n] = h[n]
    BY <1>2, <1>8, <1>9
  <2>2. f = [n \in 0 .. L |-> f[n]]
    BY <1>8
  <2>3. f = h
    BY <2>1, <2>2
  <2> QED
    BY <2>3
<1>11. After(A)
  BY <1>10
<1>12. GlobEnd(pattern, value) = A[L]
  BY DEF GlobEnd, L, first
<1> HIDE DEF A
<1>13. A[0] = first /\ \A n \in 1 .. L : A[n] = GlobPass(A[n - 1], pattern, value)
  BY <1>2, <1>11
<1> DEFINE K == {k \in 0 .. L : A[k] \in S /\ (Over(A[k]) \/ Travelled(pattern, A[k]) >= P + 3 + k)}
<1>14. 0 \in K
  <2>1. first.starValue = 1 /\ first.p = 1
    BY DEF first, GlobAt
  <2>2. Travelled(pattern, first) = P + 3
    BY <1>1, <2>1 DEF Travelled
  <2>3. 0 \in 0 .. L
    BY <1>2
  <2>4. Travelled(pattern, first) >= P + 3 + 0
    BY <1>1, <2>2
  <2> QED
    BY <1>5, <1>13, <2>3, <2>4
<1>15. ASSUME NEW k \in 0 .. L, k \in K, k < L PROVE k + 1 \in K
  <2> DEFINE m == A[k]
             n == GlobPass(m, pattern, value)
  <2>1. k + 1 \in 0 .. L /\ k + 1 \in 1 .. L /\ (k + 1) - 1 = k
    BY <1>2, <1>15
  <2>2. A[k + 1] = n /\ m \in S /\ n \in S
    BY <1>4, <1>13, <1>15, <2>1
  <2>3. Over(m) \/ Travelled(pattern, m) >= P + 3 + k
    BY <1>15
  <2> HIDE DEF m, n
  <2>4. m \in Loops /\ Globbing(pattern, value, m) /\ m.v \in 1 .. (V + 1) /\ m.differs \in BOOLEAN
    BY <2>2 DEF S, Globbing, GlobStates
  <2>5. n \in Loops /\ n.differs \in BOOLEAN
    BY <2>2 DEF S, Globbing, GlobStates
  <2>6. CASE Over(m)
    <3>1. m.differs \/ m.v > V
      BY <1>1, <2>4, <2>6
    <3>2. n = m
      BY <3>1 DEF GlobPass, n
    <3> QED
      BY <2>1, <2>2, <2>6, <3>2
  <2>7. CASE ~Over(m) /\ n.differs = FALSE
    <3>1. m.differs = FALSE /\ m.v <= V
      BY <1>1, <2>4, <2>7
    <3>2. Travelled(pattern, n) >= Travelled(pattern, m) + 1
      BY <2>4, <2>7, <3>1, GlobForward DEF n
    <3>3. Travelled(pattern, m) \in Int /\ Travelled(pattern, n) \in Int
      BY <1>1, <2>4, <2>5, SMTT(60) DEF Travelled, Loops
    <3>4. Travelled(pattern, n) >= P + 3 + (k + 1)
      BY <1>1, <2>3, <2>7, <3>2, <3>3
    <3> QED
      BY <2>1, <2>2, <3>4
  <2>8. CASE n.differs = TRUE
    BY <2>1, <2>2, <2>8
  <2> QED
    BY <2>5, <2>6, <2>7, <2>8
<1>16. K = 0 .. L
  <2>1. K \in SUBSET (0 .. L)
    OBVIOUS
  <2> HIDE DEF K
  <2> QED
    BY <1>2, <1>14, <1>15, <2>1, UpTo
<1>17. A[L] \in S /\ (Over(A[L]) \/ Travelled(pattern, A[L]) >= P + 3 + L)
  <2>1. L \in K
    BY <1>2, <1>16
  <2> QED
    BY <2>1
<1> DEFINE e == A[L]
<1>18. /\ Globbing(pattern, value, e) /\ e \in Loops
       /\ e.starValue \in 1 .. (V + 1) /\ e.p \in 1 .. (P + 1)
  BY <1>17 DEF S, Globbing, GlobStates
<1> HIDE DEF e
<1>19. ASSUME Travelled(pattern, e) >= P + 3 + L PROVE FALSE
  <2> DEFINE W == P + 2
             s == e.starValue
  <2>1. W \in Nat /\ s \in Nat /\ V + 1 \in Nat /\ s <= V + 1
    BY <1>1, <1>18
  <2>2. PICK d \in Nat : V + 1 = s + d
    <3>1. (V + 1) - s \in Nat /\ V + 1 = s + ((V + 1) - s)
      BY <2>1
    <3> QED
      BY <3>1
  <2>3. (V + 1) * W = s * W + d * W /\ d * W >= 0
    <3> HIDE DEF W, s
    <3>1. (s + d) * W = s * W + d * W
      BY <2>1, Z3
    <3>2. d * W >= 0
      BY <2>1, Z3
    <3> QED
      BY <2>2, <3>1, <3>2
  <2>4. L = (V + 1) * W /\ Travelled(pattern, e) = s * W + e.p
    BY DEF L, Travelled
  <2>5. s * W \in Int /\ d * W \in Int /\ (V + 1) * W \in Int
    <3> HIDE DEF W, s
    <3> QED
      BY <2>1
  <2> DEFINE x == s * W
             y == d * W
             z == (V + 1) * W
  <2>6. x + e.p >= P + 3 + z /\ z = x + y /\ y >= 0 /\ x \in Int /\ y \in Int
    BY <1>19, <2>3, <2>4, <2>5
  <2> HIDE DEF x, y, z
  <2> QED
    BY <1>1, <1>18, <2>6
<1> QED
  BY <1>12, <1>17, <1>18, <1>19 DEF e

\* globMatches decides whether the pattern denotes the value, for a value that
\* has no star in it: taking the last star further is all the backtracking that
\* it takes (known_hosts.ts:200-223).
THEOREM GlobsDenote ==
  ASSUME NEW pattern \in Seq(Characters), NEW value \in Name
  PROVE  globMatches(pattern, value) <=> Denotes(pattern, value)
<1> DEFINE P == Len(pattern)
           V == Len(value)
           e == GlobEnd(pattern, value)
<1>1. Globbed(pattern, value)
  BY DEF Globbed
<1>2. P \in Nat /\ V \in Nat /\ 1 \in 1 .. (P + 1) /\ 1 \in 1 .. (V + 1)
  BY DEF Name
<1>3. Denotes(pattern, value) <=> Rest(pattern, value, 1, 1)
  BY DEF Denotes, Rest
<1>4. Globbing(pattern, value, e) /\ (e.differs \/ e.v = V + 1)
  BY <1>1, GlobEnds
<1>5. globMatches(pattern, value) <=> ~e.differs /\ \A i \in e.p .. P : pattern[i] = "*"
  BY DEF globMatches
<1> HIDE DEF e
<1>6. e \in GlobStates(pattern, value) /\ e.p \in 1 .. (P + 1) /\ e.differs \in BOOLEAN
      /\ e.starValue \in 1 .. (V + 1)
  BY <1>4 DEF Globbing, GlobStates
<1>7. CASE e.differs
  BY <1>3, <1>4, <1>5, <1>7 DEF Globbing
<1>8. CASE ~e.differs
  <2>1. Matching(pattern, value, e) /\ e.v = V + 1
    BY <1>4, <1>8 DEF Globbing
  <2>2. Rest(pattern, value, e.p, V + 1) <=> \A i \in e.p .. P : pattern[i] = "*"
    BY <1>1, <1>6, RestStars
  <2>3. /\ Rest(pattern, value, e.star + 1, e.starValue) <=> Rest(pattern, value, e.p, e.v)
        /\ \A l \in e.starValue .. (V + 1) :
             Rest(pattern, value, e.star + 1, l) =>
               \E j \in e.v .. (V + 1) : Rest(pattern, value, e.p, j)
        /\ e.star = 0 => (Rest(pattern, value, 1, 1) <=> Rest(pattern, value, e.p, e.v))
    BY <1>1, <1>6, <2>1, Behind
  <2>4. \A j \in e.v .. (V + 1) : j = V + 1
    BY <1>2, <2>1
  <2>5. e.starValue \in e.starValue .. (V + 1)
    BY <1>2, <1>6
  <2>6. e.star # 0 =>
          (Rest(pattern, value, 1, 1) <=>
             \E l \in e.starValue .. (V + 1) : Rest(pattern, value, e.star + 1, l))
    BY <2>1 DEF Matching
  <2>7. Rest(pattern, value, 1, 1) <=> Rest(pattern, value, e.p, V + 1)
    BY <2>1, <2>3, <2>4, <2>5, <2>6
  <2> QED
    BY <1>3, <1>5, <1>8, <2>2, <2>7
<1> QED
  BY <1>7, <1>8


-----------------------------------------------------------------------------
(* Patterns and entries                                                    *)

\* Lower case keeps the stars of a pattern, and makes none.
LEMMA Lowered ==
  /\ \A text \in Seq(Characters) : LowerCase(text) \in Seq(Characters)
  /\ \A name \in Name : LowerCase(name) \in Name
<1>1. \A c : Lower(c) \in {c, "a", "b"}
  BY DEF Lower
<1>2. "a" \in Characters \ {"*", "end"} /\ "b" \in Characters \ {"*", "end"}
  BY HostsAssumption
<1>3. ASSUME NEW T, \A c \in T : Lower(c) \in T, NEW s \in Seq(T) PROVE LowerCase(s) \in Seq(T)
  <2>1. s \in [1 .. Len(s) -> T] /\ DOMAIN s = 1 .. Len(s) /\ Len(s) \in Nat
    OBVIOUS
  <2>2. LowerCase(s) = [i \in 1 .. Len(s) |-> Lower(s[i])]
    BY <2>1 DEF LowerCase
  <2>3. \A i \in 1 .. Len(s) : Lower(s[i]) \in T
    BY <1>3, <2>1
  <2>4. LowerCase(s) \in [1 .. Len(s) -> T]
    BY <2>2, <2>3
  <2> QED
    BY <2>1, <2>4
<1>4. \A c \in Characters : Lower(c) \in Characters
  BY <1>1, <1>2
<1>5. \A c \in Characters \ {"*", "end"} : Lower(c) \in Characters \ {"*", "end"}
  BY <1>1, <1>2
<1> QED
  BY <1>3, <1>4, <1>5 DEF Name

Results == {"differs", "matches", "throws", "excluded"}

\* What matchesHostPattern says of a pattern that is not empty is that it fits,
\* and it throws for a malformed hash only.
LEMMA PatternFits ==
  ASSUME NEW pattern \in Pattern, NEW host \in Name
  PROVE  LET r == matchesHostPattern(pattern, host)
         IN  /\ r \in {"differs", "matches", "throws"}
             /\ r = "throws" => pattern.hash = "malformed"
             /\ Fits(pattern, host) <=> r = "matches" /\ ~Empty(pattern)
<1> DEFINE r == matchesHostPattern(pattern, host)
           t == LowerCase(pattern.text)
           h == LowerCase(host)
<1>1. pattern.text \in Seq(Characters) /\ pattern.hash \in {"none", "good", "malformed"}
  BY DEF Pattern
<1>2. t \in Seq(Characters) /\ h \in Name
  BY <1>1, Lowered
<1>3. globMatches(t, h) <=> Denotes(t, h)
  <2> HIDE DEF t, h
  <2> QED
    BY <1>2, GlobsDenote
<1>4. CASE pattern.hash = "malformed"
  <2>1. r = "throws"
    BY <1>4 DEF matchesHostPattern
  <2> QED
    BY <1>4, <2>1 DEF Fits
<1>5. CASE pattern.hash = "good"
  <2>1. r = IF pattern.text = host THEN "matches" ELSE "differs"
    BY <1>5 DEF matchesHostPattern
  <2> QED
    BY <1>5, <2>1 DEF Fits, Empty
<1>6. CASE pattern.hash = "none"
  <2>1. r = IF globMatches(t, h) THEN "matches" ELSE "differs"
    BY <1>6 DEF matchesHostPattern
  <2>2. Fits(pattern, host) <=> pattern.text # <<>> /\ Denotes(t, h)
    BY <1>6 DEF Fits
  <2>3. Empty(pattern) <=> pattern.text = <<>>
    BY <1>6 DEF Empty
  <2> HIDE DEF r, t, h
  <2>4. r \in {"differs", "matches"} /\ (r = "matches" <=> globMatches(t, h))
    BY <2>1
  <2>5. Fits(pattern, host) <=> r = "matches" /\ ~Empty(pattern)
    BY <1>3, <2>2, <2>3, <2>4
  <2>6. r # "throws"
    BY <2>4
  <2> QED
    BY <2>4, <2>5, <2>6 DEF r
<1> QED
  BY <1>1, <1>4, <1>5, <1>6

\* What the first n patterns say of the host: none fits; some does, and no
\* negated one; a negated one does; or a hash is malformed.
Patterned(entry, host, n, r) ==
  LET Fitting(i) == Fits(entry.patterns[i], host)
  IN  /\ r \in Results
      /\ r = "throws" => IsBad(entry)
      /\ r = "differs" => \A i \in 1 .. n : ~Fitting(i)
      /\ r = "matches" =>
           /\ \E i \in 1 .. n : Fitting(i)
           /\ \A i \in 1 .. n : Fitting(i) => ~entry.patterns[i].negated
      /\ r = "excluded" => \E i \in 1 .. n : Fitting(i) /\ entry.patterns[i].negated

\* Another pattern is considered.
LEMMA PatternsConsidered ==
  ASSUME NEW entry, NEW host \in Name, entry.patterns \in Seq(Pattern),
         NEW n \in 1 .. Len(entry.patterns), NEW r, Patterned(entry, host, n - 1, r)
  PROVE  Patterned(entry, host, n, Considered(r, entry.patterns[n], host))
<1> DEFINE pattern == entry.patterns[n]
           m == matchesHostPattern(pattern, host)
           s == Considered(r, pattern, host)
           Fitting(i) == Fits(entry.patterns[i], host)
<1>1. pattern \in Pattern /\ n \in DOMAIN entry.patterns
  OBVIOUS
<1>2. /\ m \in {"differs", "matches", "throws"}
      /\ m = "throws" => pattern.hash = "malformed"
      /\ Fitting(n) <=> m = "matches" /\ ~Empty(pattern)
  <2> HIDE DEF pattern
  <2>1. /\ m \in {"differs", "matches", "throws"}
        /\ m = "throws" => pattern.hash = "malformed"
        /\ Fits(pattern, host) <=> m = "matches" /\ ~Empty(pattern)
    BY <1>1, PatternFits
  <2> QED
    BY <2>1 DEF pattern
<1>3. pattern.hash = "malformed" => IsBad(entry)
  BY <1>1 DEF IsBad
<1>4. pattern.negated \in BOOLEAN
  BY <1>1 DEF Pattern
<1>5. s = IF r \in {"throws", "excluded"} \/ Empty(pattern) \/ m = "differs" THEN r
          ELSE IF m = "throws" THEN "throws"
          ELSE IF pattern.negated THEN "excluded"
          ELSE "matches"
  BY DEF Considered
<1>6. n \in 1 .. n /\ (\A i \in 1 .. n : i = n \/ i \in 1 .. (n - 1)) /\ \A i \in 1 .. (n - 1) : i \in 1 .. n
  OBVIOUS
<1>7. /\ r \in Results
      /\ r = "throws" => IsBad(entry)
      /\ r = "differs" => \A i \in 1 .. (n - 1) : ~Fitting(i)
      /\ r = "matches" =>
           /\ \E i \in 1 .. (n - 1) : Fitting(i)
           /\ \A i \in 1 .. (n - 1) : Fitting(i) => ~entry.patterns[i].negated
      /\ r = "excluded" => \E i \in 1 .. (n - 1) : Fitting(i) /\ entry.patterns[i].negated
  BY DEF Patterned
<1>8. pattern = entry.patterns[n]
  OBVIOUS
<1> HIDE DEF s, m, pattern, Fitting
<1>9. CASE r \in {"throws", "excluded"}
  <2>1. s = r
    BY <1>5, <1>9
  <2>2. /\ s \in Results /\ s # "differs" /\ s # "matches"
        /\ s = "throws" => IsBad(entry)
        /\ s = "excluded" => \E i \in 1 .. n : Fitting(i) /\ entry.patterns[i].negated
    BY <1>6, <1>7, <1>9, <2>1
  <2> QED
    BY <2>2 DEF Patterned, Fitting, s, pattern
<1>10. CASE r \notin {"throws", "excluded"} /\ ~Fitting(n) /\ m # "throws"
  <2>1. s = r /\ r \in {"differs", "matches"}
    BY <1>2, <1>5, <1>7, <1>10 DEF Results
  <2>2. /\ s = "differs" => \A i \in 1 .. n : ~Fitting(i)
        /\ s = "matches" =>
             /\ \E i \in 1 .. n : Fitting(i)
             /\ \A i \in 1 .. n : Fitting(i) => ~entry.patterns[i].negated
    BY <1>6, <1>7, <1>10, <2>1
  <2>3. s \in Results /\ s # "throws" /\ s # "excluded"
    BY <2>1 DEF Results
  <2> QED
    BY <2>2, <2>3 DEF Patterned, Fitting, s, pattern
<1>11. CASE r \notin {"throws", "excluded"} /\ m = "throws"
  <2>1. s = r \/ s = "throws"
    BY <1>5, <1>11
  <2>2. CASE s = "throws"
    <3>1. IsBad(entry)
      BY <1>2, <1>3, <1>11
    <3> QED
      BY <2>2, <3>1 DEF Patterned, Results, s, pattern
  <2>3. CASE s = r
    <3>1. ~Fitting(n)
      BY <1>2, <1>11
    <3>2. s \in Results /\ s # "throws" /\ s # "excluded"
      BY <1>7, <1>11, <2>3
    <3>3. /\ s = "differs" => \A i \in 1 .. n : ~Fitting(i)
          /\ s = "matches" =>
               /\ \E i \in 1 .. n : Fitting(i)
               /\ \A i \in 1 .. n : Fitting(i) => ~entry.patterns[i].negated
      BY <1>6, <1>7, <2>3, <3>1
    <3> QED
      BY <3>2, <3>3 DEF Patterned, Fitting, s, pattern
  <2> QED
    BY <2>1, <2>2, <2>3
<1>12. CASE r \notin {"throws", "excluded"} /\ Fitting(n) /\ pattern.negated
  <2>1. s = "excluded"
    BY <1>2, <1>5, <1>12
  <2>2. \E i \in 1 .. n : Fitting(i) /\ entry.patterns[i].negated
    BY <1>6, <1>8, <1>12
  <2> QED
    BY <2>1, <2>2 DEF Patterned, Results, Fitting, s, pattern
<1>13. CASE r \notin {"throws", "excluded"} /\ Fitting(n) /\ ~pattern.negated
  <2>1. s = "matches"
    BY <1>2, <1>5, <1>13
  <2>2. \A i \in 1 .. (n - 1) : Fitting(i) => ~entry.patterns[i].negated
    BY <1>7, <1>13 DEF Results
  <2>3. \A i \in 1 .. n : Fitting(i) => ~entry.patterns[i].negated
    BY <1>6, <1>8, <1>13, <2>2
  <2>4. \E i \in 1 .. n : Fitting(i)
    BY <1>6, <1>13
  <2> QED
    BY <2>1, <2>3, <2>4 DEF Patterned, Results, Fitting, s, pattern
<1> QED
  BY <1>4, <1>9, <1>10, <1>11, <1>12, <1>13

\* matchesKnownHost says that an entry covers the host, whatever the order of
\* its patterns, or throws and has a malformed hash.
LEMMA EntryCovers ==
  ASSUME NEW entry, NEW host \in Name, entry.patterns \in Seq(Pattern)
  PROVE  LET r == matchesKnownHost(entry, host)
         IN  /\ r = "throws" => IsBad(entry)
             /\ r # "throws" => (r = "matches" <=> Covers(entry, host))
<1> DEFINE L == Len(entry.patterns)
           step == [q \in (1 .. L) \X Results |-> Considered(q[2], entry.patterns[q[1]], host)]
           After(f) == f = [n \in 0 .. L |-> IF n = 0 THEN "differs"
                                            ELSE Considered(f[n - 1], entry.patterns[n], host)]
           A == CHOOSE f : After(f)
<1>1. L \in Nat
  OBVIOUS
<1>2. ASSUME NEW n \in 1 .. L, NEW r \in Results PROVE Considered(r, entry.patterns[n], host) \in Results
  BY DEF Considered, Results
<1>3. "differs" \in Results
  BY DEF Results
<1> HIDE DEF L
<1>4. StepFunction(step, L, Results)
  BY <1>2 DEF StepFunction
<1>5. PICK f : Values(step, L, Results, "differs", f)
  <2> HIDE DEF step
  <2> QED
    BY <1>1, <1>3, <1>4, Recursion
<1>6. f \in [0 .. L -> Results] /\ f[0] = "differs"
  BY <1>5 DEF Values
<1>7. \A n \in 1 .. L : f[n] = Considered(f[n - 1], entry.patterns[n], host)
  <2> TAKE n \in 1 .. L
  <2>1. n - 1 \in 0 .. L
    BY <1>1
  <2>2. f[n - 1] \in Results /\ f[n] = step[<<n, f[n - 1]>>]
    BY <1>5, <2>1 DEF Values
  <2> QED
    BY <2>2
<1>8. After(f)
  <2> DEFINE h == [n \in 0 .. L |-> IF n = 0 THEN "differs" ELSE Considered(f[n - 1], entry.patterns[n], host)]
  <2>1. \A n \in 0 .. L : f[n] = h[n]
    BY <1>1, <1>6, <1>7
  <2>2. f = [n \in 0 .. L |-> f[n]]
    BY <1>6
  <2>3. f = h
    BY <2>1, <2>2
  <2> QED
    BY <2>3
<1>9. After(A)
  BY <1>8
<1>10. matchesKnownHost(entry, host) = A[L]
  BY DEF matchesKnownHost, L
<1> HIDE DEF A
<1>11. A[0] = "differs" /\ \A n \in 1 .. L : A[n] = Considered(A[n - 1], entry.patterns[n], host)
  BY <1>1, <1>9
<1> DEFINE K == {k \in 0 .. L : Patterned(entry, host, k, A[k])}
<1>12. 0 \in K
  <2>1. \A i \in 1 .. 0 : FALSE
    OBVIOUS
  <2>2. Patterned(entry, host, 0, "differs")
    BY <2>1 DEF Patterned, Results
  <2> QED
    BY <1>1, <1>11, <2>2
<1>13. ASSUME NEW k \in 0 .. L, k \in K, k < L PROVE k + 1 \in K
  <2>1. k + 1 \in 1 .. L /\ k + 1 \in 0 .. L /\ (k + 1) - 1 = k
    BY <1>1, <1>13
  <2>2. Patterned(entry, host, (k + 1) - 1, A[k])
    BY <1>13, <2>1
  <2> DEFINE n == k + 1
  <2> HIDE DEF n
  <2>3. n \in 1 .. Len(entry.patterns) /\ Patterned(entry, host, n - 1, A[k])
    BY <2>1, <2>2 DEF n, L
  <2>4. Patterned(entry, host, n, Considered(A[k], entry.patterns[n], host))
    BY <2>3, PatternsConsidered
  <2>5. A[n] = Considered(A[k], entry.patterns[n], host)
    BY <1>11, <2>1 DEF n
  <2> QED
    BY <2>1, <2>4, <2>5 DEF n
<1>14. K = 0 .. L
  <2>1. K \in SUBSET (0 .. L)
    OBVIOUS
  <2> HIDE DEF K
  <2> QED
    BY <1>1, <1>12, <1>13, <2>1, UpTo
<1>15. Patterned(entry, host, L, A[L])
  <2>1. L \in K
    BY <1>1, <1>14
  <2> QED
    BY <2>1
<1> DEFINE r == A[L]
           fitting == {i \in DOMAIN entry.patterns : Fits(entry.patterns[i], host)}
<1>16. DOMAIN entry.patterns = 1 .. L
  BY DEF L
<1>17. Covers(entry, host) <=>
         /\ \E i \in 1 .. L : Fits(entry.patterns[i], host)
         /\ \A i \in 1 .. L : Fits(entry.patterns[i], host) => ~entry.patterns[i].negated
  BY <1>16 DEF Covers
<1> HIDE DEF r
<1>18. /\ r \in Results
       /\ r = "throws" => IsBad(entry)
       /\ r = "differs" => \A i \in 1 .. L : ~Fits(entry.patterns[i], host)
       /\ r = "matches" =>
            /\ \E i \in 1 .. L : Fits(entry.patterns[i], host)
            /\ \A i \in 1 .. L : Fits(entry.patterns[i], host) => ~entry.patterns[i].negated
       /\ r = "excluded" => \E i \in 1 .. L : Fits(entry.patterns[i], host) /\ entry.patterns[i].negated
  BY <1>15 DEF Patterned, r
<1>19. r # "throws" => (r = "matches" <=> Covers(entry, host))
  BY <1>17, <1>18 DEF Results
<1> QED
  BY <1>10, <1>18, <1>19 DEF r


-----------------------------------------------------------------------------
(* Files                                                                   *)

\* The entries of the first n lines of a file, and a sequence as a set.
Taken(file, n) == {file[i] : i \in {i \in 1 .. n : file[i].kind = "entry"}}
All(s) == {s[i] : i \in 1 .. Len(s)}

\* What the lines before `at` say of the file, and the entries taken of them.
Parsed(file, taken, n, v) ==
  /\ v = "unparseable" => \E line \in EntriesOf(file) : ~Parseable(line)
  /\ v = "parsing" =>
       /\ n \in 1 .. (Len(file) + 1)
       /\ \A line \in Taken(file, n - 1) : Parseable(line)
       /\ All(taken) = Taken(file, n - 1)
  /\ v \notin {"parsing", "unparseable"} =>
       /\ \A line \in EntriesOf(file) : Parseable(line)
       /\ All(taken) = EntriesOf(file)

\* One of the first n entries covers the host, and has the marker and a key of these.
Says(taken, host, marker, keys, n) ==
  \E i \in 1 .. n :
    taken[i].marker = marker /\ taken[i].key \in keys /\ Covers(taken[i], host)

\* What has been seen is what the entries before `at` say.
Verified(c, taken, n, s, v) ==
  /\ v = "parsing" => s = Unseen
  /\ v = "verifying" =>
       /\ n \in 1 .. (Len(taken) + 1)
       /\ s.found <=> Says(taken, c.host, "none", PublicKeys, n - 1)
       /\ s.trusted <=> Says(taken, c.host, "none", {c.key}, n - 1)
       /\ ~Says(taken, c.host, "@revoked", {c.key}, n - 1)

Returned == {"revoked", "trusted", "changed", "unknown"}
Verdicts == {"parsing", "unparseable", "verifying", "throws"} \cup Returned

Meant(file, c, v) ==
  /\ v = "throws" => \E line \in EntriesOf(file) : IsBad(line)
  /\ v \in Returned => v = Meaning(file, c.host, c.key)

Entered(line) == line \in Line /\ line.kind = "entry"

\* The inductive invariant: what has been parsed and seen is what the lines and
\* entries passed over say, and what was returned is what the file means.
HostsInv ==
  /\ check \in Checks /\ verdict \in Verdicts
  /\ entries \in Seq(Line) /\ \A i \in 1 .. Len(entries) : Entered(entries[i])
  /\ seen \in [found : BOOLEAN, trusted : BOOLEAN]
  /\ Parsed(check.file, entries, at, verdict)
  /\ Verified(check, entries, at, seen, verdict)
  /\ Meant(check.file, check, verdict)

-----------------------------------------------------------------------------
\* The fields of an entry.
LEMMA EntryFields ==
  ASSUME NEW line, Entered(line)
  PROVE  /\ line.marker \in {"none", "@cert-authority", "@revoked", "@unknown"}
         /\ line.patterns \in Seq(Pattern) /\ line.key \in PublicKeys
<1>1. line \notin {Blank, Comment}
  BY DEF Entered, Blank, Comment
<1> QED
  BY <1>1 DEF Entered, Line

\* The fields of a check, and the entries of its file.
LEMMA CheckFields ==
  ASSUME NEW c \in Checks
  PROVE  /\ c.file \in Seq(Line) /\ c.host \in Name /\ c.key \in PublicKeys
         /\ EntriesOf(c.file) = Taken(c.file, Len(c.file))
<1>1. c.file \in Seq(Line) /\ c.host \in Name /\ c.key \in PublicKeys
  BY HostsAssumption
<1>2. DOMAIN c.file = 1 .. Len(c.file)
  BY <1>1
<1> QED
  BY <1>1, <1>2 DEF EntriesOf, Taken

\* One more line gives its entry, if it has one.
LEMMA TakenNext ==
  ASSUME NEW file, NEW n \in Nat \ {0}
  PROVE  /\ file[n].kind = "entry" => Taken(file, n) = Taken(file, n - 1) \cup {file[n]}
         /\ file[n].kind # "entry" => Taken(file, n) = Taken(file, n - 1)
<1>1. 1 .. n = (1 .. (n - 1)) \cup {n}
  OBVIOUS
<1> QED
  BY <1>1 DEF Taken

\* What is appended is added.
LEMMA AllAppend ==
  ASSUME NEW s \in Seq(Line), NEW x \in Line
  PROVE  All(Append(s, x)) = All(s) \cup {x}
<1> DEFINE t == Append(s, x)
           n == Len(s) + 1
<1>1. Len(t) = n /\ t[n] = x /\ (\A i \in 1 .. Len(s) : t[i] = s[i]) /\ Len(s) \in Nat
  OBVIOUS
<1>2. 1 .. n = (1 .. Len(s)) \cup {n}
  BY <1>1
<1> HIDE DEF t, n
<1>3. All(t) = {t[i] : i \in 1 .. n}
  BY <1>1 DEF All
<1>4. \A y : y \in All(t) <=> y \in All(s) \cup {x}
  BY <1>1, <1>2, <1>3 DEF All
<1> QED
  BY <1>4 DEF t

\* What the entries before one say, and what it says.
LEMMA SaysNext ==
  ASSUME NEW taken, NEW host, NEW marker, NEW keys, NEW n \in Nat \ {0}
  PROVE  Says(taken, host, marker, keys, n) <=>
           \/ Says(taken, host, marker, keys, n - 1)
           \/ taken[n].marker = marker /\ taken[n].key \in keys /\ Covers(taken[n], host)
<1>1. 1 .. n = (1 .. (n - 1)) \cup {n}
  OBVIOUS
<1> QED
  BY <1>1 DEF Says

\* When the entries have all been seen, that is what the file says.
LEMMA SaysAll ==
  ASSUME NEW file, NEW taken, All(taken) = EntriesOf(file), NEW host, NEW key
  PROVE  LET Has(marker, keys) == Says(taken, host, marker, keys, Len(taken))
         IN  Meaning(file, host, key) =
               IF Has("@revoked", {key}) THEN "revoked"
               ELSE IF Has("none", {key}) THEN "trusted"
               ELSE IF Has("none", PublicKeys) THEN "changed"
               ELSE "unknown"
<1> DEFINE Had(marker, keys) ==
             \E e \in EntriesOf(file) : e.marker = marker /\ e.key \in keys /\ Covers(e, host)
<1>1. \A marker, keys : Had(marker, keys) <=> Says(taken, host, marker, keys, Len(taken))
  BY DEF Says, All
<1>2. Meaning(file, host, key) =
        IF Had("@revoked", {key}) THEN "revoked"
        ELSE IF Had("none", {key}) THEN "trusted"
        ELSE IF Had("none", PublicKeys) THEN "changed"
        ELSE "unknown"
  BY DEF Meaning
<1> HIDE DEF Had
<1> QED
  BY <1>1, <1>2

-----------------------------------------------------------------------------
\* At first no line has been parsed.
LEMMA HostsFirst == HostsInit => HostsInv
<1> SUFFICES ASSUME HostsInit PROVE HostsInv
  OBVIOUS
<1>1. /\ check \in Checks /\ at = 1 /\ entries = <<>> /\ seen = Unseen /\ verdict = "parsing"
      /\ check.file \in Seq(Line)
  BY CheckFields DEF HostsInit
<1>2. Taken(check.file, 1 - 1) = {} /\ All(entries) = {}
  BY <1>1 DEF Taken, All
<1>3. Len(check.file) \in Nat
  BY <1>1
<1>4. Parsed(check.file, entries, 1, "parsing")
  <2>1. 1 \in 1 .. (Len(check.file) + 1)
    BY <1>3
  <2>2. \A line \in Taken(check.file, 1 - 1) : Parseable(line)
    BY <1>2
  <2>3. All(entries) = Taken(check.file, 1 - 1)
    BY <1>2
  <2> QED
    BY <2>1, <2>2, <2>3 DEF Parsed
<1>5. Verified(check, entries, at, seen, verdict) /\ Meant(check.file, check, verdict)
  BY <1>1 DEF Verified, Meant, Returned
<1>6. seen \in [found : BOOLEAN, trusted : BOOLEAN]
  BY <1>1 DEF Unseen
<1> QED
  BY <1>1, <1>4, <1>5, <1>6 DEF HostsInv, Verdicts

\* A line that is parsed is passed over, is taken or ends the parsing.
LEMMA KeepsParseLine ==
  ASSUME HostsInv, ParseLine
  PROVE  HostsInv'
<1> DEFINE file == check.file
           line == file[at]
<1>1. /\ check \in Checks /\ entries \in Seq(Line) /\ (\A i \in 1 .. Len(entries) : Entered(entries[i]))
      /\ seen \in [found : BOOLEAN, trusted : BOOLEAN] /\ verdict = "parsing"
      /\ at \in 1 .. (Len(file) + 1) /\ at <= Len(file) /\ seen = Unseen
      /\ (\A l \in Taken(file, at - 1) : Parseable(l)) /\ All(entries) = Taken(file, at - 1)
      /\ check' = check /\ seen' = seen /\ at' = at + 1
  BY DEF HostsInv, ParseLine, Parsed, Verified
<1>2. file \in Seq(Line) /\ EntriesOf(file) = Taken(file, Len(file)) /\ Len(file) \in Nat
  BY <1>1, CheckFields
<1>3. at \in 1 .. Len(file) /\ at \in Nat \ {0} /\ line \in Line /\ (at + 1) - 1 = at
      /\ at + 1 \in 1 .. (Len(file) + 1)
  BY <1>1, <1>2
<1>4. line.kind = "entry" => line \in EntriesOf(file)
  BY <1>2, <1>3 DEF Taken
<1>5. /\ line.kind = "entry" => Taken(file, at) = Taken(file, at - 1) \cup {line}
      /\ line.kind # "entry" => Taken(file, at) = Taken(file, at - 1)
  BY <1>3, TakenNext
<1>6. CASE line.kind # "entry"
  <2>1. entries' = entries /\ verdict' = verdict
    BY <1>6 DEF ParseLine
  <2>2. Parsed(file, entries, at + 1, "parsing")
    BY <1>1, <1>3, <1>5, <1>6 DEF Parsed
  <2>3. Verified(check, entries, at + 1, seen, "parsing") /\ Meant(file, check, "parsing")
    BY <1>1 DEF Verified, Meant, Returned
  <2> QED
    BY <1>1, <2>1, <2>2, <2>3 DEF HostsInv, Verdicts
<1>7. CASE line.kind = "entry" /\ Parseable(line)
  <2>1. entries' = Append(entries, line) /\ verdict' = verdict
    BY <1>7 DEF ParseLine
  <2> DEFINE taken == Append(entries, line)
  <2>2. taken \in Seq(Line) /\ \A i \in 1 .. Len(taken) : Entered(taken[i])
    <3>1. Entered(line)
      BY <1>3, <1>7 DEF Entered
    <3>2. /\ taken \in Seq(Line) /\ Len(taken) = Len(entries) + 1 /\ taken[Len(entries) + 1] = line
          /\ Len(entries) \in Nat /\ \A i \in 1 .. Len(entries) : taken[i] = entries[i]
      BY <1>1, <1>3
    <3>3. \A i \in 1 .. (Len(entries) + 1) : i = Len(entries) + 1 \/ i \in 1 .. Len(entries)
      BY <3>2
    <3> HIDE DEF taken
    <3> QED
      BY <1>1, <3>1, <3>2, <3>3
  <2>3. All(taken) = Taken(file, at)
    <3>1. All(taken) = All(entries) \cup {line}
      BY <1>1, <1>3, AllAppend
    <3> QED
      BY <1>1, <1>5, <1>7, <3>1
  <2> HIDE DEF taken
  <2>4. Parsed(file, taken, at + 1, "parsing")
    BY <1>1, <1>3, <1>5, <1>7, <2>3 DEF Parsed
  <2>5. Verified(check, taken, at + 1, seen, "parsing") /\ Meant(file, check, "parsing")
    BY <1>1 DEF Verified, Meant, Returned
  <2>6. entries' = taken
    BY <2>1 DEF taken
  <2> QED
    BY <1>1, <2>1, <2>2, <2>4, <2>5, <2>6 DEF HostsInv, Verdicts
<1>8. CASE line.kind = "entry" /\ ~Parseable(line)
  <2>1. entries' = entries /\ verdict' = "unparseable"
    BY <1>8 DEF ParseLine
  <2>2. Parsed(file, entries, at + 1, "unparseable")
    BY <1>4, <1>8 DEF Parsed
  <2>3. Verified(check, entries, at + 1, seen, "unparseable") /\ Meant(file, check, "unparseable")
    BY DEF Verified, Meant, Returned
  <2> QED
    BY <1>1, <2>1, <2>2, <2>3 DEF HostsInv, Verdicts
<1> QED
  BY <1>6, <1>7, <1>8

\* When all lines have been parsed, the entries are those of the file.
LEMMA KeepsVerify ==
  ASSUME HostsInv, Verify
  PROVE  HostsInv'
<1>1. /\ check \in Checks /\ entries \in Seq(Line) /\ (\A i \in 1 .. Len(entries) : Entered(entries[i]))
      /\ seen \in [found : BOOLEAN, trusted : BOOLEAN] /\ verdict = "parsing"
      /\ at \in 1 .. (Len(check.file) + 1) /\ at > Len(check.file) /\ seen = Unseen
      /\ (\A l \in Taken(check.file, at - 1) : Parseable(l)) /\ All(entries) = Taken(check.file, at - 1)
      /\ check' = check /\ seen' = seen /\ at' = 1 /\ entries' = entries /\ verdict' = "verifying"
  BY DEF HostsInv, Verify, Parsed, Verified
<1>2. EntriesOf(check.file) = Taken(check.file, Len(check.file)) /\ Len(check.file) \in Nat
  BY <1>1, CheckFields
<1>3. at - 1 = Len(check.file)
  BY <1>1, <1>2
<1>4. Parsed(check.file, entries, 1, "verifying")
  BY <1>1, <1>2, <1>3 DEF Parsed
<1>5. \A marker, keys : ~Says(entries, check.host, marker, keys, 1 - 1)
  BY DEF Says
<1>6. Verified(check, entries, 1, seen, "verifying")
  <2>1. seen.found = FALSE /\ seen.trusted = FALSE /\ 1 \in 1 .. (Len(entries) + 1)
    BY <1>1 DEF Unseen
  <2> QED
    BY <1>5, <2>1 DEF Verified
<1>7. Meant(check.file, check, "verifying")
  BY DEF Meant, Returned
<1> QED
  BY <1>1, <1>4, <1>6, <1>7 DEF HostsInv, Verdicts

\* An entry is counted if it covers the host, a revoked one with the key decides.
LEMMA KeepsVerifyEntry ==
  ASSUME HostsInv, VerifyEntry
  PROVE  HostsInv'
<1> DEFINE file == check.file
           entry == entries[at]
           r == matchesKnownHost(entry, check.host)
           SaysBefore(marker, keys) == Says(entries, check.host, marker, keys, at - 1)
           SaysNow(marker, keys) == Says(entries, check.host, marker, keys, at)
<1>1. /\ check \in Checks /\ entries \in Seq(Line) /\ (\A i \in 1 .. Len(entries) : Entered(entries[i]))
      /\ seen \in [found : BOOLEAN, trusted : BOOLEAN] /\ verdict = "verifying"
      /\ (\A l \in EntriesOf(file) : Parseable(l)) /\ All(entries) = EntriesOf(file)
      /\ at \in 1 .. (Len(entries) + 1) /\ at <= Len(entries)
      /\ check' = check /\ entries' = entries /\ at' = at + 1
  BY DEF HostsInv, VerifyEntry, Parsed, Verified
<1>2. /\ seen.found <=> SaysBefore("none", PublicKeys)
      /\ seen.trusted <=> SaysBefore("none", {check.key})
      /\ ~SaysBefore("@revoked", {check.key})
  BY <1>1 DEF HostsInv, Verified
<1>3. /\ at \in 1 .. Len(entries) /\ at \in Nat \ {0} /\ (at + 1) - 1 = at
      /\ at + 1 \in 1 .. (Len(entries) + 1)
  BY <1>1
<1>4. check.host \in Name /\ check.key \in PublicKeys
  BY <1>1, CheckFields
<1>5. Entered(entry) /\ entry \in EntriesOf(file)
  BY <1>1, <1>3 DEF All
<1>6. /\ entry.marker \in {"none", "@cert-authority", "@revoked"}
      /\ entry.patterns \in Seq(Pattern) /\ entry.key \in PublicKeys
  <2>1. Parseable(entry)
    BY <1>1, <1>5
  <2> QED
    BY <1>5, <2>1, EntryFields DEF Parseable
<1>7. /\ r = "throws" => IsBad(entry)
      /\ r # "throws" => (r = "matches" <=> Covers(entry, check.host))
  BY <1>4, <1>6, EntryCovers
<1>8. \A marker, keys :
        SaysNow(marker, keys) <=>
          SaysBefore(marker, keys) \/ (entry.marker = marker /\ entry.key \in keys /\ Covers(entry, check.host))
  BY <1>3, SaysNext
<1>9. \A v \in Verdicts \ {"parsing", "unparseable"} : \A n : Parsed(file, entries, n, v)
  BY <1>1 DEF Parsed
<1>10. Meant(file, check, "verifying")
  BY DEF Meant, Returned
<1>11. ASSUME NEW s, s \in [found : BOOLEAN, trusted : BOOLEAN],
              s.found <=> SaysNow("none", PublicKeys), s.trusted <=> SaysNow("none", {check.key}),
              ~SaysNow("@revoked", {check.key})
       PROVE  Verified(check, entries, at + 1, s, "verifying")
  BY <1>3, <1>11 DEF Verified
<1> HIDE DEF r, SaysBefore, SaysNow
<1>12. CASE r = "throws"
  <2>1. verdict' = "throws" /\ seen' = seen
    BY <1>12 DEF VerifyEntry, r
  <2>2. Meant(file, check, "throws") /\ Verified(check, entries, at + 1, seen, "throws")
    BY <1>5, <1>7, <1>12 DEF Meant, Verified, Returned
  <2>3. Parsed(file, entries, at + 1, "throws")
    BY <1>9 DEF Verdicts
  <2> QED
    BY <1>1, <2>1, <2>2, <2>3 DEF HostsInv, Verdicts
<1>13. CASE r # "throws" /\ ~Considers(entry)
  <2>1. verdict' = verdict /\ seen' = seen
    BY <1>13 DEF VerifyEntry, r
  <2>2. ~Covers(entry, check.host) \/ entry.marker = "@cert-authority"
    BY <1>7, <1>13 DEF Considers, r
  <2>3. /\ SaysNow("none", PublicKeys) <=> SaysBefore("none", PublicKeys)
        /\ SaysNow("none", {check.key}) <=> SaysBefore("none", {check.key})
        /\ SaysNow("@revoked", {check.key}) <=> SaysBefore("@revoked", {check.key})
    BY <1>8, <2>2
  <2>4. Verified(check, entries, at + 1, seen, "verifying")
    BY <1>1, <1>2, <1>11, <2>3
  <2>5. Parsed(file, entries, at + 1, "verifying")
    BY <1>9 DEF Verdicts
  <2> QED
    BY <1>1, <1>10, <2>1, <2>4, <2>5 DEF HostsInv, Verdicts
<1>14. CASE r # "throws" /\ Considers(entry)
  <2>1. Decide(entry)
    BY <1>14 DEF VerifyEntry, r
  <2>2. Covers(entry, check.host) /\ entry.marker \in {"none", "@revoked"}
    BY <1>6, <1>7, <1>14 DEF Considers, r
  <2>3. CASE entry.marker = "@revoked" /\ entry.key = check.key
    <3>1. verdict' = "revoked" /\ seen' = seen
      BY <2>1, <2>3 DEF Decide
    <3>2. \E e \in EntriesOf(file) : e.marker = "@revoked" /\ e.key \in {check.key} /\ Covers(e, check.host)
      BY <1>5, <2>2, <2>3
    <3>3. Meaning(file, check.host, check.key) = "revoked"
      BY <3>2 DEF Meaning
    <3>4. Meant(file, check, "revoked") /\ Verified(check, entries, at + 1, seen, "revoked")
      BY <3>3 DEF Meant, Verified
    <3>5. Parsed(file, entries, at + 1, "revoked")
      BY <1>9 DEF Verdicts, Returned
    <3> QED
      BY <1>1, <3>1, <3>4, <3>5 DEF HostsInv, Verdicts, Returned
  <2>4. CASE entry.marker = "@revoked" /\ entry.key # check.key
    <3>1. verdict' = verdict /\ seen' = seen
      BY <2>1, <2>4 DEF Decide
    <3>2. /\ SaysNow("none", PublicKeys) <=> SaysBefore("none", PublicKeys)
          /\ SaysNow("none", {check.key}) <=> SaysBefore("none", {check.key})
          /\ SaysNow("@revoked", {check.key}) <=> SaysBefore("@revoked", {check.key})
      BY <1>8, <2>4
    <3>3. Verified(check, entries, at + 1, seen, "verifying")
      BY <1>1, <1>2, <1>11, <3>2
    <3>4. Parsed(file, entries, at + 1, "verifying")
      BY <1>9 DEF Verdicts
    <3> QED
      BY <1>1, <1>10, <3>1, <3>3, <3>4 DEF HostsInv, Verdicts
  <2>5. CASE entry.marker = "none"
    <3> DEFINE same == entry.key = check.key
               s == [found |-> TRUE, trusted |-> seen.trusted \/ same]
    <3>1. verdict' = verdict /\ seen' = s
      BY <2>1, <2>5 DEF Decide
    <3>2. s \in [found : BOOLEAN, trusted : BOOLEAN] /\ s.found = TRUE /\ s.trusted = (seen.trusted \/ same)
      OBVIOUS
    <3>3. /\ SaysNow("none", PublicKeys)
          /\ SaysNow("none", {check.key}) <=> SaysBefore("none", {check.key}) \/ same
          /\ SaysNow("@revoked", {check.key}) <=> SaysBefore("@revoked", {check.key})
      BY <1>6, <1>8, <2>2, <2>5
    <3> HIDE DEF s
    <3>4. s.found <=> SaysNow("none", PublicKeys)
      BY <3>2, <3>3
    <3>5. s.trusted <=> SaysNow("none", {check.key})
      BY <1>2, <3>2, <3>3
    <3>6. ~SaysNow("@revoked", {check.key})
      BY <1>2, <3>3
    <3>7. Verified(check, entries, at + 1, s, "verifying")
      BY <1>11, <3>2, <3>4, <3>5, <3>6
    <3>8. Parsed(file, entries, at + 1, "verifying")
      BY <1>9 DEF Verdicts
    <3> QED
      BY <1>1, <1>10, <3>1, <3>2, <3>7, <3>8 DEF HostsInv, Verdicts
  <2> QED
    BY <2>2, <2>3, <2>4, <2>5
<1> QED
  BY <1>12, <1>13, <1>14

\* When all entries have been seen, they mean the verdict.
LEMMA KeepsConclude ==
  ASSUME HostsInv, Conclude
  PROVE  HostsInv'
<1> DEFINE file == check.file
           Has(marker, keys) == Says(entries, check.host, marker, keys, Len(entries))
           v == IF seen.trusted THEN "trusted" ELSE IF seen.found THEN "changed" ELSE "unknown"
<1>1. /\ check \in Checks /\ entries \in Seq(Line) /\ (\A i \in 1 .. Len(entries) : Entered(entries[i]))
      /\ seen \in [found : BOOLEAN, trusted : BOOLEAN] /\ verdict = "verifying"
      /\ (\A l \in EntriesOf(file) : Parseable(l)) /\ All(entries) = EntriesOf(file)
      /\ at \in 1 .. (Len(entries) + 1) /\ at > Len(entries)
      /\ check' = check /\ entries' = entries /\ at' = at /\ seen' = seen /\ verdict' = v
  BY DEF HostsInv, Conclude, Parsed, Verified
<1>2. at - 1 = Len(entries)
  BY <1>1
<1>3. /\ seen.found <=> Has("none", PublicKeys)
      /\ seen.trusted <=> Has("none", {check.key})
      /\ ~Has("@revoked", {check.key})
  BY <1>1, <1>2 DEF HostsInv, Verified
<1>4. Meaning(file, check.host, check.key) =
        IF Has("@revoked", {check.key}) THEN "revoked"
        ELSE IF Has("none", {check.key}) THEN "trusted"
        ELSE IF Has("none", PublicKeys) THEN "changed"
        ELSE "unknown"
  BY <1>1, SaysAll
<1> HIDE DEF Has
<1>5. Meaning(file, check.host, check.key) = v /\ v \in {"trusted", "changed", "unknown"}
  BY <1>3, <1>4
<1> HIDE DEF v
<1>6. Meant(file, check, v) /\ Parsed(file, entries, at, v) /\ Verified(check, entries, at, seen, v)
  BY <1>1, <1>5 DEF Meant, Parsed, Verified, Returned
<1> QED
  BY <1>1, <1>5, <1>6 DEF HostsInv, Verdicts, Returned

\* Every step keeps the invariant.
LEMMA KeepsHosts == HostsInv /\ [HostsNext]_hostVars => HostsInv'
<1> SUFFICES ASSUME HostsInv, [HostsNext]_hostVars PROVE HostsInv'
  OBVIOUS
<1>1. CASE UNCHANGED hostVars
  BY <1>1 DEF hostVars, HostsInv
<1> QED
  BY <1>1, KeepsParseLine, KeepsVerify, KeepsVerifyEntry, KeepsConclude DEF HostsNext

\* The verdict on a host key is what the known_hosts file means, for every file,
\* host and key, whatever the order of lines and patterns (known_hosts.ts:51-118).
THEOREM HostsTrusted == HostsSpec => []HostTrusted
<1>1. ASSUME HostsInv PROVE HostTrusted
  <2>1. /\ verdict \in Verdicts /\ Parsed(check.file, entries, at, verdict)
        /\ Meant(check.file, check, verdict)
    BY <1>1 DEF HostsInv
  <2>2. verdict \notin {"parsing", "unparseable", "verifying", "throws"} => verdict \in Returned
    BY <2>1 DEF Verdicts
  <2> QED
    BY <2>1, <2>2 DEF HostTrusted, Parsed, Meant
<1> QED
  BY <1>1, HostsFirst, KeepsHosts, PTL DEF HostsSpec

=============================================================================
