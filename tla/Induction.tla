------------------------------ MODULE Induction ------------------------------
(***************************************************************************)
(* Induction over the natural numbers for sets in place of predicates, so  *)
(* that it can be cited for any formula by way of the set of numbers it    *)
(* holds for, and functions defined by recursion over them.  It rests on   *)
(* the library's theorem that inclusion of finite sets is well-founded.    *)
(* At the end, the facts of the library about sequences that are used.     *)
(***************************************************************************)
EXTENDS Integers, Sequences, FiniteSetTheorems, TLAPS
LOCAL INSTANCE SequenceTheorems
LOCAL INSTANCE WellFoundedInduction

\* A set with 0 and the successor of each number in it has all numbers: what
\* every induction here, over chains, blocks and messages, rests on.
LEMMA AllNaturals ==
    ASSUME NEW S, 0 \in S, \A n \in Nat : n \in S => n + 1 \in S
    PROVE  Nat \subseteq S
  <1> SUFFICES ASSUME NEW k \in Nat, k \notin S PROVE FALSE  OBVIOUS
  <1> DEFINE T == {1..n : n \in Nat \ S}
  <1>1. \A n \in Nat : IsFiniteSet(1..n)  BY FS_Interval
  <1>2. T \subseteq FiniteSubsetsOf(Nat)  BY <1>1 DEF FiniteSubsetsOf
  <1>3. 1..k \in T  OBVIOUS
  <1> HIDE DEF T
  <1>4. PICK t \in T : \A u \in T : ~(<<u, t>> \in StrictSubsetOrdering(Nat))
    BY <1>2, <1>3, FS_StrictSubsetOrderingWellFounded, WFMin
  <1>5. PICK n \in Nat \ S : t = 1..n  BY DEF T
  <1>6. n # 0 /\ n - 1 \in Nat  BY <1>5
  <1>7. n - 1 \in Nat \ S  BY <1>6
  <1>8. 1..(n - 1) \in T  BY <1>7 DEF T
  <1>9. 1..(n - 1) \subseteq 1..n /\ n \in 1..n /\ n \notin 1..(n - 1)
    BY <1>6
  <1>10. <<1..(n - 1), 1..n>> \in StrictSubsetOrdering(Nat)
    BY <1>9 DEF StrictSubsetOrdering
  <1> QED  BY <1>4, <1>5, <1>8, <1>10

\* So does a set that has each number if it has all that are less.
LEMMA AllFromLess ==
    ASSUME NEW S, \A n \in Nat : (\A m \in Nat : m < n => m \in S) => n \in S
    PROVE  Nat \subseteq S
  <1> DEFINE Below == {n \in Nat : \A m \in Nat : m < n => m \in S}
  <1>1. 0 \in Below  OBVIOUS
  <1>2. ASSUME NEW n \in Nat, n \in Below PROVE n + 1 \in Below
    <2>1. n \in S  BY <1>2
    <2>2. ASSUME NEW m \in Nat, m < n + 1 PROVE m \in S
      <3>1. m < n \/ m = n  BY <2>2
      <3> QED  BY <1>2, <2>1, <3>1
    <2> QED  BY <2>2
  <1>3. Nat \subseteq Below
    <2> HIDE DEF Below
    <2> QED  BY <1>1, <1>2, AllNaturals
  <1>4. ASSUME NEW n \in Nat PROVE n \in S
    <2>1. n + 1 \in Nat /\ n < n + 1  OBVIOUS
    <2>2. n + 1 \in Below  BY <1>3, <2>1
    <2> QED  BY <2>1, <2>2
  <1> QED  BY <1>4

\* A set of numbers that is not empty has a least one.
LEMMA LeastNumber ==
    ASSUME NEW S \in SUBSET Nat, S # {}
    PROVE  \E n \in S : \A m \in S : n <= m
  <1> SUFFICES ASSUME \A n \in S : \E m \in S : m < n PROVE FALSE  OBVIOUS
  <1> DEFINE Below == {n \in Nat : \A m \in S : n <= m}
  <1>1. 0 \in Below  OBVIOUS
  <1>2. \A n \in Nat : n \in Below => n + 1 \in Below  OBVIOUS
  <1>3. Nat \subseteq Below
    <2> HIDE DEF Below
    <2> QED  BY <1>1, <1>2, AllNaturals
  <1>4. PICK n \in S : TRUE  OBVIOUS
  <1>5. n + 1 \in Below  BY <1>3
  <1> QED  BY <1>4, <1>5

\* A sequence without end that starts with a and goes on by a step.
Repeats(g, S, a, step) ==
    /\ g \in [Nat -> S]
    /\ g[0] = a
    /\ \A n \in Nat : g[n + 1] = step[g[n]]

\* Repeating a step from a start defines a function of the numbers: what the
\* recursive functions that follow a chain are.
LEMMA Repetition ==
    ASSUME NEW S, NEW a \in S, NEW step \in [S -> S]
    PROVE  \E g : Repeats(g, S, a, step)
  <1> DEFINE Start(n) == {h \in [0..n -> S] :
                 h[0] = a /\ \A k \in 0..(n - 1) : h[k + 1] = step[h[k]]}
  <1>1. \A n \in Nat : Start(n) # {}
    <2> DEFINE Started == {n \in Nat : Start(n) # {}}
    <2>1. 0 \in Started
      <3>1. [k \in 0..0 |-> a] \in Start(0)  OBVIOUS
      <3> QED  BY <3>1
    <2>2. ASSUME NEW n \in Nat, n \in Started PROVE n + 1 \in Started
      <3>1. PICK h \in Start(n) : TRUE  BY <2>2
      <3> DEFINE g == [k \in 0..(n + 1) |->
                          IF k = n + 1 THEN step[h[n]] ELSE h[k]]
      <3>2. h \in [0..n -> S] /\ h[0] = a
            /\ \A k \in 0..(n - 1) : h[k + 1] = step[h[k]]
        BY <3>1
      <3>3. g \in [0..(n + 1) -> S] /\ g[0] = a  BY <3>2
      <3>4. ASSUME NEW k \in 0..n PROVE g[k + 1] = step[g[k]]
        <4>1. g[k] = h[k]  OBVIOUS
        <4>2. CASE k = n  BY <4>1, <4>2
        <4>3. CASE k # n  BY <3>2, <4>1, <4>3
        <4> QED  BY <4>2, <4>3
      <3>5. g \in Start(n + 1)  BY <3>3, <3>4
      <3> HIDE DEF Start, g
      <3> QED  BY <3>5
    <2>3. Nat \subseteq Started
      <3> HIDE DEF Started
      <3> QED  BY <2>1, <2>2, AllNaturals
    <2> QED  BY <2>3
  <1>2. ASSUME NEW n \in Nat, NEW m \in Nat, n <= m,
               NEW h \in Start(n), NEW g \in Start(m)
        PROVE  h[n] = g[n]
    <2> DEFINE Same == {k \in Nat : k <= n => h[k] = g[k]}
    <2>1. 0 \in Same  BY <1>2
    <2>2. ASSUME NEW k \in Nat, k \in Same PROVE k + 1 \in Same
      <3> SUFFICES ASSUME k + 1 <= n PROVE h[k + 1] = g[k + 1]  OBVIOUS
      <3>1. k \in 0..(n - 1) /\ k \in 0..(m - 1)  BY <1>2
      <3>2. h[k] = g[k]  BY <2>2
      <3>3. h[k + 1] = step[h[k]] /\ g[k + 1] = step[g[k]]  BY <3>1
      <3> QED  BY <3>2, <3>3
    <2>3. Nat \subseteq Same
      <3> HIDE DEF Same
      <3> QED  BY <2>1, <2>2, AllNaturals
    <2> QED  BY <2>3
  <1> DEFINE f == [n \in Nat |-> CHOOSE h \in Start(n) : TRUE]
             g == [n \in Nat |-> f[n][n]]
  <1>3. \A n \in Nat : f[n] \in Start(n)
    <2> HIDE DEF Start
    <2> QED  BY <1>1
  <1>4. \A n \in Nat : f[n] \in [0..n -> S] /\ n \in 0..n
    <2> HIDE DEF f
    <2> QED  BY <1>3
  <1>5. g \in [Nat -> S]  BY <1>4
  <1>6. g[0] = a  BY <1>3
  <1>7. ASSUME NEW n \in Nat PROVE g[n + 1] = step[g[n]]
    <2>1. f[n] \in Start(n) /\ f[n + 1] \in Start(n + 1)
      <3> HIDE DEF Start, f
      <3> QED  BY <1>3
    <2>2. n <= n + 1 /\ n + 1 \in Nat /\ n \in 0..((n + 1) - 1)  OBVIOUS
    <2>3. f[n][n] = f[n + 1][n]
      <3> HIDE DEF Start, f
      <3> QED  BY <1>2, <2>1, <2>2
    <2>4. f[n + 1][n + 1] = step[f[n + 1][n]]
      <3> HIDE DEF f
      <3> QED  BY <2>1, <2>2
    <2> QED  BY <2>3, <2>4
  <1> HIDE DEF g
  <1> QED  BY <1>5, <1>6, <1>7 DEF Repeats

\* f goes down by d until it is below d, where it has the values of base.
Descends(f, d, base, step) ==
    \A n \in Nat : f[n] = IF n < d THEN base[n] ELSE step[<<n, f[n - d]>>]

\* A function on all numbers by recursion to the number less by d.
LEMMA Descent ==
    ASSUME NEW S, NEW d \in Nat \ {0}, NEW base \in [Nat -> S], NEW step,
           \A n \in Nat, x \in S : step[<<n, x>>] \in S
    PROVE  \E f \in [Nat -> S] : Descends(f, d, base, step)
  <1> DEFINE Up(g) == [n \in Nat |-> IF n < d THEN base[n] ELSE step[<<n, g[n - d]>>]]
             up == [g \in [Nat -> S] |-> Up(g)]
  <1>1. ASSUME NEW g \in [Nat -> S] PROVE Up(g) \in [Nat -> S]
    <2>1. ASSUME NEW n \in Nat, ~(n < d) PROVE step[<<n, g[n - d]>>] \in S
      <3>1. n - d \in Nat  BY <2>1
      <3>2. g[n - d] \in S  BY <3>1
      <3> QED  BY <3>2
    <2> QED  BY <2>1
  <1>2. up \in [[Nat -> S] -> [Nat -> S]]
    <2> HIDE DEF Up
    <2> QED  BY <1>1
  <1>3. PICK h : Repeats(h, [Nat -> S], base, up)  BY <1>2, Repetition
  <1>4. /\ h \in [Nat -> [Nat -> S]]
        /\ \A k \in Nat : h[k + 1] = Up(h[k])
    <2> HIDE DEF Up
    <2> QED  BY <1>3 DEF Repeats
  <1>5. ASSUME NEW k \in Nat, NEW n \in Nat
        PROVE  h[k + 1][n] = IF n < d THEN base[n] ELSE step[<<n, h[k][n - d]>>]
    BY <1>4
  <1> DEFINE Stays == {k \in Nat : \A n \in Nat : n <= k => h[k + 1][n] = h[k][n]}
  <1>6. 0 \in Stays
    <2>1. h[0] = base  BY <1>3 DEF Repeats
    <2>2. 0 + 1 = 1 /\ 0 < d  OBVIOUS
    <2>3. h[0 + 1][0] = base[0]  BY <1>5, <2>2
    <2> QED  BY <2>1, <2>3
  <1>7. ASSUME NEW k \in Nat, k \in Stays PROVE k + 1 \in Stays
    <2> SUFFICES ASSUME NEW n \in Nat, n <= k + 1
                 PROVE  h[(k + 1) + 1][n] = h[k + 1][n]
      OBVIOUS
    <2>1. CASE n < d
      <3>1. h[k + 1][n] = base[n]  BY <1>5, <2>1
      <3>2. k + 1 \in Nat  OBVIOUS
      <3>3. h[(k + 1) + 1][n] = base[n]  BY <1>5, <2>1, <3>2
      <3> QED  BY <3>1, <3>3
    <2>2. CASE ~(n < d)
      <3>1. n - d \in Nat /\ n - d <= k  BY <2>2
      <3>2. h[k + 1][n - d] = h[k][n - d]  BY <1>7, <3>1
      <3>3. h[(k + 1) + 1][n] = step[<<n, h[k + 1][n - d]>>]  BY <1>5, <2>2
      <3>4. h[k + 1][n] = step[<<n, h[k][n - d]>>]  BY <1>5, <2>2
      <3> QED  BY <3>2, <3>3, <3>4
    <2> QED  BY <2>1, <2>2
  <1>8. Nat \subseteq Stays
    <2> HIDE DEF Stays
    <2> QED  BY <1>6, <1>7, AllNaturals
  <1>9. ASSUME NEW n \in Nat, NEW k \in Nat PROVE h[n + k][n] = h[n][n]
    <2> DEFINE Same == {a \in Nat : h[n + a][n] = h[n][n]}
    <2>1. 0 \in Same  OBVIOUS
    <2>2. ASSUME NEW a \in Nat, a \in Same PROVE a + 1 \in Same
      <3>1. n + a \in Nat /\ n <= n + a /\ n + (a + 1) = (n + a) + 1  OBVIOUS
      <3>2. h[(n + a) + 1][n] = h[n + a][n]
        <4>1. n + a \in Stays  BY <1>8, <3>1
        <4> QED  BY <3>1, <4>1
      <3> QED  BY <2>2, <3>1, <3>2
    <2>3. Nat \subseteq Same
      <3> HIDE DEF Same
      <3> QED  BY <2>1, <2>2, AllNaturals
    <2> QED  BY <2>3
  <1> DEFINE f == [n \in Nat |-> h[n][n]]
  <1>10. f \in [Nat -> S]  BY <1>4
  <1>11. ASSUME NEW n \in Nat
         PROVE  f[n] = IF n < d THEN base[n] ELSE step[<<n, f[n - d]>>]
    <2>1. f[n] = h[n][n]  OBVIOUS
    <2>2. h[n + 1][n] = h[n][n]  BY <1>9
    <2>3. h[n + 1][n] = IF n < d THEN base[n] ELSE step[<<n, h[n][n - d]>>]  BY <1>5
    <2>4. ASSUME ~(n < d) PROVE h[n][n - d] = f[n - d]
      <3>1. n - d \in Nat /\ (n - d) + d = n  BY <2>4
      <3>2. h[(n - d) + d][n - d] = h[n - d][n - d]  BY <1>9, <3>1
      <3> QED  BY <3>1, <3>2
    <2> HIDE DEF f
    <2> QED  BY <2>1, <2>2, <2>3, <2>4
  <1> HIDE DEF f
  <1> QED  BY <1>10, <1>11 DEF Descends

\* h begins with a and goes on by a step that may differ at each number.
Follows(h, a, n, step) ==
    h = [k \in 0..n |-> IF k = 0 THEN a ELSE step[<<k, h[k - 1]>>]]

\* A function on 0..n by recursion, with a step that may differ at each number:
\* its values are of the set that the steps do not leave.
LEMMA Stepwise ==
    ASSUME NEW S, NEW a \in S, NEW n \in Nat, NEW step,
           \A k \in 1..n, x \in S : step[<<k, x>>] \in S
    PROVE  \E h \in [0..n -> S] : Follows(h, a, n, step)
  <1> DEFINE To(h, m) == /\ h \in [0..m -> S] /\ h[0] = a
                         /\ \A k \in 1..m : h[k] = step[<<k, h[k - 1]>>]
             Reached == {m \in Nat : m <= n => \E h : To(h, m)}
  <1>1. 0 \in Reached
    <2>1. To([k \in 0..0 |-> a], 0)  OBVIOUS
    <2> QED  BY <2>1
  <1>2. ASSUME NEW m \in Nat, m \in Reached PROVE m + 1 \in Reached
    <2> SUFFICES ASSUME m + 1 <= n PROVE \E h : To(h, m + 1)  OBVIOUS
    <2>1. PICK h : To(h, m)  BY <1>2
    <2> DEFINE g == [k \in 0..(m + 1) |-> IF k = m + 1 THEN step[<<k, h[m]>>] ELSE h[k]]
    <2>2. step[<<m + 1, h[m]>>] \in S  BY <2>1
    <2>3. g \in [0..(m + 1) -> S] /\ g[0] = a  BY <2>1, <2>2
    <2>4. ASSUME NEW k \in 1..(m + 1) PROVE g[k] = step[<<k, g[k - 1]>>]
      <3>1. k - 1 \in 0..m /\ g[k - 1] = h[k - 1]  OBVIOUS
      <3>2. CASE k = m + 1  BY <3>1, <3>2
      <3>3. CASE k # m + 1  BY <2>1, <3>1, <3>3
      <3> QED  BY <3>2, <3>3
    <2>5. To(g, m + 1)  BY <2>3, <2>4
    <2> HIDE DEF To, g
    <2> QED  BY <2>5
  <1>3. Nat \subseteq Reached
    <2> HIDE DEF Reached
    <2> QED  BY <1>1, <1>2, AllNaturals
  <1>4. PICK h : To(h, n)
    <2>1. n \in Reached /\ n <= n  BY <1>3
    <2> QED  BY <2>1
  <1>5. ASSUME NEW k \in 0..n
        PROVE  h[k] = IF k = 0 THEN a ELSE step[<<k, h[k - 1]>>]
    BY <1>4
  <1>6. h = [k \in 0..n |-> h[k]]  BY <1>4
  <1>7. h = [k \in 0..n |-> IF k = 0 THEN a ELSE step[<<k, h[k - 1]>>]]
    <2> HIDE DEF To
    <2> QED  BY ONLY <1>5, <1>6
  <1> QED  BY <1>4, <1>7 DEF Follows

----------------------------------------------------------------------------
(* Sequences.                                                              *)

LEMMA SameSequence ==
    ASSUME NEW S, NEW s \in Seq(S), NEW t \in Seq(S),
           Len(s) = Len(t), \A i \in 1..Len(s) : s[i] = t[i]
    PROVE  s = t
  BY SeqEqual

LEMMA Joined ==
    ASSUME NEW S, NEW s \in Seq(S), NEW t \in Seq(S)
    PROVE  /\ s \o t \in Seq(S) /\ Len(s \o t) = Len(s) + Len(t)
           /\ \A i \in 1..Len(s) : (s \o t)[i] = s[i]
           /\ \A i \in 1..Len(t) : (s \o t)[Len(s) + i] = t[i]
  <1>1. Len(s) \in Nat /\ Len(t) \in Nat  OBVIOUS
  <1>2. /\ s \o t \in Seq(S) /\ Len(s \o t) = Len(s) + Len(t)
        /\ \A i \in 1..Len(s) + Len(t) :
              (s \o t)[i] = IF i <= Len(s) THEN s[i] ELSE t[i - Len(s)]
    BY ConcatProperties
  <1> QED  BY <1>1, <1>2

LEMMA JoinIs ==
    ASSUME NEW S, NEW s \in Seq(S), NEW t \in Seq(S), NEW z \in Seq(S),
           Len(z) = Len(s) + Len(t),
           \A i \in 1..Len(s) : z[i] = s[i],
           \A i \in 1..Len(t) : z[Len(s) + i] = t[i]
    PROVE  s \o t = z
  <1>1. Len(s) \in Nat /\ Len(t) \in Nat  OBVIOUS
  <1>2. /\ s \o t \in Seq(S) /\ Len(s \o t) = Len(s) + Len(t)
        /\ \A i \in 1..Len(s) : (s \o t)[i] = s[i]
        /\ \A i \in 1..Len(t) : (s \o t)[Len(s) + i] = t[i]
    BY Joined
  <1> DEFINE j == s \o t
  <1>3. j \in Seq(S) /\ Len(j) = Len(z)  BY <1>2
  <1>4. ASSUME NEW i \in 1..Len(j) PROVE j[i] = z[i]
    <2>1. CASE i <= Len(s)
      <3>1. i \in 1..Len(s)  BY <1>1, <2>1
      <3> QED  BY <1>2, <3>1
    <2>2. CASE ~(i <= Len(s))
      <3>1. i - Len(s) \in 1..Len(t) /\ Len(s) + (i - Len(s)) = i
        BY <1>1, <1>2, <2>2
      <3> DEFINE k == i - Len(s)
      <3>2. z[Len(s) + k] = t[k] /\ j[Len(s) + k] = t[k]  BY <1>2, <3>1
      <3> QED  BY <3>1, <3>2
    <2> QED  BY <2>1, <2>2
  <1> HIDE DEF j
  <1>5. j = z  BY <1>3, <1>4, SameSequence
  <1> QED  BY <1>5 DEF j

LEMMA Part ==
    ASSUME NEW S, NEW s \in Seq(S), NEW m \in Nat, NEW n \in Nat, m <= n, n <= Len(s)
    PROVE  /\ SubSeq(s, m + 1, n) \in Seq(S) /\ Len(SubSeq(s, m + 1, n)) = n - m
           /\ \A i \in 1..(n - m) : SubSeq(s, m + 1, n)[i] = s[m + i]
  <1>1. \A i \in (m + 1)..n : s[i] \in S  OBVIOUS
  <1>2. /\ SubSeq(s, m + 1, n) \in Seq(S)
        /\ Len(SubSeq(s, m + 1, n)) = IF m + 1 <= n THEN n - (m + 1) + 1 ELSE 0
        /\ \A i \in 1..(n - (m + 1) + 1) : SubSeq(s, m + 1, n)[i] = s[m + 1 + i - 1]
    BY <1>1, SubSeqProperties
  <1> QED  BY <1>2

LEMMA Suffix ==
    ASSUME NEW S, NEW s \in Seq(S), NEW m \in Nat, m <= Len(s)
    PROVE  /\ SubSeq(s, m + 1, Len(s)) \in Seq(S)
           /\ Len(SubSeq(s, m + 1, Len(s))) = Len(s) - m
           /\ \A i \in 1..(Len(s) - m) : SubSeq(s, m + 1, Len(s))[i] = s[m + i]
  <1>1. Len(s) \in Nat /\ Len(s) <= Len(s)  OBVIOUS
  <1> QED  BY <1>1, Part

LEMMA WiderSequence ==
    ASSUME NEW S, NEW T, NEW s \in Seq(S), S \subseteq T
    PROVE  s \in Seq(T)
  BY SeqMonotonic

LEMMA FunctionIsSequence ==
    ASSUME NEW S, NEW n \in Nat, NEW f \in [1..n -> S]
    PROVE  f \in Seq(S) /\ Len(f) = n
  OBVIOUS
=============================================================================
