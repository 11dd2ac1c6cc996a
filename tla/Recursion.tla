------------------------------ MODULE Recursion -----------------------------
(***************************************************************************)
(* Induction over the natural numbers and what it says of functions that   *)
(* are defined by recursion.  The facts are stated with sets and functions *)
(* in place of operators, so that every prover can use them.               *)
(***************************************************************************)
EXTENDS Integers, Sequences, SequencesExt, ListOps, SequenceTheorems,
        WellFoundedInduction, TLAPS

\* A set of natural numbers has a least element.
LEMMA LeastElement ==
    ASSUME NEW T, T \subseteq Nat, T # {}
    PROVE  \E x \in T : \A y \in T : x <= y
<1> DEFINE R == {p \in Nat \X Nat : p[1] < p[2]}
<1>1. IsWellFoundedOn(R, Nat)
  BY NatLessThanWellFounded DEF OpToRel
<1>2. PICK x \in T : \A y \in T : <<y, x>> \notin R
  BY <1>1, WFMin
<1>3. ASSUME NEW y \in T PROVE x <= y
  <2>1. <<y, x>> \in Nat \X Nat /\ <<y, x>>[1] = y /\ <<y, x>>[2] = x
    OBVIOUS
  <2>2. ~(y < x)
    BY <1>2, <2>1
  <2> QED
    BY <2>2
<1> QED
  BY <1>3

\* What holds of 0, and of n + 1 if it holds of n, holds of every number.
LEMMA Induction ==
    ASSUME NEW S, 0 \in S, \A n \in Nat : n \in S => n + 1 \in S
    PROVE  \A n \in Nat : n \in S
<1> SUFFICES ASSUME NEW n \in Nat, n \notin S PROVE FALSE
  OBVIOUS
<1> DEFINE T == {m \in Nat : m \notin S}
<1>1. PICK x \in T : \A y \in T : x <= y
  BY LeastElement
<1>2. x # 0 /\ x - 1 \in Nat /\ x - 1 \notin T
  BY <1>1
<1> QED
  BY <1>1, <1>2

\* The same up to a bound.
LEMMA IntervalInduction ==
    ASSUME NEW n \in Nat, NEW S, 0 \in S, \A k \in 1..n : k - 1 \in S => k \in S
    PROVE  \A k \in 0..n : k \in S
<1> DEFINE T == {k \in Nat : k <= n => k \in S}
<1>1. 0 \in T
  OBVIOUS
<1>2. ASSUME NEW k \in Nat, k \in T PROVE k + 1 \in T
  <2>1. CASE k + 1 <= n
    <3>1. k + 1 \in 1..n /\ (k + 1) - 1 = k /\ k \in S
      BY <1>2, <2>1
    <3> QED
      BY <3>1
  <2>2. CASE ~(k + 1 <= n)
    BY <2>2
  <2> QED
    BY <2>1, <2>2
<1>3. \A k \in Nat : k \in T
  BY <1>1, <1>2, Induction
<1> QED
  BY <1>3

\* The function f on 0..n has the value m at 0, and its value at k is given by
\* k and its value at k - 1.
Iterates(f, S, g, m, n) ==
    /\ f \in [0..n -> S]
    /\ f[0] = m
    /\ \A k \in 1..n : f[k] = g[<<k, f[k - 1]>>]

\* Such a function exists.
LEMMA Iteration ==
    ASSUME NEW S, NEW g \in [Nat \X S -> S], NEW m \in S, NEW n \in Nat
    PROVE  \E f : Iterates(f, S, g, m, n)
<1> DEFINE P(i) == \E f : Iterates(f, S, g, m, i)
           T == {i \in Nat : P(i)}
<1>1. P(0)
  <2> DEFINE c == [k \in 0..0 |-> m]
  <2>1. c \in [0..0 -> S] /\ c[0] = m /\ \A k \in 1..0 : c[k] = g[<<k, c[k - 1]>>]
    OBVIOUS
  <2>2. Iterates(c, S, g, m, 0)
    BY <2>1 DEF Iterates
  <2> QED
    BY <2>2
<1>2. ASSUME NEW i \in Nat, i \in T PROVE i + 1 \in T
  <2>1. PICK f : Iterates(f, S, g, m, i)
    BY <1>2
  <2> DEFINE h == [k \in 0..(i + 1) |-> IF k = i + 1 THEN g[<<k, f[i]>>] ELSE f[k]]
  <2>2. f[i] \in S /\ <<i + 1, f[i]>> \in Nat \X S
    BY <2>1 DEF Iterates
  <2>3. h \in [0..(i + 1) -> S]
    BY <2>1, <2>2 DEF Iterates
  <2>4. h[0] = m
    BY <2>1 DEF Iterates
  <2>5. \A k \in 1..(i + 1) : h[k] = g[<<k, h[k - 1]>>]
    BY <2>1 DEF Iterates
  <2>6. Iterates(h, S, g, m, i + 1)
    BY <2>3, <2>4, <2>5 DEF Iterates
  <2> QED
    BY <2>6
<1>3. \A i \in Nat : i \in T
  <2>1. 0 \in T
    BY <1>1
  <2> QED
    BY <2>1, <1>2, Induction
<1> QED
  BY <1>3

-----------------------------------------------------------------------------
(* Sums                                                                    *)

\* What the recursive function of Total is.
LEMMA PrefixSums ==
    ASSUME NEW v \in Seq(Nat)
    PROVE  \E f \in [0..Len(v) -> Nat] :
              /\ f[0] = 0
              /\ \A k \in 1..Len(v) : f[k] = f[k - 1] + v[k]
              /\ f[Len(v)] = Total(v)
<1> DEFINE upto == CHOOSE f : f = [n \in 0..Len(v) |-> IF n = 0 THEN 0 ELSE f[n - 1] + v[n]]
           g == [x \in Nat \X Nat |-> IF x[1] \in 1..Len(v) THEN x[2] + v[x[1]] ELSE 0]
<1>1. g \in [Nat \X Nat -> Nat]
  OBVIOUS
<1>2. Len(v) \in Nat /\ v \in [1..Len(v) -> Nat]
  OBVIOUS
<1>3. \E f : Iterates(f, Nat, g, 0, Len(v))
  <2> HIDE DEF g, upto
  <2> QED
    BY <1>1, <1>2, Iteration
<1>4. PICK f : Iterates(f, Nat, g, 0, Len(v))
  BY <1>3
<1>f. /\ f \in [0..Len(v) -> Nat]
      /\ f[0] = 0
      /\ \A k \in 1..Len(v) : f[k] = g[<<k, f[k - 1]>>]
  <2> HIDE DEF g, upto
  <2> QED
    BY <1>4 DEF Iterates
<1>5. ASSUME NEW k \in 1..Len(v) PROVE f[k] = f[k - 1] + v[k]
  <2>1. k \in Nat /\ k - 1 \in 0..Len(v)
    BY <1>2
  <2>2. f[k - 1] \in Nat
    BY <1>f, <2>1, SMTT(20)
  <2>3. <<k, f[k - 1]>> \in Nat \X Nat
    BY <2>1, <2>2
  <2> QED
    BY <1>f, <2>3
<1>6. f = [n \in 0..Len(v) |-> IF n = 0 THEN 0 ELSE f[n - 1] + v[n]]
  BY <1>2, <1>f, <1>5
<1>7. upto = [n \in 0..Len(v) |-> IF n = 0 THEN 0 ELSE upto[n - 1] + v[n]]
  BY <1>6
<1>8. Total(v) = upto[Len(v)]
  BY DEF Total
<1>9. \A k \in 0..Len(v) : upto[k] = f[k]
  <2> DEFINE S == {k \in 0..Len(v) : upto[k] = f[k]}
  <2>1. 0 \in S
    <3> HIDE DEF upto
    <3>1. upto[0] = 0 /\ 0 \in 0..Len(v)
      BY <1>2, <1>7
    <3> QED
      BY <1>f, <3>1
  <2>2. ASSUME NEW k \in 1..Len(v), k - 1 \in S PROVE k \in S
    <3>1. k \in 0..Len(v) /\ k # 0
      BY <1>2
    <3>2. upto[k] = upto[k - 1] + v[k]
      BY <1>7, <3>1
    <3>3. upto[k - 1] = f[k - 1]
      BY <2>2
    <3> QED
      BY <1>5, <3>1, <3>2, <3>3
  <2>3. \A k \in 0..Len(v) : k \in S
    <3> HIDE DEF S
    <3> QED
      BY <1>2, <2>1, <2>2, IntervalInduction
  <2> QED
    BY <2>3
<1>10. f[Len(v)] = Total(v)
  BY <1>2, <1>8, <1>9
<1> QED
  BY <1>f, <1>5, <1>10

\* One more number adds itself to the sum.
LEMMA SumAppend ==
    ASSUME NEW v \in Seq(Nat), NEW x \in Nat
    PROVE  Total(Append(v, x)) = Total(v) + x /\ Total(v) \in Nat
<1>0. PICK w : w = Append(v, x)
  OBVIOUS
<1>1. w \in Seq(Nat) /\ Len(w) = Len(v) + 1 /\ Len(v) \in Nat
      /\ w[Len(w)] = x /\ \A k \in 1..Len(v) : w[k] = v[k]
  BY <1>0
<1>2. PICK f \in [0..Len(v) -> Nat] :
              /\ f[0] = 0
              /\ \A k \in 1..Len(v) : f[k] = f[k - 1] + v[k]
              /\ f[Len(v)] = Total(v)
  BY PrefixSums
<1>3. PICK h \in [0..Len(w) -> Nat] :
              /\ h[0] = 0
              /\ \A k \in 1..Len(w) : h[k] = h[k - 1] + w[k]
              /\ h[Len(w)] = Total(w)
  BY <1>1, PrefixSums
<1>4. \A k \in 0..Len(v) : h[k] = f[k]
  <2> DEFINE S == {k \in 0..Len(v) : h[k] = f[k]}
  <2>1. 0 \in S
    BY <1>1, <1>2, <1>3
  <2>2. ASSUME NEW k \in 1..Len(v), k - 1 \in S PROVE k \in S
    <3>1. k \in 1..Len(w) /\ k \in 0..Len(v)
      BY <1>1
    <3> QED
      BY <1>1, <1>2, <1>3, <2>2, <3>1
  <2>3. \A k \in 0..Len(v) : k \in S
    <3> HIDE DEF S
    <3> QED
      BY <1>1, <2>1, <2>2, IntervalInduction
  <2> QED
    BY <2>3
<1>5. Len(w) \in 1..Len(w) /\ Len(w) - 1 = Len(v) /\ Len(v) \in 0..Len(v)
  BY <1>1
<1>6. h[Len(w)] = h[Len(v)] + x
  BY <1>1, <1>3, <1>5
<1>7. h[Len(v)] = f[Len(v)] /\ f[Len(v)] \in Nat
  BY <1>4, <1>5
<1> QED
  BY <1>0, <1>2, <1>3, <1>6, <1>7

\* The sum of no numbers, and of numbers that are all 0.
LEMMA SumZero ==
    ASSUME NEW v \in Seq(Nat), \A i \in 1..Len(v) : v[i] = 0
    PROVE  Total(v) = 0
<1>1. Len(v) \in Nat
  OBVIOUS
<1>2. PICK f \in [0..Len(v) -> Nat] :
              /\ f[0] = 0
              /\ \A k \in 1..Len(v) : f[k] = f[k - 1] + v[k]
              /\ f[Len(v)] = Total(v)
  BY PrefixSums
<1> DEFINE S == {k \in 0..Len(v) : f[k] = 0}
<1>3. 0 \in S
  BY <1>1, <1>2
<1>4. ASSUME NEW k \in 1..Len(v), k - 1 \in S PROVE k \in S
  <2>1. k \in 0..Len(v) /\ f[k - 1] = 0 /\ v[k] = 0
    BY <1>1, <1>4
  <2> QED
    BY <1>2, <2>1
<1>5. \A k \in 0..Len(v) : k \in S
  <2> HIDE DEF S
  <2> QED
    BY <1>1, <1>3, <1>4, IntervalInduction
<1> QED
  BY <1>1, <1>2, <1>5

-----------------------------------------------------------------------------
(* Lists                                                                   *)

\* The sequence s lists the members of S, each one once.
Lists(s, S) == IsInjective(s) /\ ToSet(s) = S

\* An element leaves a list.
LEMMA UnlinkedLists ==
    ASSUME NEW T, NEW s \in Seq(T), NEW S, Lists(s, S), NEW w \in S
    PROVE  Unlinked(s, w) \in Seq(T) /\ Lists(Unlinked(s, w), S \ {w})
           /\ Len(Unlinked(s, w)) = Len(s) - 1
<1>1. IsInjective(s) /\ ToSet(s) = S
  BY DEF Lists
<1>2. PICK i \in DOMAIN s :
         s[i] = w /\ Unlinked(s, w) = SubSeq(s, 1, i - 1) \o SubSeq(s, i + 1, Len(s))
  BY <1>1 DEF ToSet, Unlinked
<1>3. PICK n \in Nat : n = Len(s) /\ DOMAIN s = 1..n
  OBVIOUS
<1>4. i \in 1..n
  BY <1>2, <1>3
<1>5. PICK u : u = SubSeq(s, 1, i - 1) \o SubSeq(s, i + 1, Len(s))
  OBVIOUS
<1>6. /\ u \in Seq(T) /\ Len(u) = n - 1
      /\ \A j \in 1..(n - 1) : u[j] = IF j < i THEN s[j] ELSE s[j + 1]
  <2>1. PICK a : a = SubSeq(s, 1, i - 1)
    OBVIOUS
  <2>2. PICK b : b = SubSeq(s, i + 1, n)
    OBVIOUS
  <2>3. a \in Seq(T) /\ Len(a) = i - 1 /\ \A j \in 1..(i - 1) : a[j] = s[j]
    BY <1>3, <1>4, <2>1
  <2>4. b \in Seq(T) /\ Len(b) = n - i /\ \A j \in 1..(n - i) : b[j] = s[i + j]
    BY <1>3, <1>4, <2>2
  <2>5. u = a \o b
    BY <1>3, <1>5, <2>1, <2>2
  <2>6. u \in Seq(T) /\ Len(u) = n - 1
    BY <1>3, <1>4, <2>3, <2>4, <2>5
  <2>7. ASSUME NEW j \in 1..(n - 1) PROVE u[j] = IF j < i THEN s[j] ELSE s[j + 1]
    <3>1. CASE j < i
      BY <1>3, <1>4, <2>3, <2>4, <2>5, <3>1
    <3>2. CASE ~(j < i)
      <4>1. j - Len(a) \in 1..(n - i) /\ i + (j - Len(a)) = j + 1
        BY <1>3, <1>4, <2>3, <3>2
      <4>2. j \in 1..(Len(a) + Len(b)) /\ ~(j <= Len(a))
        BY <1>3, <1>4, <2>3, <2>4, <3>2
      <4>3. u[j] = b[j - Len(a)]
        BY <2>3, <2>4, <2>5, <4>2, ConcatProperties
      <4> QED
        BY <2>4, <3>2, <4>1, <4>3
    <3> QED
      BY <3>1, <3>2
  <2> QED
    BY <2>6, <2>7
<1>7. DOMAIN u = 1..(n - 1)
  BY <1>3, <1>6
<1>8. IsInjective(u)
  <2> SUFFICES ASSUME NEW a \in 1..(n - 1), NEW b \in 1..(n - 1), u[a] = u[b] PROVE a = b
    BY <1>7 DEF IsInjective
  <2>1. PICK x \in 1..n : u[a] = s[x] /\ (x = IF a < i THEN a ELSE a + 1)
    BY <1>3, <1>6
  <2>2. PICK y \in 1..n : u[b] = s[y] /\ (y = IF b < i THEN b ELSE b + 1)
    BY <1>3, <1>6
  <2>3. x = y
    BY <1>1, <1>3, <2>1, <2>2 DEF IsInjective
  <2> QED
    BY <1>3, <1>4, <2>1, <2>2, <2>3
<1>9. ToSet(u) = S \ {w}
  <2>1. ASSUME NEW a \in 1..(n - 1) PROVE u[a] \in S \ {w}
    <3>1. PICK x \in 1..n : u[a] = s[x] /\ (x = IF a < i THEN a ELSE a + 1)
      BY <1>3, <1>6
    <3>2. x # i
      BY <1>3, <1>4, <3>1
    <3>3. s[x] # s[i] /\ s[x] \in ToSet(s)
      BY <1>1, <1>3, <3>2 DEF IsInjective, ToSet
    <3> QED
      BY <1>1, <1>2, <3>1, <3>3
  <2>2. ASSUME NEW v \in S \ {w} PROVE \E a \in 1..(n - 1) : u[a] = v
    <3>1. PICK x \in 1..n : s[x] = v
      BY <1>1, <1>3 DEF ToSet
    <3>2. x # i
      BY <1>2, <3>1
    <3>3. CASE x < i
      <4>1. x \in 1..(n - 1) /\ u[x] = s[x]
        BY <1>3, <1>4, <1>6, <3>3
      <4> QED
        BY <3>1, <4>1
    <3>4. CASE x > i
      <4>1. x - 1 \in 1..(n - 1) /\ ~(x - 1 < i) /\ (x - 1) + 1 = x
        BY <1>3, <1>4, <3>4
      <4>2. u[x - 1] = s[x]
        BY <1>6, <4>1
      <4> QED
        BY <3>1, <4>1, <4>2
    <3> QED
      BY <1>3, <1>4, <3>2, <3>3, <3>4
  <2> QED
    BY <1>7, <2>1, <2>2 DEF ToSet
<1> QED
  BY <1>2, <1>3, <1>5, <1>6, <1>8, <1>9 DEF Lists

\* An element is put in front of a list.
LEMMA LinkedLists ==
    ASSUME NEW T, NEW s \in Seq(T), NEW S, Lists(s, S), NEW w \in T, w \notin S
    PROVE  <<w>> \o s \in Seq(T) /\ Lists(<<w>> \o s, S \cup {w})
<1>1. IsInjective(s) /\ ToSet(s) = S
  BY DEF Lists
<1>2. PICK n \in Nat : n = Len(s) /\ DOMAIN s = 1..n
  OBVIOUS
<1>3. PICK u : u = <<w>> \o s
  OBVIOUS
<1>4. /\ u \in Seq(T) /\ Len(u) = n + 1 /\ u[1] = w
      /\ \A j \in 1..n : u[j + 1] = s[j]
  BY <1>2, <1>3
<1>5. DOMAIN u = 1..(n + 1)
  BY <1>2, <1>4
<1>6. \A a \in 1..(n + 1) : a # 1 => a - 1 \in 1..n /\ u[a] = s[a - 1] /\ s[a - 1] \in S
  <2> SUFFICES ASSUME NEW a \in 1..(n + 1), a # 1
               PROVE  a - 1 \in 1..n /\ u[a] = s[a - 1] /\ s[a - 1] \in S
    OBVIOUS
  <2>1. a - 1 \in 1..n /\ (a - 1) + 1 = a
    BY <1>2
  <2> QED
    BY <1>1, <1>2, <1>4, <2>1 DEF ToSet
<1>7. IsInjective(u)
  <2> SUFFICES ASSUME NEW a \in 1..(n + 1), NEW b \in 1..(n + 1), u[a] = u[b] PROVE a = b
    BY <1>5 DEF IsInjective
  <2>1. a = 1 <=> b = 1
    BY <1>4, <1>6
  <2>2. CASE a # 1
    <3>1. s[a - 1] = s[b - 1] /\ a - 1 \in 1..n /\ b - 1 \in 1..n
      BY <1>6, <2>1, <2>2
    <3>2. a - 1 = b - 1
      BY <1>1, <1>2, <3>1 DEF IsInjective
    <3> QED
      BY <3>2
  <2> QED
    BY <2>1, <2>2
<1>8. ToSet(u) = S \cup {w}
  <2>1. \A a \in 1..(n + 1) : u[a] \in S \cup {w}
    BY <1>4, <1>6
  <2>2. ASSUME NEW v \in S PROVE \E a \in 1..(n + 1) : u[a] = v
    <3>1. PICK x \in 1..n : s[x] = v
      BY <1>1, <1>2 DEF ToSet
    <3>2. x + 1 \in 1..(n + 1) /\ u[x + 1] = v
      BY <1>2, <1>4, <3>1
    <3> QED
      BY <3>2
  <2>3. \E a \in 1..(n + 1) : u[a] = w
    BY <1>2, <1>4
  <2> QED
    BY <1>5, <2>1, <2>2, <2>3 DEF ToSet
<1> QED
  BY <1>3, <1>4, <1>7, <1>8 DEF Lists

\* The first element of a list.
LEMMA HeadListed ==
    ASSUME NEW T, NEW s \in Seq(T), NEW S, Lists(s, S), Len(s) # 0
    PROVE  Head(s) \in S
<1>1. 1 \in DOMAIN s /\ Head(s) = s[1]
  OBVIOUS
<1> QED
  BY <1>1 DEF Lists, ToSet
=============================================================================
