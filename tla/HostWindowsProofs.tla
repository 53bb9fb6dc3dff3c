---------------------------- MODULE HostWindowsProofs ----------------------------
(***************************************************************************)
(* Theorems about HostWindows, for any number of windows, hosts, folders   *)
(* and contents of the configuration files.                                *)
(***************************************************************************)
EXTENDS HostWindows, FiniteSetTheorems, SequenceTheorems, WellFoundedInduction, TLAPS

-----------------------------------------------------------------------------
(***************************************************************************)
(* Folds: the hosts of a configuration, and a history without one of its   *)
(* locations.  Induction is done over sets of numbers.                     *)
(***************************************************************************)

LEMMA LeastNumber ==
    ASSUME NEW T \in SUBSET Nat, T # {}
    PROVE  \E n \in T : \A m \in T : n <= m
<1> DEFINE R == OpToRel(<, Nat)
<1>1. IsWellFoundedOn(R, Nat)
  BY NatLessThanWellFounded
<1>2. PICK n \in T : \A m \in T : <<m, n>> \notin R
  <2> HIDE DEF R
  <2> QED
    BY <1>1, WFMin
<1>3. \A m \in T : ~(m < n)
  BY <1>2 DEF OpToRel
<1> QED
  BY <1>3

LEMMA NumberInduction ==
    ASSUME NEW P, 0 \in P, \A n \in Nat : n \in P => n + 1 \in P
    PROVE  Nat \subseteq P
<1> SUFFICES ASSUME Nat \ P # {}
             PROVE  FALSE
  OBVIOUS
<1>1. PICK n \in Nat \ P : \A m \in Nat \ P : n <= m
  BY LeastNumber
<1>2. n # 0 /\ n - 1 \in Nat
  OBVIOUS
<1>3. n - 1 \in P
  BY <1>1, <1>2
<1> QED
  BY <1>2, <1>3

LEMMA MaxIs ==
    ASSUME NEW S \in SUBSET Int, NEW x \in S, \A y \in S : x >= y
    PROVE  Max(S) = x
<1>1. \A z \in S : (\A y \in S : z >= y) => z = x
  BY SMT
<1> QED
  BY <1>1 DEF Max

LEMMA MaxInSet ==
    ASSUME NEW n \in Nat, NEW s \in SUBSET (1..n), s # {}
    PROVE  Max(s) \in s
<1> DEFINE T == {n - i : i \in s}
<1>1. T \in SUBSET Nat /\ T # {}
  <2>1. \A i \in s : n - i \in Nat
    OBVIOUS
  <2>2. PICK i \in s : TRUE
    OBVIOUS
  <2>3. n - i \in T
    BY <2>2
  <2> QED
    BY <2>1, <2>3
<1>2. PICK m \in T : \A k \in T : m <= k
  BY <1>1, LeastNumber
<1>3. PICK x \in s : m = n - x
  OBVIOUS
<1>4. \A y \in s : x >= y
  <2> TAKE y \in s
  <2>1. n - y \in T
    OBVIOUS
  <2>2. n - x <= n - y
    BY <1>2, <1>3, <2>1
  <2>3. x \in Nat /\ y \in Nat
    OBVIOUS
  <2> QED
    BY <2>2, <2>3
<1>5. s \in SUBSET Int
  OBVIOUS
<1> QED
  BY <1>3, <1>4, <1>5, MaxIs

\* g is what a fold with the steps t[1], ..., t[k] defines on sets of positions.
FoldsBy(g, A, base, t, k) ==
    /\ g \in [SUBSET (1..k) -> A]
    /\ \A s \in SUBSET (1..k) : g[s] = IF s = {} THEN base ELSE t[Max(s)][g[s \ {Max(s)}]]

LEMMA FoldExists ==
    ASSUME NEW A, NEW base \in A, NEW n \in Nat, NEW t \in [1..n -> [A -> A]]
    PROVE  \E g : FoldsBy(g, A, base, t, n)
<1> DEFINE Folds(g, k) == FoldsBy(g, A, base, t, k)
           P == {k \in Nat : k <= n => \E g : Folds(g, k)}
<1> HIDE DEF Folds, FoldsBy
<1>1. 0 \in P
  <2> DEFINE g == [s \in SUBSET (1..0) |-> base]
  <2>1. \A s \in SUBSET (1..0) : s = {}
    OBVIOUS
  <2>2. Folds(g, 0)
    BY <2>1 DEF Folds, FoldsBy
  <2> QED
    BY <2>2
<1>2. ASSUME NEW k \in Nat, k \in P
      PROVE  k + 1 \in P
  <2> SUFFICES ASSUME k + 1 <= n
               PROVE  \E g : Folds(g, k + 1)
    OBVIOUS
  <2>1. PICK g : Folds(g, k)
    BY <1>2
  <2>2. t[k + 1] \in [A -> A]
    OBVIOUS
  <2> DEFINE h == [s \in SUBSET (1..(k + 1)) |->
                      IF k + 1 \in s THEN t[k + 1][g[s \ {k + 1}]] ELSE g[s]]
  <2>3. ASSUME NEW s \in SUBSET (1..(k + 1))
        PROVE  h[s] \in A /\ h[s] = IF s = {} THEN base ELSE t[Max(s)][h[s \ {Max(s)}]]
    <3>1. CASE k + 1 \in s
      <4>1. Max(s) = k + 1
        <5>1. s \in SUBSET Int /\ \A y \in s : k + 1 >= y
          OBVIOUS
        <5> QED
          BY <3>1, <5>1, MaxIs
      <4>2. s \ {k + 1} \in SUBSET (1..k)
        OBVIOUS
      <4>3. g[s \ {k + 1}] \in A
        BY <2>1, <4>2 DEF Folds, FoldsBy
      <4>4. h[s \ {k + 1}] = g[s \ {k + 1}]
        OBVIOUS
      <4>5. h[s] = t[k + 1][g[s \ {k + 1}]]
        BY <3>1
      <4> HIDE DEF h
      <4> QED
        BY <2>2, <3>1, <4>1, <4>3, <4>4, <4>5
    <3>2. CASE k + 1 \notin s
      <4>1. s \in SUBSET (1..k)
        <5>1. \A i \in s : i \in 1..k
          BY <3>2
        <5> QED
          BY <5>1
      <4>2. h[s] = g[s] /\ h[s \ {Max(s)}] = g[s \ {Max(s)}]
        BY <3>2
      <4> HIDE DEF h
      <4> QED
        BY <2>1, <4>1, <4>2 DEF Folds, FoldsBy
    <3> QED
      BY <3>1, <3>2
  <2>4. Folds(h, k + 1)
    <3>1. h \in [SUBSET (1..(k + 1)) -> A]
      <4>1. \A s \in SUBSET (1..(k + 1)) : h[s] \in A
        BY <2>3
      <4>2. h = [s \in SUBSET (1..(k + 1)) |-> h[s]]
        OBVIOUS
      <4> HIDE DEF h
      <4> QED
        BY <4>1, <4>2
    <3> HIDE DEF h
    <3> QED
      BY <2>3, <3>1 DEF Folds, FoldsBy
  <2> QED
    BY <2>4
<1> HIDE DEF P
<1>3. n \in P
  <2>1. Nat \subseteq P
    BY <1>1, <1>2, NumberInduction
  <2> QED
    BY <2>1
<1>4. PICK g : Folds(g, n)
  BY <1>3 DEF P
<1> QED
  BY <1>4 DEF Folds

\* Where a fold over n positions goes through.
LEMMA FirstPositions ==
    ASSUME NEW n \in Nat, NEW i \in Nat, i + 1 <= n
    PROVE  /\ 1..(i + 1) \in SUBSET (1..n) /\ 1..(i + 1) # {}
           /\ Max(1..(i + 1)) = i + 1
           /\ (1..(i + 1)) \ {i + 1} = 1..i
<1>1. 1 \in 1..(i + 1) /\ \A j \in 1..(i + 1) : j \in 1..n
  OBVIOUS
<1>2. 1..(i + 1) \in SUBSET Int /\ i + 1 \in 1..(i + 1) /\ \A y \in 1..(i + 1) : i + 1 >= y
  OBVIOUS
<1>3. Max(1..(i + 1)) = i + 1
  BY <1>2, MaxIs
<1>4. (1..(i + 1)) \ {i + 1} = 1..i
  OBVIOUS
<1> QED
  BY <1>1, <1>3, <1>4

LEMMA RangeOfAppend ==
    ASSUME NEW S, NEW s \in Seq(S), NEW e \in S
    PROVE  /\ Append(s, e) \in Seq(S)
           /\ Range(Append(s, e)) = Range(s) \cup {e}
           /\ e \notin Range(s) /\ IsInjective(s) => IsInjective(Append(s, e))
<1>1. /\ Append(s, e) \in Seq(S) /\ DOMAIN s = 1..Len(s) /\ Len(s) \in Nat
      /\ DOMAIN Append(s, e) = 1..(Len(s) + 1)
      /\ Append(s, e)[Len(s) + 1] = e /\ \A i \in 1..Len(s) : Append(s, e)[i] = s[i]
  OBVIOUS
<1> DEFINE a == Append(s, e)
<1>2. /\ DOMAIN a = 1..(Len(s) + 1)
      /\ a[Len(s) + 1] = e /\ \A i \in 1..Len(s) : a[i] = s[i]
  BY <1>1
<1> HIDE DEF a
<1>3. Range(a) = Range(s) \cup {e}
  <2>1. \A i \in DOMAIN a : i \in DOMAIN s \/ i = Len(s) + 1
    BY <1>1, <1>2
  <2>2. \A i \in DOMAIN s : i \in DOMAIN a
    BY <1>1, <1>2
  <2>3. Len(s) + 1 \in DOMAIN a
    BY <1>1, <1>2
  <2> QED
    BY <1>1, <1>2, <2>1, <2>2, <2>3 DEF Range
<1>4. ASSUME e \notin Range(s), IsInjective(s)
      PROVE  IsInjective(a)
  <2> SUFFICES ASSUME NEW i \in DOMAIN a, NEW j \in DOMAIN a, a[i] = a[j]
               PROVE  i = j
    BY DEF IsInjective
  <2>1. \A k \in DOMAIN s : s[k] # e
    BY <1>4 DEF Range
  <2>2. \A k \in DOMAIN a : k \in DOMAIN s \/ k = Len(s) + 1
    BY <1>1, <1>2
  <2> QED
    BY <1>1, <1>2, <1>4, <2>1, <2>2 DEF IsInjective
<1> QED
  BY <1>1, <1>3, <1>4 DEF a

-----------------------------------------------------------------------------
(***************************************************************************)
(* Sequences of sequences in a row: what FlattenSeq returns.               *)
(***************************************************************************)

\* What FlattenSeq returns, one element after the other.
LEMMA FlattenIs ==
    ASSUME NEW S, NEW s \in Seq(Seq(S))
    PROVE  \E c \in [0..Len(s) -> Seq(S)] :
               /\ c[0] = <<>>
               /\ \A i \in Nat : i < Len(s) => c[i + 1] = c[i] \o s[i + 1]
               /\ FlattenSeq(s) = c[Len(s)]
<1> DEFINE n == Len(s)
           A == Seq(S)
           Sums(c, k) == /\ c \in [0..k -> A] /\ c[0] = <<>>
                         /\ \A i \in Nat : i < k => c[i + 1] = c[i] \o s[i + 1]
           P == {k \in Nat : k <= n => \E c : Sums(c, k)}
           Flattens(f) == f = [i \in 1..n |-> IF i = 1 THEN s[i] ELSE f[i - 1] \o s[i]]
           flatten == CHOOSE f : Flattens(f)
<1>1. n \in Nat /\ DOMAIN s = 1..n /\ \A i \in 1..n : s[i] \in A
  OBVIOUS
<1>2. <<>> \in A /\ \A a, b \in A : a \o b \in A
  OBVIOUS
<1>3. \A a \in A : <<>> \o a = a
  OBVIOUS
<1>4. FlattenSeq(s) = IF n = 0 THEN s ELSE flatten[n]
  BY DEF FlattenSeq
<1>5. n = 0 => s = <<>>
  OBVIOUS
<1> HIDE DEF n, A, Sums, Flattens
<1>6. 0 \in P
  <2>1. Sums([i \in 0..0 |-> <<>>], 0)
    BY <1>2 DEF Sums
  <2> QED
    BY <2>1
<1>7. ASSUME NEW k \in Nat, k \in P
      PROVE  k + 1 \in P
  <2> SUFFICES ASSUME k + 1 <= n
               PROVE  \E c : Sums(c, k + 1)
    OBVIOUS
  <2>1. PICK c : Sums(c, k)
    BY <1>1, <1>7
  <2> DEFINE x == c[k] \o s[k + 1]
             d == [i \in 0..(k + 1) |-> IF i = k + 1 THEN x ELSE c[i]]
  <2>2. x \in A
    <3>1. c[k] \in A /\ s[k + 1] \in A
      BY <1>1, <2>1 DEF Sums
    <3> QED
      BY <1>2, <3>1
  <2> HIDE DEF x
  <2>3. d \in [0..(k + 1) -> A] /\ d[0] = <<>>
    BY <2>1, <2>2 DEF Sums
  <2>4. d[k + 1] = x /\ \A i \in 0..k : d[i] = c[i]
    OBVIOUS
  <2> HIDE DEF d
  <2>5. ASSUME NEW i \in Nat, i < k + 1
        PROVE  d[i + 1] = d[i] \o s[i + 1]
    <3>1. CASE i = k
      <4>1. d[k] = c[k]
        BY <2>4
      <4>2. d[k + 1] = d[k] \o s[k + 1]
        BY <2>4, <4>1 DEF x
      <4> QED
        BY <3>1, <4>2
    <3>2. CASE i < k
      <4>1. c[i + 1] = c[i] \o s[i + 1]
        BY <2>1, <3>2 DEF Sums
      <4>2. i \in 0..k /\ i + 1 \in 0..k
        BY <3>2
      <4>3. d[i] = c[i] /\ d[i + 1] = c[i + 1]
        BY <2>4, <4>2
      <4> QED
        BY <4>1, <4>3
    <3>3. i = k \/ i < k
      BY <2>5
    <3> QED
      BY <3>1, <3>2, <3>3
  <2>6. Sums(d, k + 1)
    BY <2>3, <2>5 DEF Sums
  <2> QED
    BY <2>6
<1> HIDE DEF P
<1>8. n \in P
  <2>1. Nat \subseteq P
    BY <1>6, <1>7, NumberInduction
  <2> QED
    BY <1>1, <2>1
<1>9. PICK c : Sums(c, n)
  BY <1>1, <1>8 DEF P
<1>10. /\ c \in [0..n -> A] /\ c[0] = <<>>
       /\ \A i \in Nat : i < n => c[i + 1] = c[i] \o s[i + 1]
  BY <1>9 DEF Sums
<1>11. n >= 1 => c[1] = s[1]
  <2> SUFFICES ASSUME n >= 1 PROVE c[1] = s[1]
    OBVIOUS
  <2>1. PICK i \in Nat : i = 0 /\ i < n
    BY <1>1
  <2>3. c[i + 1] = c[i] \o s[i + 1]
    BY <1>10, <2>1
  <2>2. s[1] \in A
    BY <1>1
  <2>4. i + 1 = 1
    BY <2>1
  <2>5. c[1] = c[0] \o s[1]
    BY <2>1, <2>3, <2>4
  <2> QED
    BY <1>3, <1>10, <2>2, <2>5
<1>12. Flattens(flatten)
  <2> DEFINE f == [i \in 1..n |-> c[i]]
  <2>1. \A i \in 1..n : f[i] = IF i = 1 THEN s[i] ELSE f[i - 1] \o s[i]
    <3> TAKE i \in 1..n
    <3>1. CASE i = 1
      BY <1>1, <1>11, <3>1
    <3>2. CASE i # 1
      <4>1. PICK j \in Nat : i = j + 1 /\ j < n /\ j \in 1..n
        <5>1. i - 1 \in Nat /\ i = (i - 1) + 1 /\ i - 1 < n /\ i - 1 \in 1..n
          BY <1>1, <3>2
        <5> QED
          BY <5>1
      <4>2. c[i] = c[j] \o s[i]
        BY <1>10, <4>1
      <4>3. i - 1 = j
        BY <4>1
      <4> QED
        BY <3>2, <4>1, <4>2, <4>3
    <3> QED
      BY <3>1, <3>2
  <2>2. Flattens(f)
    BY <2>1 DEF Flattens
  <2> QED
    BY <2>2
<1> HIDE DEF flatten
<1>13. \A i \in 1..n : flatten[i] = IF i = 1 THEN s[i] ELSE flatten[i - 1] \o s[i]
  BY <1>12 DEF Flattens
<1> DEFINE Q == {k \in Nat : k < n => flatten[k + 1] = c[k + 1]}
<1>14. 0 \in Q
  <2>1. n >= 1 => flatten[1] = c[1]
    BY <1>1, <1>11, <1>13
  <2>2. 0 < n => flatten[0 + 1] = c[0 + 1]
    BY <1>1, <2>1
  <2> QED
    BY <2>2
<1>15. ASSUME NEW k \in Nat, k \in Q
       PROVE  k + 1 \in Q
  <2> SUFFICES ASSUME k + 1 < n PROVE flatten[(k + 1) + 1] = c[(k + 1) + 1]
    OBVIOUS
  <2>1. PICK j \in 1..n : j = (k + 1) + 1
    BY <1>1
  <2>2. j # 1 /\ j - 1 = k + 1
    BY <2>1
  <2>3. flatten[j] = flatten[k + 1] \o s[j]
    BY <1>13, <2>2
  <2>4. c[j] = c[k + 1] \o s[j]
    <3>1. PICK i \in Nat : i = k + 1 /\ i < n
      OBVIOUS
    <3>2. c[i + 1] = c[i] \o s[i + 1]
      BY <1>10, <3>1
    <3> QED
      BY <2>1, <3>1, <3>2
  <2>5. flatten[k + 1] = c[k + 1]
    BY <1>1, <1>15
  <2> QED
    BY <2>1, <2>3, <2>4, <2>5
<1> HIDE DEF Q
<1>16. FlattenSeq(s) = c[n]
  <2>1. CASE n = 0
    BY <1>4, <1>5, <1>10, <2>1
  <2>2. CASE n # 0
    <3>1. PICK k \in Nat : n = k + 1
      <4>1. n - 1 \in Nat /\ n = (n - 1) + 1
        BY <1>1, <2>2
      <4> QED
        BY <4>1
    <3>2. Nat \subseteq Q
      BY <1>14, <1>15, NumberInduction
    <3>3. flatten[n] = c[n]
      BY <3>1, <3>2 DEF Q
    <3> QED
      BY <1>4, <2>2, <3>3
  <2> QED
    BY <2>1, <2>2
<1> QED
  BY <1>10, <1>16 DEF n, A

LEMMA FlattenEmpty == FlattenSeq(<<>>) = <<>>
  BY DEF FlattenSeq

LEMMA FlattenAppend ==
    ASSUME NEW S, NEW s \in Seq(Seq(S)), NEW x \in Seq(S)
    PROVE  /\ FlattenSeq(s) \in Seq(S)
           /\ FlattenSeq(Append(s, x)) = FlattenSeq(s) \o x
<1> DEFINE n == Len(s)
           a == Append(s, x)
<1>1. n \in Nat
  OBVIOUS
<1>2. a \in Seq(Seq(S)) /\ Len(a) = n + 1 /\ a[n + 1] = x /\ \A i \in 1..n : a[i] = s[i]
  OBVIOUS
<1>3. PICK c \in [0..n -> Seq(S)] :
          /\ c[0] = <<>>
          /\ \A i \in Nat : i < n => c[i + 1] = c[i] \o s[i + 1]
          /\ FlattenSeq(s) = c[n]
  BY FlattenIs
<1> HIDE DEF a, n
<1>4. PICK d \in [0..(n + 1) -> Seq(S)] :
          /\ d[0] = <<>>
          /\ \A i \in Nat : i < n + 1 => d[i + 1] = d[i] \o a[i + 1]
          /\ FlattenSeq(a) = d[n + 1]
  <2>1. \E d \in [0..Len(a) -> Seq(S)] :
            /\ d[0] = <<>>
            /\ \A i \in Nat : i < Len(a) => d[i + 1] = d[i] \o a[i + 1]
            /\ FlattenSeq(a) = d[Len(a)]
    BY <1>2, FlattenIs
  <2> QED
    BY <1>2, <2>1
<1> DEFINE P == {k \in Nat : k <= n => d[k] = c[k]}
<1>5. 0 \in P
  BY <1>3, <1>4
<1>6. ASSUME NEW k \in Nat, k \in P
      PROVE  k + 1 \in P
  <2> SUFFICES ASSUME k + 1 <= n PROVE d[k + 1] = c[k + 1]
    OBVIOUS
  <2>1. k < n /\ k < n + 1 /\ k + 1 \in 1..n
    BY <1>1
  <2>2. d[k + 1] = d[k] \o a[k + 1] /\ c[k + 1] = c[k] \o s[k + 1] /\ a[k + 1] = s[k + 1]
    BY <1>2, <1>3, <1>4, <2>1
  <2>3. d[k] = c[k]
    BY <1>1, <1>6
  <2> QED
    BY <2>2, <2>3
<1> HIDE DEF P
<1>7. n \in P
  <2>1. Nat \subseteq P
    BY <1>5, <1>6, NumberInduction
  <2> QED
    BY <1>1, <2>1
<1>8. d[n] = c[n]
  BY <1>1, <1>7 DEF P
<1>9. d[n + 1] = d[n] \o x
  <2>1. n < n + 1
    BY <1>1
  <2> QED
    BY <1>1, <1>2, <1>4, <2>1
<1>10. c[n] \in Seq(S)
  BY <1>1, <1>3
<1> QED
  BY <1>3, <1>4, <1>8, <1>9, <1>10 DEF a

LEMMA SplitLast ==
    ASSUME NEW T, NEW t \in Seq(T), NEW k \in Nat, Len(t) = k + 1
    PROVE  \E r \in Seq(T), x \in T : t = Append(r, x) /\ Len(r) = k
<1> DEFINE r == [i \in 1..k |-> t[i]]
<1>1. t[k + 1] \in T /\ DOMAIN t = 1..(k + 1) /\ \A i \in 1..k : t[i] \in T
  OBVIOUS
<1>2. r \in Seq(T) /\ Len(r) = k
  BY <1>1
<1>3. t = Append(r, t[k + 1])
  BY <1>1, <1>2
<1> QED
  BY <1>1, <1>2, <1>3

LEMMA FlattenConcat ==
    ASSUME NEW S, NEW s \in Seq(Seq(S)), NEW t \in Seq(Seq(S))
    PROVE  FlattenSeq(s \o t) = FlattenSeq(s) \o FlattenSeq(t)
<1> DEFINE L == Seq(S)
           F(u) == FlattenSeq(u)
           P == {k \in Nat : \A u \in Seq(L) : Len(u) = k => F(s \o u) = F(s) \o F(u)}
<1>1. \A u \in Seq(L) : F(u) \in L /\ \A x \in L : F(Append(u, x)) = F(u) \o x
  <2> TAKE u \in Seq(L)
  <2>1. <<>> \in L
    OBVIOUS
  <2> QED
    BY <2>1, FlattenAppend
<1>2. F(<<>>) = <<>>
  BY FlattenEmpty
<1> HIDE DEF F
<1>3. 0 \in P
  <2> SUFFICES ASSUME NEW u \in Seq(L), Len(u) = 0
               PROVE  F(s \o u) = F(s) \o F(u)
    OBVIOUS
  <2>1. u = <<>> /\ s \o u = s
    OBVIOUS
  <2>2. F(s) \in L
    BY <1>1
  <2>3. F(s) \o <<>> = F(s)
    BY <2>2
  <2> QED
    BY <1>2, <2>1, <2>3
<1>4. ASSUME NEW k \in Nat, k \in P
      PROVE  k + 1 \in P
  <2> SUFFICES ASSUME NEW u \in Seq(L), Len(u) = k + 1
               PROVE  F(s \o u) = F(s) \o F(u)
    OBVIOUS
  <2>1. PICK r \in Seq(L), x \in L : u = Append(r, x) /\ Len(r) = k
    BY SplitLast
  <2>2. s \o u = Append(s \o r, x) /\ s \o r \in Seq(L)
    <3> HIDE DEF L
    <3>1. u = r \o <<x>> /\ <<x>> \in Seq(L)
      BY <2>1, AppendIsConcat
    <3>5. s \in Seq(L)
      BY DEF L
    <3>2. s \o r \in Seq(L)
      BY <2>1, <3>5
    <3>3. Append(s \o r, x) = (s \o r) \o <<x>>
      BY <3>2
    <3>4. (s \o r) \o <<x>> = s \o (r \o <<x>>)
      BY <2>1, <3>1, <3>5, ConcatAssociative
    <3> QED
      BY <3>1, <3>2, <3>3, <3>4
  <2>3. F(s \o u) = F(s \o r) \o x
    BY <1>1, <2>2
  <2>4. F(u) = F(r) \o x
    BY <1>1, <2>1
  <2>5. F(s \o r) = F(s) \o F(r)
    BY <1>4, <2>1
  <2>6. F(s) \in L /\ F(r) \in L
    BY <1>1, <2>1
  <2>7. (F(s) \o F(r)) \o x = F(s) \o (F(r) \o x)
    BY <2>1, <2>6, ConcatAssociative
  <2> QED
    BY <2>3, <2>4, <2>5, <2>7
<1> HIDE DEF P
<1>5. Len(t) \in P
  <2>1. Nat \subseteq P
    BY <1>3, <1>4, NumberInduction
  <2> QED
    BY <2>1
<1> QED
  BY <1>5 DEF P, F

LEMMA FlattenOne ==
    ASSUME NEW S, NEW x \in Seq(S)
    PROVE  FlattenSeq(<<x>>) = x
<1>1. <<>> \in Seq(Seq(S)) /\ <<x>> = Append(<<>>, x)
  OBVIOUS
<1>2. FlattenSeq(Append(<<>>, x)) = FlattenSeq(<<>>) \o x
  BY <1>1, FlattenAppend
<1>3. <<>> \o x = x
  OBVIOUS
<1> QED
  BY <1>1, <1>2, <1>3, FlattenEmpty

-----------------------------------------------------------------------------
(* The host names of lines *)

Name == Hostname \cup Pattern

Named(S) == \A line \in S : IsHostSection(line) => line.names[1] \in Name

\* The host names of a list of lines, patterns and repetitions included.
NameOf(line) == IF IsHostSection(line) THEN <<line.names[1]>> ELSE <<>>

Names(config) == FlattenSeq([i \in DOMAIN config |-> NameOf(config[i])])

LEMMA NamesConcat ==
    ASSUME NEW S, Named(S),
           NEW a \in Seq(S), NEW b \in Seq(S)
    PROVE  /\ Names(a) \in Seq(Name)
           /\ Names(a \o b) = Names(a) \o Names(b)
<1> DEFINE M(c) == [i \in DOMAIN c |-> NameOf(c[i])]
<1>1. \A x \in S : NameOf(x) \in Seq(Name)
  BY DEF NameOf, Named
<1>2. \A c \in Seq(S) : M(c) \in Seq(Seq(Name)) /\ Len(M(c)) = Len(c)
  <2> TAKE c \in Seq(S)
  <2>1. DOMAIN c = 1..Len(c) /\ Len(c) \in Nat /\ \A i \in 1..Len(c) : c[i] \in S
    OBVIOUS
  <2>2. \A i \in 1..Len(c) : NameOf(c[i]) \in Seq(Name)
    BY <1>1, <2>1
  <2> QED
    BY <2>1, <2>2
<1>3. Names(a) \in Seq(Name)
  BY <1>2, FlattenAppend DEF Names
<1>4. Names(a \o b) = Names(a) \o Names(b)
  <2>1. M(a \o b) = M(a) \o M(b)
    <3>1. /\ Len(a) \in Nat /\ Len(b) \in Nat /\ DOMAIN a = 1..Len(a) /\ DOMAIN b = 1..Len(b)
          /\ a \o b \in Seq(S) /\ Len(a \o b) = Len(a) + Len(b)
      OBVIOUS
    <3>2. /\ DOMAIN (a \o b) = 1..(Len(a) + Len(b))
          /\ \A i \in 1..(Len(a) + Len(b)) :
                (a \o b)[i] = IF i <= Len(a) THEN a[i] ELSE b[i - Len(a)]
      BY <3>1
    <3>3. M(a) \in Seq(Seq(Name)) /\ M(b) \in Seq(Seq(Name)) /\ M(a \o b) \in Seq(Seq(Name))
          /\ Len(M(a)) = Len(a) /\ Len(M(b)) = Len(b) /\ Len(M(a \o b)) = Len(a) + Len(b)
      BY <1>2, <3>1
    <3>4. /\ M(a) \o M(b) \in Seq(Seq(Name)) /\ Len(M(a) \o M(b)) = Len(a) + Len(b)
          /\ \A i \in 1..(Len(a) + Len(b)) :
                (M(a) \o M(b))[i] = IF i <= Len(a) THEN M(a)[i] ELSE M(b)[i - Len(a)]
      <4> DEFINE x == M(a)
                 y == M(b)
      <4>1. x \in Seq(Seq(Name)) /\ y \in Seq(Seq(Name)) /\ Len(x) = Len(a) /\ Len(y) = Len(b)
        BY <3>3
      <4> HIDE DEF x, y
      <4>2. /\ x \o y \in Seq(Seq(Name)) /\ Len(x \o y) = Len(x) + Len(y)
            /\ \A i \in 1..(Len(x) + Len(y)) :
                  (x \o y)[i] = IF i <= Len(x) THEN x[i] ELSE y[i - Len(x)]
        BY <4>1, ConcatProperties, Zenon
      <4> QED
        BY <4>1, <4>2 DEF x, y
    <3>5. ASSUME NEW i \in 1..(Len(a) + Len(b))
          PROVE  M(a \o b)[i] = (M(a) \o M(b))[i]
      <4>1. M(a \o b)[i] = NameOf((a \o b)[i])
        BY <3>2
      <4>2. CASE i <= Len(a)
        BY <3>1, <3>2, <3>4, <4>1, <4>2
      <4>3. CASE ~(i <= Len(a))
        <5>1. i - Len(a) \in DOMAIN b
          BY <3>1, <4>3
        <5>2. M(b)[i - Len(a)] = NameOf(b[i - Len(a)])
          BY <5>1
        <5> QED
          BY <3>2, <3>4, <4>1, <4>3, <5>2
      <4> QED
        BY <4>2, <4>3
    <3> HIDE DEF M
    <3> QED
      BY <3>3, <3>4, <3>5, SeqEqual
  <2>2. M(a) \in Seq(Seq(Name)) /\ M(b) \in Seq(Seq(Name))
    BY <1>2
  <2> HIDE DEF M
  <2>3. FlattenSeq(M(a) \o M(b)) = FlattenSeq(M(a)) \o FlattenSeq(M(b))
    BY <2>2, FlattenConcat
  <2> QED
    BY <2>1, <2>3 DEF Names, M
<1> QED
  BY <1>3, <1>4

LEMMA NamesAppend ==
    ASSUME NEW S, Named(S),
           NEW a \in Seq(S), NEW x \in S
    PROVE  /\ Names(a) \in Seq(Name) /\ NameOf(x) \in Seq(Name)
           /\ Names(Append(a, x)) = Names(a) \o NameOf(x)
<1>1. <<x>> \in Seq(S) /\ Append(a, x) = a \o <<x>>
  BY AppendIsConcat
<1>2. [i \in DOMAIN <<x>> |-> NameOf(<<x>>[i])] = <<NameOf(x)>>
  OBVIOUS
<1>3. NameOf(x) \in Seq(Name)
  BY DEF NameOf, Named
<1>4. Names(<<x>>) = NameOf(x)
  BY <1>2, <1>3, FlattenOne DEF Names
<1> DEFINE b == <<x>>
<1>5. b \in Seq(S)
  BY <1>1
<1> HIDE DEF b
<1>6. Names(a) \in Seq(Name) /\ Names(a \o b) = Names(a) \o Names(b)
  BY <1>5, NamesConcat
<1> QED
  BY <1>1, <1>3, <1>4, <1>6 DEF b

LEMMA NamesOfFlattened ==
    ASSUME NEW S, Named(S),
           NEW s \in Seq(Seq(S))
    PROVE  Names(FlattenSeq(s)) = FlattenSeq([i \in DOMAIN s |-> Names(s[i])])
<1> DEFINE L == Seq(S)
           M(u) == [i \in DOMAIN u |-> Names(u[i])]
           Same(u) == Names(FlattenSeq(u)) = FlattenSeq(M(u))
           P == {k \in Nat : \A u \in Seq(L) : Len(u) = k => Same(u)}
<1>1. /\ \A a \in L : Names(a) \in Seq(Name)
      /\ \A a, b \in L : Names(a \o b) = Names(a) \o Names(b)
  <2>1. ASSUME NEW a \in L, NEW b \in L
        PROVE  Names(a) \in Seq(Name) /\ Names(a \o b) = Names(a) \o Names(b)
    BY NamesConcat
  <2> QED
    BY <2>1
<1>2. \A u \in Seq(L) : M(u) \in Seq(Seq(Name)) /\ FlattenSeq(u) \in L
  <2> TAKE u \in Seq(L)
  <2>1. DOMAIN u = 1..Len(u) /\ Len(u) \in Nat /\ \A i \in 1..Len(u) : u[i] \in L
    BY DEF L
  <2>2. \A i \in 1..Len(u) : Names(u[i]) \in Seq(Name)
    BY <1>1, <2>1
  <2>3. FlattenSeq(u) \in L
    <3>1. <<>> \in L
      OBVIOUS
    <3> QED
      BY <3>1, FlattenAppend
  <2> HIDE DEF L
  <2> QED
    BY <2>1, <2>2, <2>3
<1>3. 0 \in P
  <2> SUFFICES ASSUME NEW u \in Seq(L), Len(u) = 0
               PROVE  Same(u)
    OBVIOUS
  <2>1. u = <<>>
    OBVIOUS
  <2>2. M(u) = <<>>
    BY <2>1
  <2>3. Names(<<>>) = <<>>
    <3>1. [i \in DOMAIN <<>> |-> NameOf(<<>>[i])] = <<>>
      OBVIOUS
    <3> QED
      BY <3>1, FlattenEmpty DEF Names
  <2> QED
    BY <2>1, <2>2, <2>3, FlattenEmpty
<1>4. ASSUME NEW k \in Nat, k \in P
      PROVE  k + 1 \in P
  <2> SUFFICES ASSUME NEW u \in Seq(L), Len(u) = k + 1
               PROVE  Same(u)
    OBVIOUS
  <2>1. PICK r \in Seq(L), x \in L : u = Append(r, x) /\ Len(r) = k
    BY SplitLast
  <2>2. M(u) = Append(M(r), Names(x))
    <3> HIDE DEF L
    <3> QED
      BY <2>1
  <2>3. M(r) \in Seq(Seq(Name)) /\ FlattenSeq(r) \in L /\ Names(x) \in Seq(Name)
    BY <1>1, <1>2, <2>1
  <2>4. Same(r)
    BY <1>4, <2>1
  <2> HIDE DEF M
  <2>5. FlattenSeq(M(u)) = FlattenSeq(M(r)) \o Names(x)
    BY <2>2, <2>3, FlattenAppend
  <2>6. FlattenSeq(u) = FlattenSeq(r) \o x
    BY <2>1, FlattenAppend
  <2>7. Names(FlattenSeq(u)) = Names(FlattenSeq(r)) \o Names(x)
    BY <1>1, <2>1, <2>3, <2>6
  <2> QED
    BY <2>4, <2>5, <2>7
<1> HIDE DEF P
<1>5. Len(s) \in P
  <2>1. Nat \subseteq P
    BY <1>3, <1>4, NumberInduction
  <2> QED
    BY <2>1
<1> QED
  BY <1>5 DEF P

-----------------------------------------------------------------------------
(* The splices of a file's includes *)

\* What lies around a line.
LEMMA AroundLine ==
    ASSUME NEW S, NEW a \in Seq(S), NEW y \in S, NEW rest \in Seq(S),
           NEW x, x = Append(a, y) \o rest
    PROVE  SubSeq(x, 1, Len(a)) = a /\ SubSeq(x, Len(a) + 2, Len(x)) = rest
<1> DEFINE m == Len(a)
           i == m + 1
           n == Len(rest)
           b == Append(a, y)
<1>1. m \in Nat /\ n \in Nat /\ i = m + 1 /\ i - 1 = m
  OBVIOUS
<1>2. b \in Seq(S) /\ Len(b) = m + 1 /\ \A k \in 1..m : b[k] = a[k]
  OBVIOUS
<1>3. /\ x \in Seq(S) /\ Len(x) = (m + 1) + n
      /\ \A k \in 1..((m + 1) + n) : x[k] = IF k <= m + 1 THEN b[k] ELSE rest[k - (m + 1)]
  <2>1. /\ b \o rest \in Seq(S) /\ Len(b \o rest) = Len(b) + Len(rest)
        /\ \A k \in 1..(Len(b) + Len(rest)) :
              (b \o rest)[k] = IF k <= Len(b) THEN b[k] ELSE rest[k - Len(b)]
    <3> HIDE DEF b
    <3> QED
      BY <1>2, ConcatProperties, Zenon
  <2> HIDE DEF b
  <2> QED
    BY <1>2, <2>1 DEF b
<1> HIDE DEF b
<1>4. SubSeq(x, 1, m) = a
  <2>1. \A k \in 1..m : x[k] = a[k] /\ x[k] \in S
    <3> HIDE DEF m
    <3>1. \A k \in 1..m : a[k] \in S
      BY DEF m
    <3> QED
      BY <1>1, <1>2, <1>3, <3>1
  <2>2. /\ SubSeq(x, 1, m) \in Seq(S) /\ Len(SubSeq(x, 1, m)) = m
        /\ \A k \in 1..m : SubSeq(x, 1, m)[k] = x[k]
    <3>1. /\ SubSeq(x, 1, m) \in Seq(S)
          /\ Len(SubSeq(x, 1, m)) = IF 1 <= m THEN m - 1 + 1 ELSE 0
          /\ \A k \in 1..(m - 1 + 1) : SubSeq(x, 1, m)[k] = x[1 + k - 1]
      BY <1>1, <2>1, SubSeqProperties
    <3> HIDE DEF m
    <3>2. Len(SubSeq(x, 1, m)) = m
      BY <1>1, <3>1
    <3>3. \A k \in 1..m : k \in 1..(m - 1 + 1) /\ 1 + k - 1 = k
      BY <1>1
    <3> QED
      BY <3>1, <3>2, <3>3
  <2>3. \A k \in 1..m : SubSeq(x, 1, m)[k] = a[k]
    BY <2>1, <2>2
  <2> DEFINE z == SubSeq(x, 1, m)
  <2>4. z \in Seq(S) /\ Len(z) = Len(a) /\ \A k \in 1..Len(z) : z[k] = a[k]
    BY <2>2, <2>3
  <2> HIDE DEF z
  <2>5. z = a
    BY <2>4, SeqEqual
  <2> QED
    BY <2>5 DEF z
<1>5. SubSeq(x, i + 1, Len(x)) = rest
  <2> DEFINE z == SubSeq(x, i + 1, Len(x))
  <2>1. \A k \in 1..n : x[i + k] = rest[k]
    <3> TAKE k \in 1..n
    <3>1. i + k \in 1..((m + 1) + n) /\ ~(i + k <= m + 1) /\ i + k - (m + 1) = k
      BY <1>1
    <3> HIDE DEF m, n
    <3>2. PICK j \in 1..((m + 1) + n) : j = i + k
      BY <3>1
    <3>3. ~(j <= m + 1) /\ j - (m + 1) = k
      BY <1>1, <3>1, <3>2
    <3>4. x[j] = rest[k]
      BY <1>3, <3>3
    <3> QED
      BY <3>2, <3>4
  <2>2. Len(x) = i + n /\ i + 1 \in Int /\ Len(x) \in Int
    BY <1>1, <1>3
  <2>3. \A k \in (i + 1)..Len(x) : x[k] \in S
    BY <1>3, <2>2
  <2>4. /\ z \in Seq(S) /\ Len(z) = IF i + 1 <= Len(x) THEN Len(x) - (i + 1) + 1 ELSE 0
        /\ \A k \in 1..(Len(x) - (i + 1) + 1) : z[k] = x[i + 1 + k - 1]
    BY <2>2, <2>3, SubSeqProperties
  <2> HIDE DEF z
  <2>5. Len(z) = n
    BY <1>1, <2>2, <2>4
  <2>6. \A k \in 1..n : z[k] = x[i + k]
    <3> TAKE k \in 1..n
    <3>1. k \in 1..(Len(x) - (i + 1) + 1) /\ i + 1 + k - 1 = i + k
      BY <1>1, <2>2
    <3>2. z[k] = x[i + 1 + k - 1]
      BY <2>4, <3>1
    <3> QED
      BY <3>1, <3>2
  <2>7. z = rest
    <3>1. \A k \in 1..Len(z) : z[k] = rest[k]
      BY <2>1, <2>5, <2>6
    <3> QED
      BY <2>4, <2>5, <3>1, SeqEqual
  <2> QED
    BY <2>7 DEF z
<1>6. i + 1 = m + 2
  BY <1>1
<1> QED
  BY <1>4, <1>5, <1>6

\* What stands for a line when the includes are replaced.
Part(line, expanded) ==
    IF IsIncludeDirective(line) THEN Included(line, expanded) ELSE <<line>>

Parts(config, expanded) == [i \in DOMAIN config |-> Part(config[i], expanded)]

\* The splices, from the last to the first, put the lines of every include where the
\* include was.
LEMMA ExpandIs ==
    ASSUME NEW S, NEW config \in Seq(S), NEW expanded,
           \A line \in Range(config) :
               IsIncludeDirective(line) => Included(line, expanded) \in Seq(S)
    PROVE  /\ Expand(config, expanded) = FlattenSeq(Parts(config, expanded))
           /\ Parts(config, expanded) \in Seq(Seq(S))
           /\ Expand(config, expanded) \in Seq(S)
<1> DEFINE n == Len(config)
           parts == Parts(config, expanded)
           Fits(f) == f = [i \in 1..(n + 1) |->
                               IF i > n THEN config
                               ELSE IF IsIncludeDirective(config[i])
                                    THEN Spliced(f[i + 1], i, Included(config[i], expanded))
                                    ELSE f[i + 1]]
           from == CHOOSE f : Fits(f)
           rest(i) == FlattenSeq(SubSeq(parts, i, n))
           before(i) == SubSeq(config, 1, i - 1)
           want(i) == before(i) \o rest(i)
<1>1. n \in Nat /\ DOMAIN config = 1..n /\ \A i \in 1..n : config[i] \in S /\ config[i] \in Range(config)
  BY DEF Range
<1>2. parts \in Seq(Seq(S)) /\ Len(parts) = n /\ \A i \in 1..n : parts[i] = Part(config[i], expanded)
  <2>1. \A i \in 1..n : Part(config[i], expanded) \in Seq(S)
    BY <1>1 DEF Part
  <2> HIDE DEF n
  <2> QED
    BY <1>1, <2>1 DEF Parts
<1>3. Expand(config, expanded) = from[1]
  BY DEF Expand
<1> HIDE DEF parts, from
<1>4. \A i \in 1..(n + 1) : rest(i) \in Seq(S) /\ before(i) \in Seq(S) /\ Len(before(i)) = i - 1
  <2> TAKE i \in 1..(n + 1)
  <2>1. SubSeq(parts, i, n) \in Seq(Seq(S))
    <3>1. \A k \in i..n : parts[k] \in Seq(S)
      BY <1>1, <1>2
    <3> QED
      BY <1>1, <3>1, SubSeqProperties
  <2>2. <<>> \in Seq(S)
    OBVIOUS
  <2>3. rest(i) \in Seq(S)
    BY <2>1, <2>2, FlattenAppend
  <2>4. /\ before(i) \in Seq(S)
        /\ Len(before(i)) = IF 1 <= i - 1 THEN (i - 1) - 1 + 1 ELSE 0
    <3>1. \A k \in 1..(i - 1) : config[k] \in S
      BY <1>1
    <3> QED
      BY <1>1, <3>1, SubSeqProperties
  <2>5. Len(before(i)) = i - 1
    <3> HIDE DEF n
    <3> QED
      BY <1>1, <2>4
  <2> QED
    BY <2>3, <2>4, <2>5
<1>5. want(n + 1) = config
  <2>1. SubSeq(parts, n + 1, n) = <<>>
    BY <1>1, SubSeqEmpty
  <2>2. rest(n + 1) = <<>>
    BY <2>1, FlattenEmpty
  <2>3. n + 1 - 1 = n
    BY <1>1
  <2>4. before(n + 1) = config
    BY <2>3, SubSeqFull
  <2>5. config \o <<>> = config
    OBVIOUS
  <2> HIDE DEF rest, before
  <2> QED
    BY <2>2, <2>4, <2>5
<1>6. ASSUME NEW i \in 1..n
      PROVE  want(i) = IF IsIncludeDirective(config[i])
                       THEN Spliced(want(i + 1), i, Included(config[i], expanded))
                       ELSE want(i + 1)
  <2>1. i \in 1..(n + 1) /\ i + 1 \in 1..(n + 1) /\ i + 1 - 1 = i /\ i \in Nat
    BY <1>1
  <2> DEFINE a == before(i)
             y == config[i]
             r == rest(i + 1)
  <2>2. a \in Seq(S) /\ Len(a) = i - 1 /\ y \in S /\ r \in Seq(S) /\ rest(i) \in Seq(S)
    BY <1>1, <1>4, <2>1
  <2>3. before(i + 1) = Append(a, y)
    <3>1. before(i + 1) = a \o <<y>>
      <4>1. i \in 1..Len(config) /\ 1 \in 1..Len(config) /\ i \in 1..Len(config)
        BY <1>1
      <4>2. SubSeq(config, 1, i) = SubSeq(config, 1, i - 1) \o <<config[i]>>
        BY <4>1, SubSeqRecursiveSecond
      <4> QED
        BY <2>1, <4>2
    <3> HIDE DEF a, y
    <3> QED
      BY <2>2, <3>1, AppendIsConcat
  <2>4. rest(i) = Part(y, expanded) \o r
    <3>1. SubSeq(parts, i, n) = <<parts[i]>> \o SubSeq(parts, i + 1, n)
      <4>1. i \in 1..Len(parts) /\ n \in i..Len(parts)
        BY <1>1, <1>2
      <4> QED
        BY <1>2, <4>1, SubSeqRecursiveFirst
    <3>2. SubSeq(parts, i + 1, n) \in Seq(Seq(S))
      <4>1. \A k \in (i + 1)..n : parts[k] \in Seq(S)
        BY <1>1, <1>2
      <4> QED
        BY <1>1, <4>1, SubSeqProperties
    <3>3. parts[i] \in Seq(S) /\ parts[i] = Part(y, expanded)
      BY <1>1, <1>2
    <3>4. <<parts[i]>> \in Seq(Seq(S))
      BY <3>3
    <3>5. FlattenSeq(<<parts[i]>>) = parts[i]
      BY <3>3, FlattenOne
    <3>6. FlattenSeq(<<parts[i]>> \o SubSeq(parts, i + 1, n))
              = FlattenSeq(<<parts[i]>>) \o FlattenSeq(SubSeq(parts, i + 1, n))
      BY <3>2, <3>4, FlattenConcat
    <3> QED
      BY <3>1, <3>3, <3>5, <3>6
  <2>5. want(i + 1) = Append(a, y) \o r
    BY <2>3
  <2> HIDE DEF a, r, y
  <2>6. CASE IsIncludeDirective(y)
    <3>1. Included(y, expanded) \in Seq(S)
      BY <1>1, <2>6 DEF y
    <3>3. Spliced(Append(a, y) \o r, i, Included(y, expanded)) = a \o (Included(y, expanded) \o r)
      <4> DEFINE lines == Included(y, expanded)
                 x == Append(a, y) \o r
      <4>1. lines \in Seq(S)
        BY <3>1
      <4> HIDE DEF lines
      <4>2. SubSeq(x, 1, Len(a)) = a /\ SubSeq(x, Len(a) + 2, Len(x)) = r
        <5> HIDE DEF x
        <5>1. x = Append(a, y) \o r
          BY DEF x
        <5> QED
          BY <2>2, <5>1, AroundLine
      <4>3. Len(a) = i - 1 /\ Len(a) + 2 = i + 1
        BY <2>1, <2>2
      <4> HIDE DEF x
      <4>4. Spliced(x, i, lines) = (a \o lines) \o r
        BY <4>2, <4>3 DEF Spliced
      <4>5. \A u, v, w \in Seq(S) : (u \o v) \o w = u \o (v \o w)
        BY ConcatAssociative
      <4>6. (a \o lines) \o r = a \o (lines \o r)
        BY <2>2, <4>1, <4>5, Zenon
      <4> QED
        BY <4>4, <4>6 DEF lines, x
    <3>4. want(i) = a \o (Included(y, expanded) \o r)
      BY <2>4, <2>6 DEF a, Part
    <3> QED
      BY <2>5, <2>6, <3>3, <3>4 DEF y
  <2>7. CASE ~IsIncludeDirective(y)
    <3>1. want(i) = a \o (<<y>> \o r)
      BY <2>4, <2>7 DEF a, Part
    <3>2. <<y>> \in Seq(S) /\ Append(a, y) = a \o <<y>>
      BY <2>2, AppendIsConcat
    <3>3. a \o (<<y>> \o r) = (a \o <<y>>) \o r
      <4> DEFINE o == <<y>>
      <4>1. o \in Seq(S)
        BY <3>2
      <4> HIDE DEF o
      <4>2. \A u, v, w \in Seq(S) : (u \o v) \o w = u \o (v \o w)
        BY ConcatAssociative
      <4>3. a \o (o \o r) = (a \o o) \o r
        BY <2>2, <4>1, <4>2, Zenon
      <4> QED
        BY <4>3 DEF o
    <3> QED
      BY <2>5, <2>7, <3>1, <3>2, <3>3 DEF y
  <2> QED
    BY <2>6, <2>7 DEF y
<1> HIDE DEF rest, before, want
<1>7. Fits(from)
  <2> DEFINE f == [i \in 1..(n + 1) |-> want(i)]
  <2>1. \A i \in 1..(n + 1) :
            want(i) = IF i > n THEN config
                      ELSE IF IsIncludeDirective(config[i])
                           THEN Spliced(f[i + 1], i, Included(config[i], expanded))
                           ELSE f[i + 1]
    <3> TAKE i \in 1..(n + 1)
    <3>1. CASE i > n
      <4>1. i = n + 1
        BY <1>1, <3>1
      <4> QED
        BY <1>5, <3>1, <4>1
    <3>2. CASE ~(i > n)
      <4>1. i \in 1..n /\ i + 1 \in 1..(n + 1)
        BY <1>1, <3>2
      <4>2. f[i + 1] = want(i + 1)
        BY <4>1
      <4> QED
        BY <1>6, <3>2, <4>1, <4>2
    <3> QED
      BY <3>1, <3>2
  <2>2. Fits(f)
    <3> DEFINE g == [i \in 1..(n + 1) |->
                        IF i > n THEN config
                        ELSE IF IsIncludeDirective(config[i])
                             THEN Spliced(f[i + 1], i, Included(config[i], expanded))
                             ELSE f[i + 1]]
    <3>1. \A i \in 1..(n + 1) : f[i] = g[i]
      BY <2>1
    <3>2. f = g
      BY <3>1
    <3> QED
      BY <3>2
  <2> HIDE DEF f, Fits
  <2> QED
    BY <2>2 DEF from
<1>8. \A i \in 1..(n + 1) :
          from[i] = IF i > n THEN config
                    ELSE IF IsIncludeDirective(config[i])
                         THEN Spliced(from[i + 1], i, Included(config[i], expanded))
                         ELSE from[i + 1]
  BY <1>7
<1> HIDE DEF Fits
<1> DEFINE P == {k \in Nat : k <= n => from[(n + 1) - k] = want((n + 1) - k)}
<1>9. 0 \in P
  <2>1. n + 1 \in 1..(n + 1) /\ n + 1 > n /\ (n + 1) - 0 = n + 1
    BY <1>1
  <2>2. from[n + 1] = want(n + 1)
    BY <1>5, <1>8, <2>1
  <2> QED
    BY <2>1, <2>2
<1>10. ASSUME NEW k \in Nat, k \in P
       PROVE  k + 1 \in P
  <2> SUFFICES ASSUME k + 1 <= n
               PROVE  from[(n + 1) - (k + 1)] = want((n + 1) - (k + 1))
    OBVIOUS
  <2>1. PICK i \in 1..n : i = (n + 1) - (k + 1)
    <3>1. (n + 1) - (k + 1) \in 1..n
      <4> HIDE DEF n
      <4> QED
        BY <1>1
    <3> QED
      BY <3>1
  <2>2. i \in 1..(n + 1) /\ ~(i > n) /\ i + 1 = (n + 1) - k
    BY <1>1, <2>1
  <2>3. from[(n + 1) - k] = want((n + 1) - k)
    BY <1>1, <1>10
  <2>4. from[i + 1] = want(i + 1)
    BY <2>2, <2>3
  <2>5. from[i] = want(i)
    BY <1>6, <1>8, <2>2, <2>4
  <2> QED
    BY <2>1, <2>5
<1> HIDE DEF P
<1>11. n \in P
  <2>1. Nat \subseteq P
    BY <1>9, <1>10, NumberInduction
  <2> QED
    BY <1>1, <2>1
<1>12. from[1] = want(1)
  <2>1. (n + 1) - n = 1
    BY <1>1
  <2>2. from[(n + 1) - n] = want((n + 1) - n)
    BY <1>1, <1>11 DEF P
  <2> QED
    BY <2>1, <2>2
<1>13. want(1) = FlattenSeq(parts)
  <2>1. before(1) = <<>>
    <3>1. 1 - 1 = 0
      OBVIOUS
    <3>2. SubSeq(config, 1, 0) = <<>>
      BY SubSeqEmpty
    <3> QED
      BY <3>1, <3>2 DEF before
  <2>2. rest(1) = FlattenSeq(parts)
    BY <1>2, SubSeqFull DEF rest
  <2>3. rest(1) \in Seq(S)
    <3>1. 1 \in 1..(n + 1)
      BY <1>1
    <3> QED
      BY <1>4, <3>1
  <2>4. <<>> \o rest(1) = rest(1)
    BY <2>3
  <2> QED
    BY <2>1, <2>2, <2>4 DEF want
<1>14. FlattenSeq(parts) \in Seq(S)
  <2>1. <<>> \in Seq(S)
    OBVIOUS
  <2> QED
    BY <1>2, <2>1, FlattenAppend
<1> QED
  BY <1>2, <1>3, <1>12, <1>13, <1>14 DEF parts

-----------------------------------------------------------------------------
(* Induction and recursion over files that include no circle *)

\* Files that lie deeper first.
LEMMA DepthInduction ==
    ASSUME NEW D, NEW n \in Nat, NEW depth \in [D -> 1..n], NEW Q,
           \A p \in D : (\A q \in D : depth[q] < depth[p] => q \in Q) => p \in Q
    PROVE  D \subseteq Q
<1> SUFFICES ASSUME D \ Q # {}
             PROVE  FALSE
  OBVIOUS
<1> DEFINE T == {depth[p] : p \in D \ Q}
<1>1. T \in SUBSET Nat /\ T # {}
  OBVIOUS
<1>2. PICK m \in T : \A k \in T : m <= k
  BY <1>1, LeastNumber
<1>3. PICK p \in D \ Q : m = depth[p]
  OBVIOUS
<1>4. \A q \in D : depth[q] < depth[p] => q \in Q
  <2> SUFFICES ASSUME NEW q \in D, depth[q] < depth[p], q \notin Q
               PROVE  FALSE
    OBVIOUS
  <2>1. depth[q] \in T
    OBVIOUS
  <2>2. depth[p] <= depth[q] /\ depth[p] \in 1..n /\ depth[q] \in 1..n
    BY <1>2, <1>3, <2>1
  <2> QED
    BY <2>2
<1> QED
  BY <1>3, <1>4

\* A function that is defined at each file by its values at deeper ones.
LooksDeeper(step, depth, D, A) ==
    \A p \in D : \A f, g \in [D -> A] :
        (\A q \in D : depth[q] < depth[p] => f[q] = g[q]) => step[p][f] = step[p][g]

HasSolution(step, D, A) == \E f \in [D -> A] : \A p \in D : f[p] = step[p][f]

LEMMA DepthRecursion ==
    ASSUME NEW D, NEW A, NEW base \in A, NEW n \in Nat, NEW depth \in [D -> 1..n],
           NEW step \in [D -> [[D -> A] -> A]], LooksDeeper(step, depth, D, A)
    PROVE  HasSolution(step, D, A)
<1> DEFINE Solves(f, k) == \A p \in D : depth[p] <= k => f[p] = step[p][f]
           P == {k \in Nat : \E f \in [D -> A] : Solves(f, k)}
<1>1. 0 \in P
  <2> DEFINE f == [p \in D |-> base]
  <2>1. f \in [D -> A] /\ Solves(f, 0)
    OBVIOUS
  <2> QED
    BY <2>1
<1>2. ASSUME NEW k \in Nat, k \in P
      PROVE  k + 1 \in P
  <2>1. PICK f \in [D -> A] : Solves(f, k)
    BY <1>2
  <2> DEFINE g == [p \in D |-> step[p][f]]
  <2>2. g \in [D -> A]
    OBVIOUS
  <2>3. ASSUME NEW p \in D, depth[p] <= k + 1
        PROVE  g[p] = step[p][g]
    <3>1. \A q \in D : depth[q] < depth[p] => f[q] = g[q]
      <4> TAKE q \in D
      <4> HAVE depth[q] < depth[p]
      <4>1. depth[q] <= k
        <5>1. depth[q] \in 1..n /\ depth[p] \in 1..n
          OBVIOUS
        <5> QED
          BY <2>3, <5>1
      <4> QED
        BY <2>1, <4>1
    <3>2. step[p][f] = step[p][g]
      BY <2>2, <3>1 DEF LooksDeeper
    <3> QED
      BY <3>2
  <2>4. Solves(g, k + 1)
    BY <2>3
  <2> HIDE DEF g, Solves
  <2> QED
    BY <2>2, <2>4
<1> HIDE DEF P
<1>3. n \in P
  <2>1. Nat \subseteq P
    BY <1>1, <1>2, NumberInduction
  <2> QED
    BY <2>1
<1>4. PICK f \in [D -> A] : Solves(f, n)
  BY <1>3 DEF P
<1>5. \A p \in D : depth[p] <= n
  <2> TAKE p \in D
  <2>1. depth[p] \in 1..n
    OBVIOUS
  <2> QED
    BY <2>1
<1> QED
  BY <1>4, <1>5 DEF HasSolution

LEMMA TopLevelIs ==
    ASSUME NEW S, NEW file \in Seq(S)
    PROVE  TopLevel(file) \in Seq(S)
<1> DEFINE n == Len(file)
           A == Seq(S)
           Step(lines, line) ==
               IF IsSection(line) \/ ~\E l \in Range(lines) : IsSection(l)
               THEN Append(lines, line) ELSE lines
           t == [i \in 1..n |-> [lines \in A |-> Step(lines, file[i])]]
           Folds(g) == g = [s \in SUBSET (1..n) |->
                               IF s = {} THEN <<>>
                               ELSE Step(g[s \ {Max(s)}], file[Max(s)])]
           iter == CHOOSE g : Folds(g)
           P == {i \in Nat : i <= n => iter[1..i] \in A}
<1>1. n \in Nat /\ DOMAIN file = 1..n /\ \A i \in 1..n : file[i] \in S
  OBVIOUS
<1>2. \A lines \in A : \A i \in 1..n : Step(lines, file[i]) \in A
  BY <1>1
<1>3. t \in [1..n -> [A -> A]]
  BY <1>2
<1>4. TopLevel(file) = iter[1..n]
  BY <1>1 DEF TopLevel, FoldLeft, MapThenFoldSet
<1> HIDE DEF Step, A
<1>5. \E g : Folds(g)
  <2>1. <<>> \in A
    BY DEF A
  <2>2. PICK g : FoldsBy(g, A, <<>>, t, n)
    <3> HIDE DEF t
    <3> QED
      BY <1>1, <1>3, <2>1, FoldExists
  <2>3. ASSUME NEW s \in SUBSET (1..n), s # {}
        PROVE  t[Max(s)][g[s \ {Max(s)}]] = Step(g[s \ {Max(s)}], file[Max(s)])
    <3>1. Max(s) \in 1..n
      BY <1>1, <2>3, MaxInSet
    <3>2. g[s \ {Max(s)}] \in A
      BY <2>2 DEF FoldsBy
    <3> QED
      BY <3>1, <3>2
  <2> HIDE DEF t
  <2>4. Folds(g)
    BY <2>2, <2>3 DEF FoldsBy
  <2> QED
    BY <2>4
<1>6. Folds(iter)
  BY <1>5
<1> HIDE DEF iter
<1>7. 0 \in P
  <2>1. 1..0 = {} /\ 1..0 \in SUBSET (1..n)
    OBVIOUS
  <2>2. iter[1..0] = <<>>
    BY <1>6, <2>1
  <2>3. <<>> \in A
    BY DEF A
  <2> QED
    BY <2>2, <2>3
<1>8. ASSUME NEW i \in Nat, i \in P
      PROVE  i + 1 \in P
  <2> SUFFICES ASSUME i + 1 <= n
               PROVE  iter[1..(i + 1)] \in A
    OBVIOUS
  <2>1. iter[1..(i + 1)] = Step(iter[1..i], file[i + 1])
    <3> DEFINE s == 1..(i + 1)
    <3>1. s \in SUBSET (1..n) /\ s # {} /\ Max(s) = i + 1 /\ s \ {i + 1} = 1..i
      BY <1>1, FirstPositions
    <3> HIDE DEF s
    <3>2. iter[s] = Step(iter[s \ {Max(s)}], file[Max(s)])
      BY <1>6, <3>1
    <3>3. iter[s] = Step(iter[1..i], file[i + 1])
      BY <3>1, <3>2
    <3> QED
      BY <3>3 DEF s
  <2>2. iter[1..i] \in A /\ i + 1 \in 1..n
    BY <1>1, <1>8
  <2> QED
    BY <1>2, <2>1, <2>2
<1> HIDE DEF P
<1>9. n \in P
  <2>1. Nat \subseteq P
    BY <1>7, <1>8, NumberInduction
  <2> QED
    BY <1>1, <2>1
<1> QED
  BY <1>1, <1>4, <1>9 DEF P, A

-----------------------------------------------------------------------------
(* What is read of the files *)

Lines(files) == UNION {Range(files[p]) : p \in DOMAIN files}

\* What ContentAssumption says of a content, with the depth of each file.
Readable(files, depth, n) ==
    /\ n \in Nat /\ depth \in [DOMAIN files -> 1..n] /\ Deeper(files, depth)
    /\ \A p \in DOMAIN files :
        /\ files[p] \in Seq(Range(files[p]))
        /\ \A line \in Range(files[p]) :
            /\ IsHostSection(line) => line.names[1] \in Name
            /\ IsIncludeDirective(line) => line.files \in Seq(DOMAIN files)

LEMMA ContentIsReadable ==
    ASSUME NEW d \in Disk
    PROVE  /\ {"config", "ssh_config"} \subseteq DOMAIN Content[d]
           /\ \E depth, n : Readable(Content[d], depth, n)
<1> DEFINE files == Content[d]
           n == Cardinality(DOMAIN files)
<1>1. /\ {"config", "ssh_config"} \subseteq DOMAIN files /\ IsFiniteSet(DOMAIN files)
      /\ \A p \in DOMAIN files :
          /\ files[p] \in Seq(Range(files[p]))
          /\ \A line \in Range(files[p]) :
              /\ IsHostSection(line) => line.names[1] \in Name
              /\ IsIncludeDirective(line) => line.files \in Seq(DOMAIN files)
      /\ \E depth \in [DOMAIN files -> 1..n] : Deeper(files, depth)
  BY ContentAssumption DEF Name
<1>2. n \in Nat
  BY <1>1, FS_CardinalityType
<1> HIDE DEF files, n
<1>3. \E depth : Readable(files, depth, n)
  BY <1>1, <1>2 DEF Readable
<1> QED
  BY <1>1, <1>3 DEF files

\* The lines of a file before the includes are replaced.
LEMMA LinesOfFile ==
    ASSUME NEW files, NEW depth, NEW n, Readable(files, depth, n), NEW p \in DOMAIN files
    PROVE  /\ TopLevel(files[p]) \in Seq(Lines(files))
           /\ \A line \in Range(TopLevel(files[p])) :
               /\ line \in Lines(files)
               /\ IsIncludeDirective(line) =>
                   /\ line.files \in Seq(DOMAIN files)
                   /\ \A q \in Range(line.files) : q \in DOMAIN files /\ depth[q] < depth[p]
<1> DEFINE S == Range(files[p])
           lines == TopLevel(files[p])
<1>1. lines \in Seq(S)
  <2>1. files[p] \in Seq(S)
    BY DEF Readable
  <2> HIDE DEF S
  <2> QED
    BY <2>1, TopLevelIs
<1>2. S \subseteq Lines(files)
  BY DEF Lines
<1>3. Range(lines) \subseteq S
  <2> HIDE DEF S, lines
  <2> QED
    BY <1>1, RangeOfSeq
<1>4. lines \in Seq(Lines(files))
  <2> HIDE DEF S, lines
  <2> QED
    BY <1>1, <1>2, SeqMonotonic
<1>5. ASSUME NEW line \in S, IsIncludeDirective(line)
      PROVE  /\ line.files \in Seq(DOMAIN files)
             /\ \A q \in Range(line.files) : q \in DOMAIN files /\ depth[q] < depth[p]
  <2>1. line.files \in Seq(DOMAIN files)
    BY <1>5 DEF Readable
  <2>2. Range(line.files) \in SUBSET DOMAIN files
    BY <2>1, RangeOfSeq
  <2>3. \A q \in Range(line.files) : depth[q] < depth[p]
    BY <1>5 DEF Readable, Deeper
  <2> QED
    BY <2>1, <2>2, <2>3
<1> QED
  BY <1>2, <1>3, <1>4, <1>5

\* The lines of an include, when the files it matches are known.
LEMMA IncludedIs ==
    ASSUME NEW S, NEW line, NEW D, line.files \in Seq(D), NEW e,
           \A q \in Range(line.files) : e[q] \in Seq(S)
    PROVE  /\ [k \in DOMAIN line.files |-> e[line.files[k]]] \in Seq(Seq(S))
           /\ Included(line, e) \in Seq(S)
<1> DEFINE names == line.files
           L == Seq(S)
<1>1. DOMAIN names = 1..Len(names) /\ Len(names) \in Nat /\ \A k \in DOMAIN names : names[k] \in Range(names)
  BY DEF Range
<1>2. \A k \in 1..Len(names) : e[names[k]] \in L
  BY <1>1
<1>3. [k \in DOMAIN names |-> e[names[k]]] \in Seq(L)
  <2> HIDE DEF names, L
  <2> QED
    BY <1>1, <1>2
<1>4. Included(line, e) \in L
  <2>1. <<>> \in Seq(S)
    OBVIOUS
  <2> QED
    BY <1>3, <2>1, FlattenAppend DEF Included
<1> QED
  BY <1>3, <1>4

LEMMA IncludedSame ==
    ASSUME NEW line, NEW e, NEW f, \A q \in Range(line.files) : e[q] = f[q]
    PROVE  Included(line, e) = Included(line, f)
<1>1. \A k \in DOMAIN line.files : e[line.files[k]] = f[line.files[k]]
  BY DEF Range
<1>2. [k \in DOMAIN line.files |-> e[line.files[k]]] = [k \in DOMAIN line.files |-> f[line.files[k]]]
  BY <1>1
<1> QED
  BY <1>2 DEF Included

\* A file is expanded by what the files below it expand to.
LEMMA ExpandedFile ==
    ASSUME NEW files, NEW depth, NEW n, Readable(files, depth, n), NEW p \in DOMAIN files,
           NEW e, \A q \in DOMAIN files : depth[q] < depth[p] => e[q] \in Seq(Lines(files))
    PROVE  /\ Expand(TopLevel(files[p]), e) = FlattenSeq(Parts(TopLevel(files[p]), e))
           /\ Parts(TopLevel(files[p]), e) \in Seq(Seq(Lines(files)))
           /\ Expand(TopLevel(files[p]), e) \in Seq(Lines(files))
           /\ \A line \in Range(TopLevel(files[p])) :
               IsIncludeDirective(line) => \A q \in Range(line.files) : e[q] \in Seq(Lines(files))
<1> DEFINE S == Lines(files)
           lines == TopLevel(files[p])
<1>1. /\ lines \in Seq(S)
      /\ \A line \in Range(lines) :
          IsIncludeDirective(line) =>
              /\ line.files \in Seq(DOMAIN files)
              /\ \A q \in Range(line.files) : e[q] \in Seq(S)
  BY LinesOfFile
<1> HIDE DEF S, lines
<1>2. \A line \in Range(lines) : IsIncludeDirective(line) => Included(line, e) \in Seq(S)
  BY <1>1, IncludedIs
<1>3. /\ Expand(lines, e) = FlattenSeq(Parts(lines, e))
      /\ Parts(lines, e) \in Seq(Seq(S))
      /\ Expand(lines, e) \in Seq(S)
  BY <1>1, <1>2, ExpandIs
<1> QED
  BY <1>1, <1>3 DEF S, lines

LEMMA ExpandedSame ==
    ASSUME NEW files, NEW depth, NEW n, Readable(files, depth, n), NEW p \in DOMAIN files,
           NEW e, \A q \in DOMAIN files : depth[q] < depth[p] => e[q] \in Seq(Lines(files)),
           NEW f, \A q \in DOMAIN files : depth[q] < depth[p] => e[q] = f[q]
    PROVE  Expand(TopLevel(files[p]), e) = Expand(TopLevel(files[p]), f)
<1> DEFINE lines == TopLevel(files[p])
           S == Lines(files)
<1>1. \A line \in Range(lines) :
          IsIncludeDirective(line) =>
              /\ line.files \in Seq(DOMAIN files)
              /\ \A q \in Range(line.files) : e[q] \in Seq(S) /\ e[q] = f[q]
  BY LinesOfFile
<1>2. Expand(lines, e) = FlattenSeq(Parts(lines, e))
  BY ExpandedFile
<1>3. Expand(lines, f) = FlattenSeq(Parts(lines, f))
  <2>1. \A q \in DOMAIN files : depth[q] < depth[p] => f[q] \in Seq(Lines(files))
    OBVIOUS
  <2> QED
    BY <2>1, ExpandedFile
<1> HIDE DEF lines, S
<1>4. \A line \in Range(lines) : IsIncludeDirective(line) => Included(line, e) = Included(line, f)
  BY <1>1, IncludedSame
<1>5. \A i \in DOMAIN lines : Part(lines[i], e) = Part(lines[i], f)
  BY <1>4 DEF Part, Range
<1>6. Parts(lines, e) = Parts(lines, f)
  BY <1>5 DEF Parts
<1> QED
  BY <1>2, <1>3, <1>6 DEF lines

\* Where no file includes itself, the reading of a file ends: there is one function of
\* the files that gives the lines of each.
LEMMA FilesExpand ==
    ASSUME NEW files, NEW depth, NEW n, Readable(files, depth, n)
    PROVE  \E e \in [DOMAIN files -> Seq(Lines(files))] :
               \A p \in DOMAIN files : /\ e[p] = Expand(TopLevel(files[p]), e)
                                       /\ ParseSSHConfigFromFile(files, p) = e[p]
<1> DEFINE D == DOMAIN files
           A == Seq(Lines(files))
           Body(p, e) == Expand(TopLevel(files[p]), e)
           Fits(e) == e = [p \in D |-> Body(p, e)]
           expanded == CHOOSE e : Fits(e)
           step == [p \in D |-> [e \in [D -> A] |-> Body(p, e)]]
<1>1. n \in Nat /\ depth \in [D -> 1..n] /\ <<>> \in A
  BY DEF Readable
<1>2. \A p \in D : \A e : (\A q \in D : depth[q] < depth[p] => e[q] \in A) => Body(p, e) \in A
  BY ExpandedFile
<1>3. \A p \in D : \A e, f \in [D -> A] :
          (\A q \in D : depth[q] < depth[p] => e[q] = f[q]) => Body(p, e) = Body(p, f)
  <2> SUFFICES ASSUME NEW p \in D, NEW e \in [D -> A], NEW f \in [D -> A],
                      \A q \in D : depth[q] < depth[p] => e[q] = f[q]
               PROVE  Body(p, e) = Body(p, f)
    OBVIOUS
  <2>1. \A q \in D : depth[q] < depth[p] => e[q] \in A
    OBVIOUS
  <2> QED
    BY <2>1, ExpandedSame
<1>4. \A p \in D : ParseSSHConfigFromFile(files, p) = expanded[p]
  BY DEF ParseSSHConfigFromFile
<1> HIDE DEF Body, A, D
<1>5. step \in [D -> [[D -> A] -> A]]
  BY <1>2
<1>6. \E e : Fits(e)
  <2>1. LooksDeeper(step, depth, D, A)
    BY <1>3 DEF LooksDeeper
  <2>2. PICK e \in [D -> A] : \A p \in D : e[p] = step[p][e]
    <3>1. HasSolution(step, D, A)
      <4> HIDE DEF step
      <4> QED
        BY <1>1, <1>5, <2>1, DepthRecursion
    <3> QED
      BY <3>1 DEF HasSolution
  <2>3. \A p \in D : e[p] = Body(p, e)
    BY <2>2
  <2>4. Fits(e)
    BY <2>3
  <2> QED
    BY <2>4
<1>7. Fits(expanded)
  BY <1>6
<1> HIDE DEF expanded
<1>8. \A p \in D : expanded[p] = Body(p, expanded)
  BY <1>7
<1> DEFINE Q == {p \in D : expanded[p] \in A}
<1>9. \A p \in D : (\A q \in D : depth[q] < depth[p] => q \in Q) => p \in Q
  <2> SUFFICES ASSUME NEW p \in D, \A q \in D : depth[q] < depth[p] => q \in Q
               PROVE  expanded[p] \in A
    OBVIOUS
  <2>1. \A q \in D : depth[q] < depth[p] => expanded[q] \in A
    OBVIOUS
  <2> QED
    BY <1>2, <1>8, <2>1
<1>10. \A p \in D : expanded[p] \in A
  <2> HIDE DEF Q
  <2>1. D \subseteq Q
    BY <1>1, <1>9, DepthInduction
  <2> QED
    BY <2>1 DEF Q
<1>11. expanded \in [D -> A]
  BY <1>7, <1>10
<1> QED
  BY <1>4, <1>8, <1>11 DEF Body, A, D

LEMMA PartNames ==
    ASSUME NEW S, Named(S),
           NEW D, NEW line \in S, IsIncludeDirective(line) => line.files \in Seq(D),
           NEW e, IsIncludeDirective(line) => \A q \in Range(line.files) : e[q] \in Seq(S),
           NEW g, IsIncludeDirective(line) => \A q \in Range(line.files) : g[q] = Names(e[q])
    PROVE  Names(Part(line, e)) = NamesOfLine(line, g)
<1>1. CASE IsIncludeDirective(line)
  <2> DEFINE s == [k \in DOMAIN line.files |-> e[line.files[k]]]
  <2>1. s \in Seq(Seq(S))
    BY <1>1, IncludedIs
  <2>2. Names(FlattenSeq(s)) = FlattenSeq([k \in DOMAIN s |-> Names(s[k])])
    <3> HIDE DEF s
    <3> QED
      BY <2>1, NamesOfFlattened
  <2>3. [k \in DOMAIN s |-> Names(s[k])] = [k \in DOMAIN line.files |-> g[line.files[k]]]
    <3>1. \A k \in DOMAIN line.files : line.files[k] \in Range(line.files)
      BY DEF Range
    <3>2. \A k \in DOMAIN line.files : Names(e[line.files[k]]) = g[line.files[k]]
      BY <1>1, <3>1
    <3> QED
      BY <3>2
  <2>4. Part(line, e) = FlattenSeq(s)
    BY <1>1 DEF Part, Included
  <2>5. ~IsHostSection(line)
    BY <1>1 DEF IsIncludeDirective, IsHostSection
  <2>6. NamesOfLine(line, g) = FlattenSeq([k \in DOMAIN line.files |-> g[line.files[k]]])
    BY <1>1, <2>5 DEF NamesOfLine, Included
  <2> QED
    BY <2>2, <2>3, <2>4, <2>6
<1>2. CASE ~IsIncludeDirective(line)
  <2>1. Part(line, e) = <<line>>
    BY <1>2 DEF Part
  <2>2. Names(<<line>>) = NameOf(line)
    <3>1. [i \in DOMAIN <<line>> |-> NameOf(<<line>>[i])] = <<NameOf(line)>>
      OBVIOUS
    <3>2. NameOf(line) \in Seq(Name)
      BY DEF NameOf, Named
    <3>3. FlattenSeq(<<NameOf(line)>>) = NameOf(line)
      BY <3>2, FlattenOne
    <3> QED
      BY <3>1, <3>3 DEF Names
  <2>3. NamesOfLine(line, g) = NameOf(line)
    BY <1>2 DEF NamesOfLine, NameOf
  <2> QED
    BY <2>1, <2>2, <2>3
<1> QED
  BY <1>1, <1>2

\* The names that are read of a file, given those of the files it includes.
ReadFile(files, p, read) ==
    FlattenSeq([i \in DOMAIN TopLevel(files[p]) |-> NamesOfLine(TopLevel(files[p])[i], read)])

\* The names of an expanded file are those of its lines, includes in place.
LEMMA FileNames ==
    ASSUME NEW files, NEW depth, NEW n, Readable(files, depth, n), NEW p \in DOMAIN files,
           NEW e \in [DOMAIN files -> Seq(Lines(files))],
           e[p] = Expand(TopLevel(files[p]), e),
           NEW g, \A q \in DOMAIN files : depth[q] < depth[p] => g[q] = Names(e[q])
    PROVE  Names(e[p]) = ReadFile(files, p, g)
<1> DEFINE S == Lines(files)
           D == DOMAIN files
           lines == TopLevel(files[p])
           parts == Parts(lines, e)
<1>1. Named(S)
  BY DEF Readable, Lines, Named
<1>2. \A line \in Range(lines) :
          /\ line \in S
          /\ IsIncludeDirective(line) =>
              /\ line.files \in Seq(D)
              /\ \A q \in Range(line.files) : q \in D /\ depth[q] < depth[p]
  BY LinesOfFile
<1>3. e[p] = FlattenSeq(parts) /\ parts \in Seq(Seq(S))
  <2>1. \A q \in DOMAIN files : depth[q] < depth[p] => e[q] \in Seq(Lines(files))
    OBVIOUS
  <2> QED
    BY <2>1, ExpandedFile
<1>4. \A q \in D : e[q] \in Seq(S)
  OBVIOUS
<1> HIDE DEF lines, S, D
<1>5. \A line \in Range(lines) : Names(Part(line, e)) = NamesOfLine(line, g)
  <2> TAKE line \in Range(lines)
  <2>1. /\ line \in S
        /\ IsIncludeDirective(line) => line.files \in Seq(D)
        /\ IsIncludeDirective(line) => \A q \in Range(line.files) : e[q] \in Seq(S)
    BY <1>2, <1>4
  <2>2. IsIncludeDirective(line) => \A q \in Range(line.files) : g[q] = Names(e[q])
    BY <1>2 DEF D
  <2> QED
    BY <1>1, <2>1, <2>2, PartNames
<1>6. [i \in DOMAIN parts |-> Names(parts[i])] = [i \in DOMAIN lines |-> NamesOfLine(lines[i], g)]
  <2>1. DOMAIN parts = DOMAIN lines /\ \A i \in DOMAIN lines : parts[i] = Part(lines[i], e)
    BY DEF Parts
  <2>2. \A i \in DOMAIN lines : lines[i] \in Range(lines)
    BY DEF Range
  <2>3. \A i \in DOMAIN lines : Names(parts[i]) = NamesOfLine(lines[i], g)
    BY <1>5, <2>1, <2>2
  <2> HIDE DEF parts
  <2> QED
    BY <2>1, <2>3
<1> HIDE DEF parts
<1>7. Names(FlattenSeq(parts)) = FlattenSeq([i \in DOMAIN parts |-> Names(parts[i])])
  BY <1>1, <1>3, NamesOfFlattened
<1> QED
  BY <1>3, <1>6, <1>7 DEF lines, ReadFile

\* What ReadingOrder reads of each file is what the file expands to.
LEMMA FilesRead ==
    ASSUME NEW files, NEW depth, NEW n, Readable(files, depth, n),
           {"config", "ssh_config"} \subseteq DOMAIN files,
           NEW e \in [DOMAIN files -> Seq(Lines(files))],
           \A p \in DOMAIN files : e[p] = Expand(TopLevel(files[p]), e)
    PROVE  ReadingOrder(files) = Names(e["config"]) \o Names(e["ssh_config"])
<1> DEFINE D == DOMAIN files
           Reads(g) == g = [p \in D |-> ReadFile(files, p, g)]
           read == CHOOSE g : Reads(g)
<1>1. n \in Nat /\ depth \in [D -> 1..n]
  BY DEF Readable
<1>2. ReadingOrder(files) = read["config"] \o read["ssh_config"]
  BY DEF ReadingOrder, ReadFile
<1>3. \A p \in D : \A g :
          (\A q \in D : depth[q] < depth[p] => g[q] = Names(e[q])) => Names(e[p]) = ReadFile(files, p, g)
  <2> SUFFICES ASSUME NEW p \in D, NEW g, \A q \in D : depth[q] < depth[p] => g[q] = Names(e[q])
               PROVE  Names(e[p]) = ReadFile(files, p, g)
    OBVIOUS
  <2> QED
    BY FileNames
<1>4. "config" \in D /\ "ssh_config" \in D
  OBVIOUS
<1> HIDE DEF D
<1>5. Reads(read)
  <2> DEFINE g == [p \in D |-> Names(e[p])]
  <2>1. \A p \in D : g[p] = ReadFile(files, p, g)
    <3> TAKE p \in D
    <3>1. \A q \in D : depth[q] < depth[p] => g[q] = Names(e[q])
      OBVIOUS
    <3>2. g[p] = Names(e[p])
      OBVIOUS
    <3> HIDE DEF g
    <3> QED
      BY <1>3, <3>1, <3>2
  <2>2. Reads(g)
    <3> DEFINE h == [p \in D |-> ReadFile(files, p, g)]
    <3>1. \A p \in D : g[p] = h[p]
      BY <2>1
    <3>2. g = h
      BY <3>1
    <3> QED
      BY <3>2
  <2> HIDE DEF g, Reads
  <2> QED
    BY <2>2
<1> HIDE DEF read
<1>6. \A p \in D : read[p] = ReadFile(files, p, read)
  BY <1>5
<1> DEFINE Q == {p \in D : read[p] = Names(e[p])}
<1>7. \A p \in D : (\A q \in D : depth[q] < depth[p] => q \in Q) => p \in Q
  <2> SUFFICES ASSUME NEW p \in D, \A q \in D : depth[q] < depth[p] => q \in Q
               PROVE  read[p] = Names(e[p])
    OBVIOUS
  <2>1. \A q \in D : depth[q] < depth[p] => read[q] = Names(e[q])
    OBVIOUS
  <2> QED
    BY <1>3, <1>6, <2>1
<1>8. \A p \in D : read[p] = Names(e[p])
  <2> HIDE DEF Q
  <2>1. D \subseteq Q
    BY <1>1, <1>7, DepthInduction
  <2> QED
    BY <2>1 DEF Q
<1> QED
  BY <1>2, <1>4, <1>8

\* What the extension reads is what ssh reads: the names of the configuration, in the
\* order of its lines, are those of ReadingOrder.
LEMMA ConfigurationIs ==
    ASSUME NEW d \in Disk
    PROVE  /\ LoadFromFS(Content[d]) \in Seq(Lines(Content[d]))
           /\ Named(Lines(Content[d]))
           /\ Names(LoadFromFS(Content[d])) = ReadingOrder(Content[d])
<1> DEFINE files == Content[d]
           S == Lines(files)
<1>1. {"config", "ssh_config"} \subseteq DOMAIN files
  BY ContentIsReadable
<1>2. PICK depth, n : Readable(files, depth, n)
  BY ContentIsReadable
<1> HIDE DEF files
<1>3. PICK e \in [DOMAIN files -> Seq(S)] :
          \A p \in DOMAIN files : /\ e[p] = Expand(TopLevel(files[p]), e)
                                  /\ ParseSSHConfigFromFile(files, p) = e[p]
  BY <1>2, FilesExpand
<1>4. Named(S)
  BY <1>2 DEF Readable, Lines, Named
<1>5. ReadingOrder(files) = Names(e["config"]) \o Names(e["ssh_config"])
  BY <1>1, <1>2, <1>3, FilesRead
<1> DEFINE a == e["config"]
           b == e["ssh_config"]
<1>6. LoadFromFS(files) = a \o b /\ a \in Seq(S) /\ b \in Seq(S)
  BY <1>1, <1>3 DEF LoadFromFS
<1> HIDE DEF a, b, S
<1>7. a \o b \in Seq(S)
  BY <1>6, ConcatProperties
<1>8. Names(a \o b) = Names(a) \o Names(b)
  BY <1>4, <1>6, NamesConcat
<1> QED
  BY <1>4, <1>5, <1>6, <1>7, <1>8 DEF S, a, b, files

-----------------------------------------------------------------------------
(* The hosts of a configuration *)

\* The hosts are the names that are no patterns, each where it is first named.
Firsts(hosts, names) ==
    /\ Range(hosts) = Range(names) \ Pattern
    /\ \A a, b \in DOMAIN hosts :
        a < b => \E k \in DOMAIN names : names[k] = hosts[a] /\ \A j \in 1..k : names[j] # hosts[b]

LEMMA FirstsOfMore ==
    ASSUME NEW hosts \in Seq(Hostname), NEW names \in Seq(Name), Firsts(hosts, names),
           NEW x \in Name
    PROVE  /\ x \in Pattern \cup Range(hosts) => Firsts(hosts, Append(names, x))
           /\ x \notin Pattern \cup Range(hosts) => /\ Append(hosts, x) \in Seq(Hostname)
                                                    /\ Firsts(Append(hosts, x), Append(names, x))
<1> DEFINE more == Append(names, x)
           n == Len(names)
<1>1. n \in Nat /\ DOMAIN names = 1..n /\ DOMAIN more = 1..(n + 1) /\ \A k \in 1..n : more[k] = names[k]
  OBVIOUS
<1>2. Range(more) = Range(names) \cup {x}
  BY RangeOfAppend
<1> HIDE DEF more, n
<1>3. ASSUME NEW h \in Range(hosts), NEW g,
             \E k \in DOMAIN names : names[k] = h /\ \A j \in 1..k : names[j] # g
      PROVE  \E k \in DOMAIN more : more[k] = h /\ \A j \in 1..k : more[j] # g
  <2>1. PICK k \in 1..n : names[k] = h /\ \A j \in 1..k : names[j] # g
    BY <1>1, <1>3
  <2>2. k \in DOMAIN more /\ \A j \in 1..k : j \in 1..n
    BY <1>1
  <2> QED
    BY <1>1, <2>1, <2>2
<1>4. \A a \in DOMAIN hosts : hosts[a] \in Range(hosts)
  BY DEF Range
<1>5. ASSUME x \in Pattern \cup Range(hosts)
      PROVE  Firsts(hosts, more)
  <2>1. Range(hosts) = Range(more) \ Pattern
    BY <1>2, <1>5 DEF Firsts
  <2>2. ASSUME NEW a \in DOMAIN hosts, NEW b \in DOMAIN hosts, a < b
        PROVE  \E k \in DOMAIN more : more[k] = hosts[a] /\ \A j \in 1..k : more[j] # hosts[b]
    <3>1. \E k \in DOMAIN names : names[k] = hosts[a] /\ \A j \in 1..k : names[j] # hosts[b]
      BY <2>2 DEF Firsts
    <3> QED
      BY <1>3, <1>4, <3>1
  <2> QED
    BY <2>1, <2>2 DEF Firsts
<1>6. ASSUME x \notin Pattern \cup Range(hosts)
      PROVE  Append(hosts, x) \in Seq(Hostname) /\ Firsts(Append(hosts, x), more)
  <2> DEFINE longer == Append(hosts, x)
             m == Len(hosts)
  <2>1. x \in Hostname
    BY <1>6 DEF Name
  <2>2. /\ longer \in Seq(Hostname) /\ m \in Nat /\ DOMAIN hosts = 1..m
        /\ DOMAIN longer = 1..(m + 1) /\ longer[m + 1] = x /\ \A a \in 1..m : longer[a] = hosts[a]
    BY <2>1
  <2>3. Range(longer) = Range(hosts) \cup {x}
    BY <2>1, RangeOfAppend
  <2> HIDE DEF longer, m
  <2>4. Range(longer) = Range(more) \ Pattern
    BY <1>2, <1>6, <2>3 DEF Firsts
  <2>5. x \notin Range(names)
    BY <1>6 DEF Firsts
  <2>6. ASSUME NEW a \in DOMAIN longer, NEW b \in DOMAIN longer, a < b
        PROVE  \E k \in DOMAIN more : more[k] = longer[a] /\ \A j \in 1..k : more[j] # longer[b]
    <3>1. a \in 1..m /\ longer[a] = hosts[a] /\ hosts[a] \in Range(hosts)
      BY <1>4, <2>2, <2>6
    <3>2. \E k \in DOMAIN names : names[k] = hosts[a] /\ \A j \in 1..k : names[j] # longer[b]
      <4>1. CASE b \in 1..m
        <5>1. longer[b] = hosts[b] /\ b \in DOMAIN hosts /\ a \in DOMAIN hosts
          BY <2>2, <3>1, <4>1
        <5> QED
          BY <2>6, <5>1 DEF Firsts
      <4>2. CASE b \notin 1..m
        <5>1. longer[b] = x
          <6>1. b = m + 1
            BY <2>2, <4>2
          <6> QED
            BY <2>2, <6>1
        <5>2. hosts[a] \in Range(names)
          BY <3>1 DEF Firsts
        <5>3. PICK k \in DOMAIN names : names[k] = hosts[a]
          BY <5>2 DEF Range
        <5>4. \A j \in 1..k : names[j] \in Range(names)
          <6>1. \A j \in 1..k : j \in DOMAIN names
            BY <1>1, <5>3
          <6> QED
            BY <6>1 DEF Range
        <5> QED
          BY <2>5, <5>1, <5>3, <5>4
      <4> QED
        BY <4>1, <4>2
    <3> DEFINE h == hosts[a]
               g == longer[b]
    <3>3. h \in Range(hosts) /\ \E k \in DOMAIN names : names[k] = h /\ \A j \in 1..k : names[j] # g
      BY <3>1, <3>2
    <3> HIDE DEF h, g
    <3>4. \E k \in DOMAIN more : more[k] = h /\ \A j \in 1..k : more[j] # g
      BY <1>3, <3>3
    <3> QED
      BY <3>1, <3>4 DEF h, g
  <2>7. Firsts(longer, more)
    BY <2>4, <2>6 DEF Firsts
  <2> QED
    BY <2>2, <2>7 DEF longer
<1> QED
  BY <1>5, <1>6 DEF more

\* The hosts of a configuration are the names in it that are no patterns, once each, in
\* the order in which the lines name them first.
LEMMA HostsOfLines ==
    ASSUME NEW S, Named(S), NEW config \in Seq(S)
    PROVE  /\ GetAllConfiguredHosts(config) \in Seq(Hostname)
           /\ Firsts(GetAllConfiguredHosts(config), Names(config))
<1> DEFINE n == Len(config)
           A == Seq(Hostname)
           New(hosts, line) == IsHostSection(line) /\ line.names[1] \notin Pattern \cup Range(hosts)
           Step(hosts, line) == IF New(hosts, line) THEN Append(hosts, line.names[1]) ELSE hosts
           t == [i \in 1..n |-> [hosts \in A |-> Step(hosts, config[i])]]
           Folds(g) == g = [s \in SUBSET (1..n) |->
                               IF s = {} THEN <<>>
                               ELSE Step(g[s \ {Max(s)}], config[Max(s)])]
           iter == CHOOSE g : Folds(g)
           read(i) == Names(SubSeq(config, 1, i))
           Kept(hosts, i) == hosts \in A /\ Firsts(hosts, read(i))
           P == {i \in Nat : i <= n => Kept(iter[1..i], i)}
<1>1. n \in Nat /\ DOMAIN config = 1..n /\ \A i \in 1..n : config[i] \in S
  OBVIOUS
<1>2. \A hosts \in A : \A i \in 1..n : Step(hosts, config[i]) \in A
  <2> TAKE hosts \in A
  <2> TAKE i \in 1..n
  <2>1. CASE New(hosts, config[i])
    <3>1. config[i].names[1] \in Hostname
      BY <1>1, <2>1 DEF Named, Name
    <3>2. Append(hosts, config[i].names[1]) \in A
      BY <3>1
    <3> QED
      BY <2>1, <3>2
  <2>2. CASE ~New(hosts, config[i])
    BY <2>2
  <2> QED
    BY <2>1, <2>2
<1>3. t \in [1..n -> [A -> A]]
  BY <1>2
<1>4. GetAllConfiguredHosts(config) = iter[1..n]
  BY <1>1 DEF GetAllConfiguredHosts, FoldLeft, MapThenFoldSet
<1> HIDE DEF New, Step, A, read
<1>5. \E g : Folds(g)
  <2>1. <<>> \in A
    BY DEF A
  <2>2. PICK g : FoldsBy(g, A, <<>>, t, n)
    <3> HIDE DEF t
    <3> QED
      BY <1>1, <1>3, <2>1, FoldExists
  <2>3. ASSUME NEW s \in SUBSET (1..n), s # {}
        PROVE  t[Max(s)][g[s \ {Max(s)}]] = Step(g[s \ {Max(s)}], config[Max(s)])
    <3>1. Max(s) \in 1..n
      BY <1>1, <2>3, MaxInSet
    <3>2. g[s \ {Max(s)}] \in A
      BY <2>2 DEF FoldsBy
    <3> QED
      BY <3>1, <3>2
  <2> HIDE DEF t
  <2>4. Folds(g)
    BY <2>2, <2>3 DEF FoldsBy
  <2> QED
    BY <2>4
<1>6. Folds(iter)
  BY <1>5
<1> HIDE DEF iter
<1>7. 0 \in P
  <2>1. 1..0 = {} /\ 1..0 \in SUBSET (1..n)
    OBVIOUS
  <2>2. iter[1..0] = <<>>
    BY <1>6, <2>1
  <2>3. read(0) = <<>>
    <3>1. SubSeq(config, 1, 0) = <<>>
      BY SubSeqEmpty
    <3>2. [i \in DOMAIN <<>> |-> NameOf(<<>>[i])] = <<>>
      OBVIOUS
    <3> QED
      BY <3>1, <3>2, FlattenEmpty DEF read, Names
  <2>4. Kept(<<>>, 0)
    <3>1. <<>> \in Seq(Hostname) /\ DOMAIN <<>> = {}
      OBVIOUS
    <3> QED
      BY <2>3, <3>1 DEF A, Firsts, Range
  <2> QED
    BY <2>2, <2>4
<1>8. ASSUME NEW i \in Nat, i \in P
      PROVE  i + 1 \in P
  <2> SUFFICES ASSUME i + 1 <= n
               PROVE  Kept(iter[1..(i + 1)], i + 1)
    OBVIOUS
  <2>1. iter[1..(i + 1)] = Step(iter[1..i], config[i + 1])
    <3> DEFINE s == 1..(i + 1)
    <3>1. s \in SUBSET (1..n) /\ s # {} /\ Max(s) = i + 1 /\ s \ {i + 1} = 1..i
      BY <1>1, FirstPositions
    <3> HIDE DEF s
    <3>2. iter[s] = Step(iter[s \ {Max(s)}], config[Max(s)])
      BY <1>6, <3>1
    <3>3. iter[s] = Step(iter[1..i], config[i + 1])
      BY <3>1, <3>2
    <3> QED
      BY <3>3 DEF s
  <2> DEFINE hosts == iter[1..i]
             line == config[i + 1]
             before == SubSeq(config, 1, i)
             x == line.names[1]
  <2>2. Kept(hosts, i) /\ line \in S
    BY <1>1, <1>8
  <2>3. before \in Seq(S) /\ SubSeq(config, 1, i + 1) = Append(before, line)
    <3>1. \A k \in 1..i : config[k] \in S
      BY <1>1
    <3>2. before \in Seq(S)
      BY <3>1, SubSeqProperties
    <3>3. SubSeq(config, 1, i + 1) = SubSeq(config, 1, i + 1 - 1) \o <<config[i + 1]>>
      <4>1. 1 \in 1..Len(config) /\ i + 1 \in 1..Len(config)
        BY <1>1
      <4> QED
        BY <4>1, SubSeqRecursiveSecond
    <3>4. i + 1 - 1 = i
      OBVIOUS
    <3>5. SubSeq(config, 1, i + 1) = before \o <<line>>
      BY <3>3, <3>4
    <3> HIDE DEF before, line
    <3> QED
      BY <2>2, <3>2, <3>5, AppendIsConcat
  <2> HIDE DEF before, line, hosts
  <2>4. /\ Names(before) \in Seq(Name) /\ NameOf(line) \in Seq(Name)
        /\ read(i + 1) = Names(before) \o NameOf(line)
    BY <2>2, <2>3, NamesAppend DEF read
  <2>5. hosts \in Seq(Hostname) /\ Firsts(hosts, Names(before))
    BY <2>2 DEF A, read, before
  <2>6. CASE IsHostSection(line)
    <3>1. x \in Name /\ NameOf(line) = <<x>>
      BY <2>2, <2>6 DEF Named, NameOf
    <3> HIDE DEF x
    <3>2. read(i + 1) = Append(Names(before), x)
      BY <2>4, <3>1
    <3>3. CASE x \in Pattern \cup Range(hosts)
      <4>1. Step(hosts, line) = hosts
        BY <3>3 DEF Step, New, x
      <4>2. Firsts(hosts, read(i + 1))
        BY <2>4, <2>5, <3>1, <3>2, <3>3, FirstsOfMore
      <4> QED
        BY <2>1, <2>5, <4>1, <4>2 DEF hosts, line, A
    <3>4. CASE x \notin Pattern \cup Range(hosts)
      <4>1. Step(hosts, line) = Append(hosts, x)
        BY <2>6, <3>4 DEF Step, New, x
      <4>2. Append(hosts, x) \in Seq(Hostname) /\ Firsts(Append(hosts, x), read(i + 1))
        BY <2>4, <2>5, <3>1, <3>2, <3>4, FirstsOfMore
      <4> QED
        BY <2>1, <4>1, <4>2 DEF hosts, line, A
    <3> QED
      BY <3>3, <3>4
  <2>7. CASE ~IsHostSection(line)
    <3>1. Step(hosts, line) = hosts
      BY <2>7 DEF Step, New
    <3>2. NameOf(line) = <<>>
      BY <2>7 DEF NameOf
    <3>3. read(i + 1) = Names(before)
      BY <2>4, <3>2
    <3> QED
      BY <2>1, <2>5, <3>1, <3>3 DEF hosts, line, A
  <2> QED
    BY <2>6, <2>7
<1> HIDE DEF P
<1>9. n \in P
  <2>1. Nat \subseteq P
    BY <1>7, <1>8, NumberInduction
  <2> QED
    BY <1>1, <2>1
<1>10. Kept(iter[1..n], n)
  BY <1>1, <1>9 DEF P
<1>11. read(n) = Names(config)
  BY SubSeqFull DEF read
<1> QED
  BY <1>4, <1>10, <1>11 DEF A

\* The hosts of a tree, with the names of the files in the order in which ssh reads them.
LEMMA ShownInOrder ==
    ASSUME NEW d \in Disk
    PROVE  /\ HostsOf(d) \in Seq(Hostname)
           /\ ReadingOrder(Content[d]) \in Seq(Name)
           /\ Firsts(HostsOf(d), ReadingOrder(Content[d]))
<1> DEFINE S == Lines(Content[d])
           config == LoadFromFS(Content[d])
<1>1. config \in Seq(S) /\ Named(S) /\ Names(config) = ReadingOrder(Content[d])
  BY ConfigurationIs
<1> HIDE DEF S, config
<1>2. Names(config) \in Seq(Name)
  BY <1>1, NamesConcat
<1>3. GetAllConfiguredHosts(config) \in Seq(Hostname) /\ Firsts(GetAllConfiguredHosts(config), Names(config))
  BY <1>1, HostsOfLines
<1> QED
  BY <1>1, <1>2, <1>3 DEF HostsOf, config

-----------------------------------------------------------------------------
(* A location taken out of a history *)

\* A location is taken out of a list of them, and nothing else is.
LEMMA WithoutIs ==
    ASSUME NEW locations \in Seq(Path), NEW path
    PROVE  /\ Without(locations, path) \in Seq(Path)
           /\ Range(Without(locations, path)) = Range(locations) \ {path}
           /\ IsInjective(locations) => IsInjective(Without(locations, path))
<1> DEFINE n == Len(locations)
           A == Seq(Path)
           Step(kept, l) == IF l # path THEN Append(kept, l) ELSE kept
           t == [i \in 1..n |-> [kept \in A |-> Step(kept, locations[i])]]
           Folds(g) == g = [s \in SUBSET (1..n) |->
                               IF s = {} THEN <<>>
                               ELSE Step(g[s \ {Max(s)}], locations[Max(s)])]
           iter == CHOOSE g : Folds(g)
           Before(i) == {locations[j] : j \in 1..i}
           Kept(kept, i) == /\ kept \in A
                            /\ Range(kept) = Before(i) \ {path}
                            /\ IsInjective(locations) => IsInjective(kept)
           P == {i \in Nat : i <= n => Kept(iter[1..i], i)}
<1>1. n \in Nat /\ DOMAIN locations = 1..n /\ \A i \in 1..n : locations[i] \in Path
  OBVIOUS
<1>2. t \in [1..n -> [A -> A]]
  <2>1. \A kept \in A : \A i \in 1..n : Step(kept, locations[i]) \in A
    BY <1>1
  <2> QED
    BY <2>1
<1>3. Without(locations, path) = iter[1..n]
  BY <1>1 DEF Without, FoldLeft, MapThenFoldSet
<1> HIDE DEF Step, A
<1>4. \E g : Folds(g)
  <2>1. <<>> \in A
    BY DEF A
  <2>2. PICK g : FoldsBy(g, A, <<>>, t, n)
    <3> HIDE DEF t
    <3> QED
      BY <1>1, <1>2, <2>1, FoldExists
  <2>3. ASSUME NEW s \in SUBSET (1..n), s # {}
        PROVE  t[Max(s)][g[s \ {Max(s)}]] = Step(g[s \ {Max(s)}], locations[Max(s)])
    <3>1. Max(s) \in 1..n
      BY <1>1, <2>3, MaxInSet
    <3>2. g[s \ {Max(s)}] \in A
      BY <2>2 DEF FoldsBy
    <3> QED
      BY <3>1, <3>2
  <2> HIDE DEF t
  <2>4. Folds(g)
    BY <2>2, <2>3 DEF FoldsBy
  <2> QED
    BY <2>4
<1>5. Folds(iter)
  BY <1>4
<1> HIDE DEF iter
<1>6. 0 \in P
  <2>1. 1..0 = {} /\ 1..0 \in SUBSET (1..n)
    OBVIOUS
  <2>2. iter[1..0] = <<>>
    BY <1>5, <2>1
  <2>3. Kept(<<>>, 0)
    BY DEF A, Range, IsInjective
  <2> QED
    BY <2>2, <2>3
<1>7. ASSUME NEW i \in Nat, i \in P
      PROVE  i + 1 \in P
  <2> SUFFICES ASSUME i + 1 <= n
               PROVE  Kept(iter[1..(i + 1)], i + 1)
    OBVIOUS
  <2>1. iter[1..(i + 1)] = Step(iter[1..i], locations[i + 1])
    <3> DEFINE s == 1..(i + 1)
    <3>1. s \in SUBSET (1..n) /\ s # {} /\ Max(s) = i + 1 /\ s \ {i + 1} = 1..i
      BY <1>1, FirstPositions
    <3> HIDE DEF s
    <3>2. iter[s] = Step(iter[s \ {Max(s)}], locations[Max(s)])
      BY <1>5, <3>1
    <3>3. iter[s] = Step(iter[1..i], locations[i + 1])
      BY <3>1, <3>2
    <3> QED
      BY <3>3 DEF s
  <2> DEFINE kept == iter[1..i]
             l == locations[i + 1]
  <2>2. Kept(kept, i) /\ l \in Path
    BY <1>1, <1>7
  <2>3. Before(i + 1) = Before(i) \cup {l}
    <3>1. \A j \in 1..(i + 1) : j \in 1..i \/ j = i + 1
      OBVIOUS
    <3>2. i + 1 \in 1..(i + 1) /\ \A j \in 1..i : j \in 1..(i + 1)
      OBVIOUS
    <3> QED
      BY <3>1, <3>2
  <2>4. IsInjective(locations) => l \notin Before(i)
    <3>1. \A j \in 1..i : j \in 1..n /\ j # i + 1
      BY <1>1
    <3>2. i + 1 \in 1..n
      BY <1>1
    <3> QED
      BY <1>1, <3>1, <3>2 DEF IsInjective
  <2> HIDE DEF kept, l, Before
  <2>5. CASE l = path
    <3>1. Kept(kept, i + 1)
      BY <2>2, <2>3, <2>5
    <3> QED
      BY <2>1, <2>5, <3>1 DEF Step, kept, l
  <2>6. CASE l # path
    <3>1. /\ Append(kept, l) \in A
          /\ Range(Append(kept, l)) = Range(kept) \cup {l}
          /\ l \notin Range(kept) /\ IsInjective(kept) => IsInjective(Append(kept, l))
      BY <2>2, RangeOfAppend DEF A
    <3>2. Kept(Append(kept, l), i + 1)
      BY <2>2, <2>3, <2>4, <2>6, <3>1
    <3> QED
      BY <2>1, <2>6, <3>2 DEF Step, kept, l
  <2> QED
    BY <2>5, <2>6
<1>8. n \in P
  <2> HIDE DEF P
  <2>1. Nat \subseteq P
    BY <1>6, <1>7, NumberInduction
  <2> QED
    BY <1>1, <2>1
<1>9. Before(n) = Range(locations)
  BY <1>1 DEF Range
<1> HIDE DEF Before
<1>10. Kept(iter[1..n], n)
  BY <1>1, <1>8
<1> QED
  BY <1>3, <1>9, <1>10 DEF A

-----------------------------------------------------------------------------
(* Type correctness *)

History == [Hostname -> Seq(Path)]

Shown == {Tree(d) : d \in Disk}

\* An authority and the destination it stands for.
Meant(a, g) ==
    \/ a = None /\ g = None
    \/ g \in Destinations /\ a = AuthorityOf(g)
    \/ \E f \in Foreign : a = f.authority /\ g = f.meant

Shows ==
    /\ tree \in [Window -> Shown \cup {None}]
    /\ \A w \in Window : tree[w] # None <=> win[w] = "open"

Aims ==
    /\ DOMAIN authority = Window /\ DOMAIN goal = Window
    /\ \A w \in Window : /\ Meant(authority[w], goal[w])
                         /\ folder[w] # None => authority[w] # None
                         /\ win[w] = "none" => authority[w] = None

Stored ==
    /\ store \in History
    /\ history \in [Window -> History]
    /\ visited \subseteq Hostname \X Path
    /\ behind \subseteq {w \in Window : win[w] = "open"}
    /\ orderly \in BOOLEAN

TypeInv ==
    /\ disk \in Disk
    /\ win \in [Window -> {"none", "starting", "open", "closed"}]
    /\ folder \in [Window -> Path \cup {None}]
    /\ Shows
    /\ Aims
    /\ Stored

LEMMA ShownHosts ==
    ASSUME NEW d \in Disk
    PROVE  /\ Tree(d) \in Shown /\ Tree(d) # None
           /\ Tree(d).files = d /\ Tree(d).hosts = HostsOf(d)
           /\ Range(HostsOf(d)) \subseteq Hostname
<1>1. HostsOf(d) \in Seq(Hostname)
  BY ShownInOrder
<1>2. Range(HostsOf(d)) \subseteq Hostname
  BY <1>1 DEF Range
<1>3. Tree(d) # None
  BY NameAssumption
<1> QED
  BY <1>2, <1>3 DEF Shown, Tree

LEMMA NoHistoryType == NoHistory \in History
  BY DEF NoHistory, History

\* What a window means is in the form that the resolver is given.
LEMMA MeantTypes ==
    ASSUME NEW a, NEW g, Meant(a, g)
    PROVE  (a = None <=> g = None) /\ (g # None => g.hostname \in Hostname)
<1>1. ASSUME g \in Destinations, a = AuthorityOf(g)
      PROVE  a # None /\ g # None /\ g.hostname \in Hostname
  BY <1>1, NameAssumption
<1>2. ASSUME NEW f \in Foreign, a = f.authority, g = f.meant
      PROVE  a # None /\ g # None /\ g.hostname \in Hostname
  BY <1>2, ForeignAssumption
<1> QED
  BY <1>1, <1>2 DEF Meant

LEMMA InitTypeInv == Init => TypeInv
<1> SUFFICES ASSUME Init PROVE TypeInv
  OBVIOUS
<1>1. Shows /\ Aims
  BY DEF Init, Shows, Aims, Meant
<1>2. Stored
  BY NoHistoryType DEF Init, Stored
<1> QED
  BY <1>1, <1>2 DEF Init, TypeInv

LEMMA StartsTypeInv ==
    ASSUME TypeInv, NEW w \in Window, win[w] = "none", NEW auth, NEW meant, Meant(auth, meant),
           NEW path \in Path \cup {None}, path # None => auth # None,
           NEW replaced \in SUBSET {v \in Window : win[v] = "open"},
           Starts(w, auth, path, meant, replaced)
    PROVE  TypeInv'
<1> USE DEF TypeInv, Starts, Ended
<1>1. win' \in [Window -> {"none", "starting", "open", "closed"}]
  OBVIOUS
<1>2. Shows'
  BY DEF Shows
<1>3. Aims'
  BY DEF Aims, Meant
<1>4. Stored'
  BY NoHistoryType DEF Stored
<1> QED
  BY <1>1, <1>2, <1>3, <1>4

LEMMA AddedType ==
    ASSUME NEW h \in History, NEW host, NEW path \in Path
    PROVE  Added(h, host, path) \in History
<1>1. CASE host \in Hostname
  BY <1>1 DEF Added, History
<1>2. CASE host \notin Hostname
  BY <1>2 DEF Added, History
<1> QED
  BY <1>1, <1>2

LEMMA RemovedType ==
    ASSUME NEW h \in History, NEW host \in Hostname, NEW path
    PROVE  Removed(h, host, path) \in History
<1>1. Without(h[host], path) \in Seq(Path)
  BY WithoutIs DEF History
<1> QED
  BY <1>1 DEF Removed, History

LEMMA ActivateTypeInv ==
    ASSUME TypeInv, NEW w \in Window, Activate(w)
    PROVE  TypeInv'
<1> USE DEF TypeInv, Activate
<1>1. Shows'
  BY ShownHosts DEF Shows
<1>2. Aims'
  BY DEF Aims, Meant
<1>3. Stored'
  <2>1. CASE folder[w] = None
    BY <2>1 DEF Stored
  <2>2. CASE folder[w] # None
    <3>1. folder[w] \in Path
      BY <2>2
    <3>2. <<goal[w].hostname, folder[w]>> \in Hostname \X Path
      BY <2>2, <3>1, MeantTypes DEF Aims
    <3> DEFINE added == Added(store, DestinationOf(authority[w]).hostname, folder[w])
    <3>3. added \in History
      BY <3>1, AddedType DEF Stored
    <3>4. history' = [history EXCEPT ![w] = added]
      BY <2>2
    <3> HIDE DEF added
    <3>5. history' \in [Window -> History] /\ store' \in History
      BY <2>2, <3>3, <3>4 DEF Stored, Written
    <3>6. visited' \subseteq Hostname \X Path
      BY <2>2, <3>2 DEF Stored
    <3>7. behind' \subseteq {v \in Window : win'[v] = "open"} /\ orderly' \in BOOLEAN
      BY <2>2 DEF Stored, Written
    <3> QED
      BY <3>5, <3>6, <3>7 DEF Stored
  <2> QED
    BY <2>1, <2>2
<1> QED
  BY <1>1, <1>2, <1>3

LEMMA DeleteTypeInv ==
    ASSUME TypeInv, NEW v \in Window, DeleteHostLocation(v)
    PROVE  TypeInv'
<1> USE DEF TypeInv, DeleteHostLocation
<1>1. Shows'
  BY ShownHosts DEF Shows
<1>2. Aims'
  BY DEF Aims, Meant
<1>3. Stored'
  <2>1. PICK l \in Locations(v) :
            /\ history' = [history EXCEPT ![v] = Removed(@, l[1], l[2])]
            /\ visited' = visited \ {l}
    OBVIOUS
  <2>2. l[1] \in Hostname
    BY ShownHosts DEF Locations, Shows, Shown
  <2>3. Removed(history[v], l[1], l[2]) \in History
    BY <2>2, RemovedType DEF Stored
  <2>4. history' \in [Window -> History] /\ store' \in History
    BY <2>1, <2>3 DEF Stored, Written
  <2> QED
    BY <2>1, <2>4 DEF Stored, Written
<1> QED
  BY <1>1, <1>2, <1>3

\* A destination that is picked, typed or taken from the tree.
LEMMA HostsOffered ==
    ASSUME TypeInv, NEW v \in Window, win[v] = "open"
    PROVE  Range(HostsOf(disk)) \cup Range(tree[v].hosts) \subseteq Hostname
  BY ShownHosts DEF TypeInv, Shows, Shown

LEMMA WindowTypeInv ==
    ASSUME TypeInv, NEW w \in Window, NEW v \in Window,
           OpenRemoteSSHWindow(w, v) \/ OpenRemoteSSHLocationWindow(w, v)
    PROVE  TypeInv'
<1>1. win[w] = "none" /\ win[v] = "open"
  BY DEF OpenRemoteSSHWindow, OpenRemoteSSHLocationWindow
<1>2. PICK d \in Destinations, path \in Path \cup {None}, replaced \in {{}, {v}} :
          Starts(w, AuthorityOf(d), path, d, replaced)
  <2>1. CASE OpenRemoteSSHWindow(w, v)
    <3>1. Typed \cup {Alias(h) : h \in Range(HostsOf(disk)) \cup Range(tree[v].hosts)}
              \subseteq Destinations
      BY <1>1, HostsOffered DEF Destinations
    <3> QED
      BY <2>1, <3>1 DEF OpenRemoteSSHWindow
  <2>2. CASE OpenRemoteSSHLocationWindow(w, v)
    <3>1. PICK l \in Locations(v), replaced \in {{}, {v}} :
              Starts(w, AuthorityOf(Alias(l[1])), l[2], Alias(l[1]), replaced)
      BY <2>2 DEF OpenRemoteSSHLocationWindow
    <3>2. l[1] \in Hostname /\ l[2] \in Path
      BY <1>1, HostsOffered DEF Locations
    <3>3. Alias(l[1]) \in Destinations
      BY <3>2 DEF Destinations
    <3> QED
      BY <3>1, <3>2, <3>3
  <2> QED
    BY <2>1, <2>2
<1> DEFINE auth == AuthorityOf(d)
<1>3. Meant(auth, d) /\ auth # None
  BY NameAssumption DEF Meant
<1>4. replaced \in SUBSET {u \in Window : win[u] = "open"}
  BY <1>1
<1>5. Starts(w, auth, path, d, replaced)
  BY <1>2
<1> HIDE DEF auth
<1> QED
  BY <1>1, <1>3, <1>4, <1>5, StartsTypeInv

LEMMA OpenTypeInv ==
    ASSUME TypeInv, NEW w \in Window, OpenLocalWindow(w) \/ OpenRecent(w)
    PROVE  TypeInv'
<1>1. {} \in SUBSET {u \in Window : win[u] = "open"}
  OBVIOUS
<1>2. CASE OpenLocalWindow(w)
  <2>1. Meant(None, None)
    BY DEF Meant
  <2> QED
    BY <1>1, <1>2, <2>1, StartsTypeInv DEF OpenLocalWindow
<1>3. ASSUME NEW f \in Foreign, NEW p \in Path, win[w] = "none",
             Starts(w, f.authority, p, f.meant, {})
      PROVE  TypeInv'
  <2>1. Meant(f.authority, f.meant) /\ f.authority # None
    BY ForeignAssumption DEF Meant
  <2> QED
    BY <1>1, <1>3, <2>1, StartsTypeInv
<1>4. ASSUME NEW v \in Window, folder[v] # None, win[w] = "none",
             Starts(w, authority[v], folder[v], goal[v], {})
      PROVE  TypeInv'
  <2>1. Meant(authority[v], goal[v]) /\ authority[v] # None /\ folder[v] \in Path \cup {None}
    BY <1>4 DEF TypeInv, Aims
  <2> QED
    BY <1>1, <1>4, <2>1, StartsTypeInv
<1> QED
  BY <1>2, <1>3, <1>4 DEF OpenRecent

LEMMA NextTypeInv == TypeInv /\ [Next]_vars => TypeInv'
<1> SUFFICES ASSUME TypeInv, [Next]_vars PROVE TypeInv'
  OBVIOUS
<1>1. ASSUME NEW w \in Window, OpenFolder(w) \/ CloseWindow(w)
      PROVE  TypeInv'
  <2> USE DEF TypeInv, OpenFolder, CloseWindow, Ended
  <2>1. /\ win' \in [Window -> {"none", "starting", "open", "closed"}]
        /\ folder' \in [Window -> Path \cup {None}]
    BY <1>1
  <2>2. Shows'
    BY <1>1 DEF Shows
  <2>3. Aims'
    BY <1>1 DEF Aims, Meant
  <2>4. Stored'
    BY <1>1, NoHistoryType DEF Stored
  <2> QED
    BY <1>1, <2>1, <2>2, <2>3, <2>4
<1>2. ASSUME NEW v \in Window, SaveConfig(v) \/ Refresh(v)
      PROVE  TypeInv'
  <2> USE DEF TypeInv, SaveConfig, Refresh
  <2>1. disk' \in Disk
    BY <1>2
  <2>2. Shows'
    BY <1>2, <2>1, ShownHosts DEF Shows
  <2>3. Aims' /\ Stored'
    BY <1>2 DEF Aims, Meant, Stored
  <2> QED
    BY <1>2, <2>1, <2>2, <2>3
<1>3. CASE UNCHANGED vars
  BY <1>3 DEF vars, TypeInv, Shows, Aims, Meant, Stored
<1> QED
  BY <1>1, <1>2, <1>3, OpenTypeInv, WindowTypeInv, ActivateTypeInv, DeleteTypeInv DEF Next

LEMMA TypeInvariant == Spec => []TypeInv
  BY InitTypeInv, NextTypeInv, PTL DEF Spec

\* Every variable of the windows keeps its type: a window shows hosts of some content of
\* the files, means a destination exactly if it has an authority, and the history has
\* folders under hosts.
THEOREM TypeCorrect == Spec => []TypeOK
<1>1. TypeInv => TypeOK
  <2> SUFFICES ASSUME TypeInv PROVE TypeOK
    OBVIOUS
  <2>1. ASSUME NEW h \in History PROVE IsHistory(h)
    BY DEF IsHistory, History, Range
  <2>2. \A w \in Window : tree[w] # None =>
            tree[w].files \in Disk /\ Range(tree[w].hosts) \subseteq Hostname
    BY ShownHosts DEF TypeInv, Shows, Shown
  <2>3. \A w \in Window : /\ authority[w] = None <=> goal[w] = None
                          /\ goal[w] # None => goal[w].hostname \in Hostname
    BY MeantTypes DEF TypeInv, Aims
  <2> QED
    BY <2>1, <2>2, <2>3 DEF TypeOK, TypeInv, Shows, Stored
<1> QED
  BY <1>1, TypeInvariant, PTL

-----------------------------------------------------------------------------
(* The hosts are shown in the order in which they are read *)

LEMMA MinIs ==
    ASSUME NEW I \in SUBSET Nat, I # {}
    PROVE  Min(I) \in I /\ \A i \in I : Min(I) <= i
<1>1. \E x \in I : \A y \in I : x <= y
  BY LeastNumber
<1> QED
  BY <1>1 DEF Min

\* Where a name is read first.
LEMMA FirstIs ==
    ASSUME NEW names \in Seq(Name), NEW h \in Range(names)
    PROVE  /\ SelectInSeq(names, LAMBDA n : n = h) \in DOMAIN names
           /\ names[SelectInSeq(names, LAMBDA n : n = h)] = h
           /\ \A k \in DOMAIN names : names[k] = h => SelectInSeq(names, LAMBDA n : n = h) <= k
<1> DEFINE I == {i \in 1..Len(names) : names[i] = h}
<1>1. I # {} /\ I \in SUBSET Nat /\ DOMAIN names = 1..Len(names)
  BY DEF Range
<1>2. SelectInSeq(names, LAMBDA n : n = h) = Min(I)
  BY <1>1 DEF SelectInSeq
<1>3. Min(I) \in I /\ \A i \in I : Min(I) <= i
  BY <1>1, MinIs
<1> QED
  BY <1>1, <1>2, <1>3

\* The tree of every open window shows each host of the files it was read from once, in
\* the order in which ssh reads them with the includes in place, and no pattern: for any
\* contents in which no file includes itself, however deep the includes are.
THEOREM HostsAreInOrder == Spec => []HostsInOrder
<1>1. TypeInv => HostsInOrder
  <2> SUFFICES ASSUME TypeInv, NEW w \in Window, win[w] = "open"
               PROVE  LET names == ReadingOrder(Content[tree[w].files])
                          first == [h \in Range(names) |-> SelectInSeq(names, LAMBDA n : n = h)]
                      IN  /\ Range(tree[w].hosts) = Range(names) \ Pattern
                          /\ \A i, j \in DOMAIN tree[w].hosts :
                              i < j => first[tree[w].hosts[i]] < first[tree[w].hosts[j]]
    BY DEF HostsInOrder
  <2>1. PICK d \in Disk : tree[w] = Tree(d)
    BY DEF TypeInv, Shows, Shown
  <2> DEFINE hosts == HostsOf(d)
             names == ReadingOrder(Content[d])
             first == [h \in Range(names) |-> SelectInSeq(names, LAMBDA n : n = h)]
  <2>2. tree[w].files = d /\ tree[w].hosts = hosts
    BY <2>1 DEF Tree
  <2>3. hosts \in Seq(Hostname) /\ names \in Seq(Name) /\ Firsts(hosts, names)
    BY ShownInOrder
  <2>4. \A h \in Range(names) : /\ first[h] \in DOMAIN names /\ names[first[h]] = h
                                /\ \A k \in DOMAIN names : names[k] = h => first[h] <= k
    <3> HIDE DEF names
    <3> QED
      BY <2>3, FirstIs
  <2> HIDE DEF hosts, names, first
  <2>5. Range(hosts) = Range(names) \ Pattern
    BY <2>3 DEF Firsts
  <2>6. ASSUME NEW i \in DOMAIN hosts, NEW j \in DOMAIN hosts, i < j
        PROVE  first[hosts[i]] < first[hosts[j]]
    <3>1. hosts[i] \in Range(names) /\ hosts[j] \in Range(names)
      BY <2>5 DEF Range
    <3>2. PICK k \in DOMAIN names : names[k] = hosts[i] /\ \A l \in 1..k : names[l] # hosts[j]
      BY <2>3, <2>6 DEF Firsts
    <3>3. first[hosts[i]] <= k
      BY <2>4, <3>1, <3>2
    <3>4. first[hosts[j]] \in DOMAIN names /\ names[first[hosts[j]]] = hosts[j]
      BY <2>4, <3>1
    <3>5. first[hosts[j]] \notin 1..k
      BY <3>2, <3>4
    <3>6. DOMAIN names = 1..Len(names) /\ Len(names) \in Nat
      BY <2>3
    <3>7. first[hosts[i]] \in DOMAIN names
      BY <2>4, <3>1
    <3> QED
      BY <3>3, <3>4, <3>5, <3>6, <3>7
  <2> QED
    BY <2>2, <2>5, <2>6 DEF names, first
<1> QED
  BY <1>1, TypeInvariant, PTL

-----------------------------------------------------------------------------
(* Destinations come back from their authorities *)

\* A text that nothing in it marks as encoded: no \xNN, no hex of JSON, and not hex
\* whose beginning spells a number, which parseEncoded takes for JSON as well.
Plain(dest) ==
    /\ Range(dest) \cap (Range(Escape) \cup DOMAIN Object) = {}
    /\ ~IsNumber(HexDecoded(Lowercased(ToEncodedString(dest))))

\* A host name has no "@" and no ":", nor has a port, and a user name has no ":".
Unambiguous(d) ==
    /\ {"@", ":"} \cap Range(d.hostname) = {}
    /\ d.user # None => ":" \notin Range(d.user)
    /\ d.port # None => {"@", ":"} \cap Range(d.port) = {}

Legible == \A d \in Destinations : Plain(Spelled(d)) /\ Unambiguous(d)

\* Where the pieces of three texts are in the text they make.
LEMMA Joined ==
    ASSUME NEW T, NEW a \in Seq(T), NEW b \in Seq(T), NEW c \in Seq(T), NEW s, s = a \o b \o c
    PROVE  /\ s \in Seq(T) /\ Len(s) = Len(a) + Len(b) + Len(c)
           /\ \A i \in 1..Len(a) : s[i] = a[i]
           /\ \A i \in 1..Len(b) : s[Len(a) + i] = b[i]
           /\ \A i \in 1..Len(c) : s[Len(a) + Len(b) + i] = c[i]
<1> DEFINE t == a \o b
<1>1. /\ t \in Seq(T) /\ Len(t) = Len(a) + Len(b)
      /\ \A i \in 1..(Len(a) + Len(b)) : t[i] = IF i <= Len(a) THEN a[i] ELSE b[i - Len(a)]
  BY ConcatProperties
<1>2. s = t \o c
  OBVIOUS
<1> HIDE DEF t
<1>3. /\ s \in Seq(T) /\ Len(s) = Len(t) + Len(c)
      /\ \A i \in 1..(Len(t) + Len(c)) : s[i] = IF i <= Len(t) THEN t[i] ELSE c[i - Len(t)]
  <2>1. t \in Seq(T)
    BY <1>1
  <2>2. /\ t \o c \in Seq(T) /\ Len(t \o c) = Len(t) + Len(c)
        /\ \A i \in 1..(Len(t) + Len(c)) :
              (t \o c)[i] = IF i <= Len(t) THEN t[i] ELSE c[i - Len(t)]
    BY <2>1, ConcatProperties
  <2> QED
    BY <1>2, <2>2, Zenon
<1>4. Len(a) \in Nat /\ Len(b) \in Nat /\ Len(c) \in Nat
  OBVIOUS
<1>5. \A i \in 1..Len(a) : s[i] = a[i]
  BY <1>1, <1>3, <1>4
<1>6. \A i \in 1..Len(b) : s[Len(a) + i] = b[i]
  <2> TAKE i \in 1..Len(b)
  <2>1. Len(a) + i \in 1..(Len(a) + Len(b)) /\ ~(Len(a) + i <= Len(a)) /\ Len(a) + i - Len(a) = i
    BY <1>4
  <2> QED
    BY <1>1, <1>3, <1>4, <2>1
<1>7. \A i \in 1..Len(c) : s[Len(a) + Len(b) + i] = c[i]
  <2> TAKE i \in 1..Len(c)
  <2>1. /\ Len(t) + i \in 1..(Len(t) + Len(c)) /\ ~(Len(t) + i <= Len(t))
        /\ Len(t) + i - Len(t) = i
    BY <1>1, <1>4
  <2> QED
    BY <1>1, <1>3, <2>1
<1> QED
  BY <1>1, <1>3, <1>5, <1>6, <1>7

\* lastIndexOf
LEMMA LastIs ==
    ASSUME NEW T, NEW s \in Seq(T), NEW x, NEW k \in 1..Len(s), s[k] = x,
           \A j \in 1..Len(s) : k < j => s[j] # x
    PROVE  LastIndex(s, x) = k
<1> DEFINE I == {i \in 1..Len(s) : s[i] = x}
<1>1. k \in I /\ I \in SUBSET Int /\ \A i \in I : k >= i
  OBVIOUS
<1>2. LastIndex(s, x) = IF I # {} THEN Max(I) ELSE 0
  BY DEF LastIndex, SelectLastInSeq
<1> HIDE DEF I
<1> QED
  BY <1>1, <1>2, MaxIs

LEMMA NoLast ==
    ASSUME NEW T, NEW s \in Seq(T), NEW x, \A j \in 1..Len(s) : s[j] # x
    PROVE  LastIndex(s, x) = 0
<1> DEFINE I == {i \in 1..Len(s) : s[i] = x}
<1>1. I = {}
  OBVIOUS
<1>2. LastIndex(s, x) = IF I # {} THEN Max(I) ELSE 0
  BY DEF LastIndex, SelectLastInSeq
<1> QED
  BY <1>1, <1>2

\* substring
LEMMA SubSeqIs ==
    ASSUME NEW T, NEW s \in Seq(T), NEW t \in Seq(T), NEW k \in Nat, k + Len(t) <= Len(s),
           \A i \in 1..Len(t) : s[k + i] = t[i]
    PROVE  SubSeq(s, k + 1, k + Len(t)) = t
<1> DEFINE u == SubSeq(s, k + 1, k + Len(t))
<1>1. Len(t) \in Nat /\ Len(s) \in Nat
  OBVIOUS
<1>2. \A i \in (k + 1)..(k + Len(t)) : s[i] \in T
  BY <1>1
<1>3. /\ u \in Seq(T) /\ Len(u) = IF k + 1 <= k + Len(t) THEN k + Len(t) - (k + 1) + 1 ELSE 0
      /\ \A i \in 1..(k + Len(t) - (k + 1) + 1) : u[i] = s[k + 1 + i - 1]
  BY <1>1, <1>2, SubSeqProperties
<1> HIDE DEF u
<1>4. Len(u) = Len(t)
  BY <1>1, <1>3
<1>5. \A i \in 1..Len(t) : u[i] = t[i]
  <2> TAKE i \in 1..Len(t)
  <2>1. i \in 1..(k + Len(t) - (k + 1) + 1) /\ k + 1 + i - 1 = k + i
    BY <1>1
  <2> QED
    BY <1>3, <2>1
<1>6. u = [i \in 1..Len(t) |-> u[i]] /\ t = [i \in 1..Len(t) |-> t[i]]
  BY <1>3, <1>4
<1>7. u = t
  BY <1>5, <1>6
<1> QED
  BY <1>7 DEF u

\* A destination that is typed as [user@]hostname[:port] is parsed back, and a host from
\* the configuration is.
LEMMA ParseSpelled ==
    ASSUME NEW d \in Destinations, Unambiguous(d)
    PROVE  /\ Parse(Spelled(d)) = d
           /\ Spelled(d) \in Seq(Range(Spelled(d)))
<1> DEFINE T == Range(d.hostname) \cup {"@", ":"} \cup UNION {Range(x) : x \in {d.user, d.port} \ {None}}
           a == IF d.user = None THEN <<>> ELSE d.user \o <<"@">>
           c == IF d.port = None THEN <<>> ELSE <<":">> \o d.port
           b == d.hostname
           s == Spelled(d)
<1>1. /\ d = Destination(d.hostname, d.user, d.port)
      /\ d.hostname \in Seq(Range(d.hostname))
      /\ d.user # None => d.user \in Seq(Range(d.user))
      /\ d.port # None => d.port \in Seq(Range(d.port))
  BY NameAssumption
<1>2. /\ Range(d.hostname) \subseteq T /\ "@" \in T /\ ":" \in T
      /\ d.user # None => Range(d.user) \subseteq T
      /\ d.port # None => Range(d.port) \subseteq T
  OBVIOUS
<1> HIDE DEF T
<1>3. /\ b \in Seq(T)
      /\ d.user # None => d.user \in Seq(T)
      /\ d.port # None => d.port \in Seq(T)
  BY <1>1, <1>2
<1>4. /\ a \in Seq(T)
      /\ d.user = None => Len(a) = 0
      /\ d.user # None => /\ Len(a) = Len(d.user) + 1 /\ a[Len(a)] = "@"
                          /\ \A i \in 1..Len(d.user) : a[i] = d.user[i]
  <2>1. CASE d.user = None
    BY <2>1
  <2>2. CASE d.user # None
    <3>1. a = d.user \o <<"@">> /\ d.user \in Seq(T) /\ <<"@">> \in Seq(T) /\ Len(<<"@">>) = 1
      BY <1>2, <1>3, <2>2
    <3>2. /\ a \in Seq(T) /\ Len(a) = Len(d.user) + 1
          /\ \A i \in 1..(Len(d.user) + 1) :
                a[i] = IF i <= Len(d.user) THEN d.user[i] ELSE <<"@">>[i - Len(d.user)]
      BY <3>1, ConcatProperties
    <3> QED
      BY <2>2, <3>1, <3>2
  <2> QED
    BY <2>1, <2>2
<1>5. /\ c \in Seq(T)
      /\ d.port = None => Len(c) = 0
      /\ d.port # None => /\ Len(c) = Len(d.port) + 1 /\ c[1] = ":"
                          /\ \A i \in 1..Len(d.port) : c[i + 1] = d.port[i]
  <2>1. CASE d.port = None
    BY <2>1
  <2>2. CASE d.port # None
    <3>1. c = <<":">> \o d.port /\ d.port \in Seq(T) /\ <<":">> \in Seq(T) /\ Len(<<":">>) = 1
      BY <1>2, <1>3, <2>2
    <3>2. /\ c \in Seq(T) /\ Len(c) = 1 + Len(d.port)
          /\ \A i \in 1..(1 + Len(d.port)) :
                c[i] = IF i <= 1 THEN <<":">>[i] ELSE d.port[i - 1]
      BY <3>1, ConcatProperties
    <3> QED
      BY <2>2, <3>1, <3>2
  <2> QED
    BY <2>1, <2>2
<1>6. s = a \o b \o c
  BY DEF Spelled
<1> HIDE DEF a, b, c, s
<1>7. /\ s \in Seq(T) /\ Len(s) = Len(a) + Len(b) + Len(c)
      /\ \A i \in 1..Len(a) : s[i] = a[i]
      /\ \A i \in 1..Len(b) : s[Len(a) + i] = b[i]
      /\ \A i \in 1..Len(c) : s[Len(a) + Len(b) + i] = c[i]
  BY <1>3, <1>4, <1>5, <1>6, Joined
<1>8. Len(a) \in Nat /\ Len(b) \in Nat /\ Len(c) \in Nat /\ Len(s) \in Nat
  BY <1>3, <1>4, <1>5, <1>7
<1>9. /\ d.user # None => Len(d.user) \in Nat /\ \A i \in 1..Len(d.user) : d.user[i] # ":"
      /\ d.port # None => /\ Len(d.port) \in Nat
                          /\ \A i \in 1..Len(d.port) : d.port[i] # ":" /\ d.port[i] # "@"
      /\ \A i \in 1..Len(b) : b[i] # ":" /\ b[i] # "@"
  <2>1. ASSUME NEW S, NEW x \in Seq(S), NEW i \in 1..Len(x)
        PROVE  x[i] \in Range(x)
    BY DEF Range
  <2>2. d.user # None => Len(d.user) \in Nat /\ \A i \in 1..Len(d.user) : d.user[i] # ":"
    <3>1. SUFFICES ASSUME d.user # None
                   PROVE  Len(d.user) \in Nat /\ \A i \in 1..Len(d.user) : d.user[i] # ":"
      OBVIOUS
    <3>2. d.user \in Seq(T) /\ ":" \notin Range(d.user)
      BY <1>3, <3>1 DEF Unambiguous
    <3>3. \A i \in 1..Len(d.user) : d.user[i] \in Range(d.user)
      BY <2>1, <3>2
    <3> QED
      BY <3>2, <3>3
  <2>3. d.port # None => /\ Len(d.port) \in Nat
                         /\ \A i \in 1..Len(d.port) : d.port[i] # ":" /\ d.port[i] # "@"
    <3>1. SUFFICES ASSUME d.port # None
                   PROVE  /\ Len(d.port) \in Nat
                          /\ \A i \in 1..Len(d.port) : d.port[i] # ":" /\ d.port[i] # "@"
      OBVIOUS
    <3>2. d.port \in Seq(T) /\ {"@", ":"} \cap Range(d.port) = {}
      BY <1>3, <3>1 DEF Unambiguous
    <3>3. \A i \in 1..Len(d.port) : d.port[i] \in Range(d.port)
      BY <2>1, <3>2
    <3> QED
      BY <3>2, <3>3
  <2>4. \A i \in 1..Len(b) : b[i] # ":" /\ b[i] # "@"
    <3>1. b \in Seq(T) /\ {"@", ":"} \cap Range(b) = {}
      BY <1>3 DEF Unambiguous, b
    <3>2. \A i \in 1..Len(b) : b[i] \in Range(b)
      BY <2>1, <3>1
    <3> QED
      BY <3>1, <3>2
  <2> QED
    BY <2>2, <2>3, <2>4
<1>10. ASSUME NEW j \in 1..Len(s)
       PROVE  \/ j \in 1..Len(a) /\ s[j] = a[j]
              \/ j - Len(a) \in 1..Len(b) /\ s[j] = b[j - Len(a)]
              \/ j - Len(a) - Len(b) \in 1..Len(c) /\ s[j] = c[j - Len(a) - Len(b)]
  <2>1. CASE j <= Len(a)
    BY <1>7, <1>8, <2>1
  <2>2. CASE Len(a) < j /\ j <= Len(a) + Len(b)
    <3>1. j - Len(a) \in 1..Len(b) /\ Len(a) + (j - Len(a)) = j
      BY <1>8, <2>2
    <3> QED
      BY <1>7, <3>1
  <2>3. CASE Len(a) + Len(b) < j
    <3>1. /\ j - Len(a) - Len(b) \in 1..Len(c)
          /\ Len(a) + Len(b) + (j - Len(a) - Len(b)) = j
      BY <1>7, <1>8, <2>3
    <3> QED
      BY <1>7, <3>1
  <2> QED
    BY <1>8, <2>1, <2>2, <2>3
<1>11. \A i \in 1..Len(c) : c[i] # "@" /\ (c[i] = ":" <=> i = 1)
  <2> SUFFICES ASSUME NEW i \in 1..Len(c)
               PROVE  c[i] # "@" /\ (c[i] = ":" <=> i = 1)
    OBVIOUS
  <2>1. d.port # None
    BY <1>5, <1>8
  <2>2. CASE i = 1
    BY <1>5, <2>1, <2>2
  <2>3. CASE i # 1
    <3>1. i - 1 \in 1..Len(d.port) /\ (i - 1) + 1 = i
      BY <1>5, <1>9, <2>1, <2>3
    <3> QED
      BY <1>5, <1>9, <2>1, <2>3, <3>1
  <2> QED
    BY <2>2, <2>3
<1>12. \A i \in 1..Len(a) : a[i] # ":"
  <2> SUFFICES ASSUME NEW i \in 1..Len(a)
               PROVE  a[i] # ":"
    OBVIOUS
  <2>1. d.user # None
    BY <1>4, <1>8
  <2>2. i \in 1..Len(d.user) \/ i = Len(a)
    BY <1>4, <1>9, <2>1
  <2> QED
    BY <1>4, <1>9, <2>1, <2>2
<1>13. LastIndex(s, "@") = Len(a)
  <2>1. CASE d.user = None
    <3>1. \A j \in 1..Len(s) : s[j] # "@"
      BY <1>4, <1>9, <1>10, <1>11, <2>1
    <3> QED
      BY <1>4, <1>7, <2>1, <3>1, NoLast
  <2>2. CASE d.user # None
    <3>1. Len(a) \in 1..Len(s) /\ Len(a) \in 1..Len(a) /\ s[Len(a)] = "@"
      BY <1>4, <1>7, <1>8, <1>9, <2>2
    <3>2. ASSUME NEW j \in 1..Len(s), Len(a) < j
          PROVE  s[j] # "@"
      <4>1. j \notin 1..Len(a)
        BY <1>8, <3>2
      <4>2. \/ j - Len(a) \in 1..Len(b) /\ s[j] = b[j - Len(a)]
            \/ j - Len(a) - Len(b) \in 1..Len(c) /\ s[j] = c[j - Len(a) - Len(b)]
        BY <1>10, <4>1
      <4> QED
        BY <1>9, <1>11, <4>2
    <3> QED
      BY <1>7, <3>1, <3>2, LastIs
  <2> QED
    BY <2>1, <2>2
<1>14. LastIndex(s, ":") = IF d.port = None THEN 0 ELSE Len(a) + Len(b) + 1
  <2>1. CASE d.port = None
    <3>1. \A j \in 1..Len(s) : s[j] # ":"
      BY <1>5, <1>9, <1>10, <1>12, <2>1
    <3> QED
      BY <1>7, <2>1, <3>1, NoLast
  <2>2. CASE d.port # None
    <3> DEFINE k == Len(a) + Len(b) + 1
    <3>1. k \in 1..Len(s) /\ 1 \in 1..Len(c) /\ s[k] = ":"
      BY <1>5, <1>7, <1>8, <1>9, <2>2
    <3>2. ASSUME NEW j \in 1..Len(s), k < j
          PROVE  s[j] # ":"
      <4>1. j - Len(a) - Len(b) \in 1..Len(c) /\ s[j] = c[j - Len(a) - Len(b)]
        BY <1>8, <1>10, <3>2
      <4>2. j - Len(a) - Len(b) # 1
        BY <1>8, <3>2
      <4> QED
        BY <1>11, <4>1, <4>2
    <3> HIDE DEF k
    <3>3. LastIndex(s, ":") = k
      BY <1>7, <3>1, <3>2, LastIs
    <3> QED
      BY <2>2, <3>3 DEF k
  <2> QED
    BY <2>1, <2>2
<1> DEFINE end == IF LastIndex(s, ":") # 0 THEN LastIndex(s, ":") - 1 ELSE Len(s)
<1>15. end = Len(a) + Len(b)
  <2>1. CASE d.port = None
    BY <1>5, <1>7, <1>8, <1>14, <2>1
  <2>2. CASE d.port # None
    <3>1. Len(a) + Len(b) + 1 # 0 /\ Len(a) + Len(b) + 1 - 1 = Len(a) + Len(b)
      BY <1>8
    <3> QED
      BY <1>14, <2>2, <3>1
  <2> QED
    BY <2>1, <2>2
<1>16. SubSeq(s, LastIndex(s, "@") + 1, end) = d.hostname
  <2>1. Len(a) + Len(b) <= Len(s)
    BY <1>7, <1>8
  <2>2. SubSeq(s, Len(a) + 1, Len(a) + Len(b)) = b
    BY <1>3, <1>7, <1>8, <2>1, SubSeqIs
  <2> QED
    BY <1>13, <1>15, <2>2 DEF b
<1>17. (IF LastIndex(s, "@") # 0 THEN SubSeq(s, 1, LastIndex(s, "@") - 1) ELSE None) = d.user
  <2>1. CASE d.user = None
    BY <1>4, <1>13, <2>1
  <2>2. CASE d.user # None
    <3> DEFINE u == d.user
    <3>1. /\ u \in Seq(T) /\ Len(u) \in Nat /\ Len(a) = Len(u) + 1 /\ 0 + Len(u) <= Len(s)
          /\ \A i \in 1..Len(u) : s[0 + i] = u[i]
      BY <1>3, <1>4, <1>7, <1>8, <1>9, <2>2
    <3> HIDE DEF u
    <3>2. SubSeq(s, 0 + 1, 0 + Len(u)) = u
      BY <1>7, <3>1, SubSeqIs
    <3>3. Len(a) # 0 /\ Len(a) - 1 = 0 + Len(u) /\ 0 + 1 = 1
      BY <3>1
    <3> QED
      BY <1>13, <3>2, <3>3 DEF u
  <2> QED
    BY <2>1, <2>2
<1>18. (IF LastIndex(s, ":") # 0 THEN SubSeq(s, LastIndex(s, ":") + 1, Len(s)) ELSE None) = d.port
  <2>1. CASE d.port = None
    BY <1>14, <2>1
  <2>2. CASE d.port # None
    <3> DEFINE q == d.port
               k == Len(a) + Len(b) + 1
    <3>1. q \in Seq(T) /\ Len(q) \in Nat /\ Len(c) = Len(q) + 1 /\ \A i \in 1..Len(q) : c[i + 1] = q[i]
      BY <1>3, <1>5, <1>9, <2>2
    <3> HIDE DEF q
    <3>2. k \in Nat /\ k # 0 /\ k + Len(q) = Len(s)
      BY <1>7, <1>8, <3>1
    <3>3. ASSUME NEW i \in 1..Len(q)
          PROVE  s[k + i] = q[i]
      <4>1. i + 1 \in 1..Len(c) /\ Len(a) + Len(b) + (i + 1) = k + i
        BY <1>8, <3>1
      <4> QED
        BY <1>7, <3>1, <4>1
    <3>4. LastIndex(s, ":") = k
      BY <1>14, <2>2
    <3> HIDE DEF k
    <3>5. SubSeq(s, k + 1, k + Len(q)) = q
      <4>1. k + Len(q) <= Len(s)
        BY <1>8, <3>2
      <4> QED
        BY <1>7, <3>1, <3>2, <3>3, <4>1, SubSeqIs
    <3> QED
      BY <3>2, <3>4, <3>5 DEF q
  <2> QED
    BY <2>1, <2>2
<1>19. Parse(s) = Destination(d.hostname, d.user, d.port)
  BY <1>16, <1>17, <1>18 DEF Parse
<1>20. s \in Seq(Range(s))
  BY <1>7, SeqOfRange
<1> QED
  BY <1>1, <1>19, <1>20 DEF s

LEMMA Unescaped ==
    ASSUME NEW dest, dest \in Seq(Range(dest)), Range(dest) \cap Range(Escape) = {}
    PROVE  LET escaped == [e \in Range(Escape) |-> CHOOSE c \in DOMAIN Escape : Escape[c] = e]
           IN  Mapped(Lowercased(ToEncodedString(dest)), escaped) = dest
<1> DEFINE escaped == [e \in Range(Escape) |-> CHOOSE c \in DOMAIN Escape : Escape[c] = e]
           encoded == ToEncodedString(dest)
           lower == Lowercased(encoded)
<1>1. DOMAIN encoded = DOMAIN dest /\ DOMAIN lower = DOMAIN dest
  BY DEF ToEncodedString, Lowercased, Mapped
<1>2. ASSUME NEW i \in DOMAIN dest
      PROVE  /\ lower[i] = IF dest[i] \in DOMAIN Escape THEN Escape[dest[i]] ELSE dest[i]
             /\ (IF lower[i] \in DOMAIN escaped THEN escaped[lower[i]] ELSE lower[i]) = dest[i]
  <2>1. dest[i] \in Range(dest)
    BY DEF Range
  <2>2. encoded[i] = IF dest[i] \in DOMAIN Escape THEN Escape[dest[i]] ELSE dest[i]
    BY DEF ToEncodedString, Mapped
  <2>3. lower[i] = IF encoded[i] \in DOMAIN Capital THEN Capital[encoded[i]] ELSE encoded[i]
    BY <1>1 DEF Lowercased, Mapped
  <2> HIDE DEF encoded, lower
  <2>4. encoded[i] \notin DOMAIN Capital
    <3>1. CASE dest[i] \in DOMAIN Escape
      <4>1. encoded[i] \in Range(Escape)
        BY <2>2, <3>1 DEF Range
      <4> QED
        BY <4>1, DestinationAssumption
    <3>2. CASE dest[i] \notin DOMAIN Escape
      BY <2>2, <3>2, DestinationAssumption
    <3> QED
      BY <3>1, <3>2
  <2>5. CASE dest[i] \in DOMAIN Escape
    <3>1. lower[i] = Escape[dest[i]] /\ lower[i] \in Range(Escape)
      BY <2>2, <2>3, <2>4, <2>5 DEF Range
    <3>2. escaped[lower[i]] = dest[i]
      <4>1. \A c \in DOMAIN Escape : Escape[c] = lower[i] => c = dest[i]
        BY <2>5, <3>1, DestinationAssumption
      <4> QED
        BY <2>5, <3>1, <4>1
    <3> QED
      BY <2>5, <3>1, <3>2
  <2>6. CASE dest[i] \notin DOMAIN Escape
    BY <2>1, <2>2, <2>3, <2>4, <2>6
  <2> QED
    BY <2>5, <2>6
<1>3. dest = [i \in DOMAIN dest |-> dest[i]]
  OBVIOUS
<1>4. Mapped(lower, escaped) = [i \in DOMAIN dest |-> dest[i]]
  <2>1. Mapped(lower, escaped) =
            [i \in DOMAIN dest |-> IF lower[i] \in DOMAIN escaped THEN escaped[lower[i]] ELSE lower[i]]
    BY <1>1, Zenon DEF Mapped
  <2> HIDE DEF lower, escaped
  <2> QED
    BY <1>2, <2>1
<1> HIDE DEF lower
<1>5. Mapped(lower, escaped) = dest
  BY <1>3, <1>4
<1> QED
  BY <1>5 DEF lower

\* Buffer.from decodes a beginning of the text.
LEMMA HexPrefix ==
    ASSUME NEW S, NEW text \in Seq(S)
    PROVE  \E k \in 0..Len(text) : HexDecoded(text) = SubSeq(text, 1, k)
<1> DEFINE I == {i \in 1..Len(text) : text[i] \notin DOMAIN Digit \cup Pair \cup DOMAIN Object}
           foreign == IF I # {} THEN Min(I) ELSE 0
<1>1. HexDecoded(text) = SubSeq(text, 1, IF foreign = 0 THEN Len(text) ELSE foreign - 1)
  BY DEF HexDecoded, SelectInSeq
<1>2. Len(text) \in Nat
  OBVIOUS
<1>3. foreign \in 0..Len(text)
  <2>1. CASE I = {}
    BY <1>2, <2>1
  <2>2. CASE I # {}
    <3>1. I \in SUBSET Nat
      OBVIOUS
    <3>2. PICK m \in I : \A x \in I : m <= x
      BY <2>2, <3>1, LeastNumber
    <3>3. Min(I) \in I
      BY <3>2 DEF Min
    <3> HIDE DEF I
    <3> QED
      BY <1>2, <2>2, <3>3 DEF I
  <2> QED
    BY <2>1, <2>2
<1> HIDE DEF foreign
<1>4. (IF foreign = 0 THEN Len(text) ELSE foreign - 1) \in 0..Len(text)
  BY <1>2, <1>3
<1> QED
  BY <1>1, <1>4

\* An encoded text has the pieces of the text and escapes, and no capital letter.
LEMMA EncodedText ==
    ASSUME NEW dest, dest \in Seq(Range(dest))
    PROVE  Lowercased(ToEncodedString(dest)) \in Seq(Range(dest) \cup Range(Escape))
<1> DEFINE lower == Lowercased(ToEncodedString(dest))
<1>1. DOMAIN lower = 1..Len(dest) /\ Len(dest) \in Nat
  BY DEF Lowercased, ToEncodedString, Mapped
<1>2. ASSUME NEW i \in 1..Len(dest)
      PROVE  lower[i] \in Range(dest) \cup Range(Escape)
  <2>1. dest[i] \in Range(dest)
    BY DEF Range
  <2> DEFINE e == IF dest[i] \in DOMAIN Escape THEN Escape[dest[i]] ELSE dest[i]
  <2>2. e \in Range(dest) \cup Range(Escape)
    BY <2>1 DEF Range
  <2>3. e \notin DOMAIN Capital
    <3>1. CASE dest[i] \in DOMAIN Escape
      <4>1. e \in Range(Escape)
        BY <3>1 DEF Range
      <4> QED
        BY <4>1, DestinationAssumption
    <3>2. CASE dest[i] \notin DOMAIN Escape
      BY <3>2, DestinationAssumption
    <3> QED
      BY <3>1, <3>2
  <2>4. lower[i] = IF e \in DOMAIN Capital THEN Capital[e] ELSE e
    BY DEF Lowercased, ToEncodedString, Mapped
  <2> HIDE DEF e
  <2> QED
    BY <2>2, <2>3, <2>4
<1>3. lower = [i \in 1..Len(dest) |-> lower[i]]
  BY <1>1 DEF Lowercased, Mapped
<1> HIDE DEF lower
<1>4. lower \in Seq(Range(dest) \cup Range(Escape))
  BY <1>1, <1>2, <1>3
<1> QED
  BY <1>4 DEF lower

LEMMA RoundTrip ==
    ASSUME NEW dest, dest \in Seq(Range(dest)), Plain(dest)
    PROVE  ParseEncoded(Lowercased(ToEncodedString(dest))) = Parse(dest)
<1> DEFINE lower == Lowercased(ToEncodedString(dest))
           bytes == HexDecoded(lower)
           escaped == [e \in Range(Escape) |-> CHOOSE c \in DOMAIN Escape : Escape[c] = e]
<1>1. Range(dest) \cap Range(Escape) = {} /\ Range(dest) \cap DOMAIN Object = {} /\ ~IsNumber(bytes)
  BY DEF Plain
<1>2. Mapped(lower, escaped) = dest
  BY <1>1, Unescaped
<1>3. lower \in Seq(Range(dest) \cup Range(Escape))
  BY EncodedText
<1> HIDE DEF lower
<1>4. \A x \in Range(dest) \cup Range(Escape) : x \notin DOMAIN Object
  BY <1>1, DestinationAssumption
<1>5. ~(Len(bytes) = 1 /\ bytes[1] \in DOMAIN Object)
  <2>1. PICK k \in 0..Len(lower) : bytes = SubSeq(lower, 1, k)
    BY <1>3, HexPrefix
  <2> HIDE DEF bytes
  <2>2. \A i \in 1..Len(lower) : lower[i] \in Range(dest) \cup Range(Escape)
    BY <1>3
  <2>3. Len(lower) \in Nat
    BY <1>3
  <2>4. ASSUME Len(bytes) = 1
        PROVE  bytes[1] \in Range(dest) \cup Range(Escape)
    <3>1. Len(SubSeq(lower, 1, k)) = IF 1 <= k THEN k ELSE 0
      BY <2>2, <2>3, SubSeqProperties
    <3>2. k = 1
      BY <2>1, <2>4, <3>1
    <3>3. SubSeq(lower, 1, 1)[1] = lower[1]
      BY <1>3, <2>3, <3>2, SubSeqProperties
    <3> QED
      BY <2>1, <2>2, <2>3, <3>2, <3>3
  <2> QED
    BY <1>4, <2>4
<1>6. ParseEncoded(lower) = Parse(Mapped(lower, escaped))
  <2>1. ParseEncoded(lower) =
            IF Len(bytes) = 1 /\ bytes[1] \in DOMAIN Object THEN Object[bytes[1]]
            ELSE IF IsNumber(bytes) THEN Destination(None, None, None)
            ELSE Parse(Mapped(lower, escaped))
    BY DEF ParseEncoded
  <2> HIDE DEF bytes, escaped
  <2> QED
    BY <1>1, <1>5, <2>1
<1> HIDE DEF escaped
<1> QED
  BY <1>2, <1>6 DEF lower

\* Another extension's authority is decoded as the JSON it is the hex of.
LEMMA ForeignRoundTrip ==
    ASSUME NEW o \in DOMAIN Object
    PROVE  ParseEncoded(<<o>>) = Object[o]
<1> DEFINE I == {i \in 1..Len(<<o>>) : <<o>>[i] \notin DOMAIN Digit \cup Pair \cup DOMAIN Object}
<1>1. I = {}
  OBVIOUS
<1>2. HexDecoded(<<o>>) = SubSeq(<<o>>, 1, 1)
  BY <1>1 DEF HexDecoded, SelectInSeq
<1>3. SubSeq(<<o>>, 1, 1) = <<o>>
  <2>1. <<o>> \in Seq({o}) /\ Len(<<o>>) = 1
    OBVIOUS
  <2> DEFINE s == <<o>>
  <2>2. s \in Seq({o}) /\ Len(s) = 1
    BY <2>1
  <2> HIDE DEF s
  <2>3. SubSeq(s, 1, Len(s)) = s
    BY <2>2, SubSeqFull
  <2> QED
    BY <2>2, <2>3 DEF s
<1>4. HexDecoded(<<o>>) = <<o>>
  BY <1>2, <1>3
<1> QED
  BY <1>4 DEF ParseEncoded

\* An authority without a "+" of its own is read whole.
LEMMA Uncut ==
    ASSUME NEW S, NEW text \in Seq(S), "+" \notin Range(text)
    PROVE  DestinationOf(text) = ParseEncoded(text)
<1> DEFINE I == {i \in 1..Len(text) : text[i] = "+"}
           plus == IF I # {} THEN Min(I) ELSE 0
<1>1. I = {}
  BY DEF Range
<1>2. SplitDest(text) = SubSeq(text, 1, IF plus = 0 THEN Len(text) ELSE plus - 1)
  BY DEF SplitDest, SelectInSeq
<1>3. SplitDest(text) = text
  BY <1>1, <1>2, SubSeqFull
<1> QED
  BY <1>3 DEF DestinationOf

\* Where names cannot be taken for something else, the resolver of every window without a
\* "+" in its authority is given the host that was picked or the destination that was
\* typed, through any sequence of windows opened from each other and from the list of
\* recent folders: encoding, lowercasing, splitting, decoding and parsing undo each other
\* (sshDestination.ts, authResolver.ts:117, commands.ts:15-43).
THEOREM DestinationsAreReached == Legible /\ Spec => []DestinationReached
<1>1. Legible /\ TypeInv => DestinationReached
  <2> SUFFICES ASSUME Legible, TypeInv, NEW w \in Window, authority[w] # None, ~Cut(w)
               PROVE  DestinationOf(authority[w]) = goal[w]
    BY DEF DestinationReached
  <2>1. Meant(authority[w], goal[w]) /\ "+" \notin Range(authority[w])
    BY DEF TypeInv, Aims, Cut
  <2>2. ASSUME goal[w] \in Destinations, authority[w] = AuthorityOf(goal[w])
        PROVE  DestinationOf(authority[w]) = goal[w]
    <3> DEFINE text == Spelled(goal[w])
    <3>1. /\ Plain(text) /\ Parse(text) = goal[w] /\ text \in Seq(Range(text))
          /\ authority[w] = Lowercased(ToEncodedString(text))
      BY <2>2, ParseSpelled DEF Legible, AuthorityOf
    <3> HIDE DEF text
    <3>2. authority[w] \in Seq(Range(text) \cup Range(Escape))
      BY <3>1, EncodedText
    <3>3. ParseEncoded(authority[w]) = goal[w]
      BY <3>1, RoundTrip
    <3> QED
      BY <2>1, <3>2, <3>3, Uncut
  <2>3. ASSUME NEW f \in Foreign, authority[w] = f.authority, goal[w] = f.meant
        PROVE  DestinationOf(authority[w]) = goal[w]
    <3>1. PICK o \in DOMAIN Object : authority[w] = <<o>> /\ goal[w] = Object[o]
      BY <2>3, ForeignAssumption
    <3>2. authority[w] \in Seq({o}) /\ ParseEncoded(authority[w]) = goal[w]
      BY <3>1, ForeignRoundTrip
    <3> QED
      BY <2>1, <3>2, Uncut
  <2> QED
    BY <2>1, <2>2, <2>3 DEF Meant
<1>2. ASSUME Legible
      PROVE  TypeInv => DestinationReached
  BY <1>1, <1>2
<1>3. CASE Legible
  BY <1>2, <1>3, TypeInvariant, PTL
<1> QED
  BY <1>3

-----------------------------------------------------------------------------
(***************************************************************************)
(* The history.  A window that is not behind has the history that is       *)
(* stored: what it writes then loses nothing.                              *)
(***************************************************************************)

Current == \A w \in Window : win[w] = "open" /\ w \notin behind => history[w] = store

Located(h) == {l \in Hostname \X Path : l[2] \in Range(h[l[1]])}

Keeps(h, locations) ==
    /\ Located(h) = locations
    /\ \A host \in Hostname : IsInjective(h[host])

\* Each location once.
Single(h) == \A host \in Hostname : IsInjective(h[host])

NoneCut == \A w \in Window : ~Cut(w)

HistoryInv ==
    /\ Current
    /\ Single(store) /\ \A w \in Window : Single(history[w])
    /\ orderly /\ NoneCut => Keeps(store, visited)

LEMMA RangeOfCons ==
    ASSUME NEW S, NEW s \in Seq(S), NEW e \in S, e \notin Range(s)
    PROVE  /\ <<e>> \o s \in Seq(S)
           /\ Range(<<e>> \o s) = Range(s) \cup {e}
           /\ IsInjective(s) => IsInjective(<<e>> \o s)
<1>1. /\ <<e>> \o s \in Seq(S) /\ DOMAIN s = 1..Len(s) /\ Len(s) \in Nat
      /\ DOMAIN (<<e>> \o s) = 1..(Len(s) + 1)
      /\ (<<e>> \o s)[1] = e /\ \A i \in 1..Len(s) : (<<e>> \o s)[i + 1] = s[i]
  OBVIOUS
<1> DEFINE c == <<e>> \o s
<1>2. /\ DOMAIN c = 1..(Len(s) + 1) /\ c[1] = e
      /\ \A i \in 1..Len(s) : c[i + 1] = s[i]
  BY <1>1
<1> HIDE DEF c
<1>3. \A k \in DOMAIN c : k = 1 \/ (k - 1 \in DOMAIN s /\ c[k] = s[k - 1])
  <2> TAKE k \in DOMAIN c
  <2>1. CASE k = 1
    BY <2>1
  <2>2. CASE k # 1
    <3>1. k - 1 \in 1..Len(s) /\ (k - 1) + 1 = k
      BY <1>1, <1>2, <2>2
    <3> QED
      BY <1>1, <1>2, <3>1
  <2> QED
    BY <2>1, <2>2
<1>4. Range(c) = Range(s) \cup {e}
  <2>1. 1 \in DOMAIN c /\ \A i \in DOMAIN s : i + 1 \in DOMAIN c /\ c[i + 1] = s[i]
    BY <1>1, <1>2
  <2>2. Range(s) \cup {e} \subseteq Range(c)
    BY <1>2, <2>1 DEF Range
  <2>3. Range(c) \subseteq Range(s) \cup {e}
    BY <1>2, <1>3 DEF Range
  <2> QED
    BY <2>2, <2>3
<1>5. ASSUME IsInjective(s)
      PROVE  IsInjective(c)
  <2> SUFFICES ASSUME NEW i \in DOMAIN c, NEW j \in DOMAIN c, c[i] = c[j]
               PROVE  i = j
    BY DEF IsInjective
  <2>1. \A k \in DOMAIN s : s[k] # e
    BY DEF Range
  <2>2. CASE i = 1 \/ j = 1
    BY <1>2, <1>3, <2>1, <2>2
  <2>3. CASE i # 1 /\ j # 1
    <3>1. i - 1 \in DOMAIN s /\ j - 1 \in DOMAIN s /\ s[i - 1] = s[j - 1]
      BY <1>3, <2>3
    <3>2. i - 1 = j - 1
      BY <1>5, <3>1 DEF IsInjective
    <3>3. i \in Int /\ j \in Int
      BY <1>1, <1>2
    <3> QED
      BY <3>2, <3>3
  <2> QED
    BY <2>2, <2>3
<1> QED
  BY <1>1, <1>4, <1>5 DEF c

\* A list of locations that is exchanged for another.
LEMMA Exchanged ==
    ASSUME NEW h \in History, NEW host \in Hostname, NEW s \in Seq(Path),
           IsInjective(h[host]) => IsInjective(s), NEW locations, Keeps(h, locations),
           NEW g, g = [h EXCEPT ![host] = s]
    PROVE  /\ Located(g) = {l \in locations : l[1] # host} \cup ({host} \X Range(s))
           /\ \A other \in Hostname : IsInjective(g[other])
<1>1. \A other \in Hostname : g[other] = IF other = host THEN s ELSE h[other]
  BY DEF History
<1>2. \A other \in Hostname : IsInjective(g[other])
  BY <1>1 DEF Keeps
<1>3. Range(s) \subseteq Path
  BY DEF Range
<1>4. ASSUME NEW l \in Hostname \X Path
      PROVE  l \in Located(g) <=> l \in {m \in locations : m[1] # host} \cup ({host} \X Range(s))
  <2>1. l \in Located(g) <=> l[2] \in Range(g[l[1]])
    BY DEF Located
  <2>2. l \in locations <=> l[2] \in Range(h[l[1]])
    BY DEF Located, Keeps
  <2>3. l \in {host} \X Range(s) <=> l[1] = host /\ l[2] \in Range(s)
    BY <1>4
  <2>4. l[1] \in Hostname
    BY <1>4
  <2>5. CASE l[1] = host
    BY <1>1, <2>1, <2>3, <2>5
  <2>6. CASE l[1] # host
    BY <1>1, <2>1, <2>2, <2>3, <2>4, <2>6
  <2> QED
    BY <2>5, <2>6
<1>5. Located(g) \subseteq Hostname \X Path /\ locations \subseteq Hostname \X Path
  BY DEF Located, Keeps
<1>6. {host} \X Range(s) \subseteq Hostname \X Path
  BY <1>3
<1>7. Located(g) = {l \in locations : l[1] # host} \cup ({host} \X Range(s))
  BY <1>4, <1>5, <1>6
<1> QED
  BY <1>2, <1>7

LEMMA AddedKeeps ==
    ASSUME NEW h \in History, NEW host \in Hostname, NEW path \in Path,
           NEW locations, Keeps(h, locations)
    PROVE  Keeps(Added(h, host, path), locations \cup {<<host, path>>})
<1>1. \A p \in Path : <<host, p>> \in locations <=> p \in Range(h[host])
  BY DEF Located, Keeps
<1>2. CASE path \in Range(h[host])
  BY <1>1, <1>2 DEF Added
<1>3. CASE path \notin Range(h[host])
  <2>1. h[host] \in Seq(Path)
    BY DEF History
  <2> DEFINE s == <<path>> \o h[host]
  <2>2. /\ s \in Seq(Path) /\ Range(s) = Range(h[host]) \cup {path}
        /\ IsInjective(h[host]) => IsInjective(s)
    BY <1>3, <2>1, RangeOfCons
  <2>3. Added(h, host, path) = [h EXCEPT ![host] = s]
    BY <1>3 DEF Added
  <2> HIDE DEF s
  <2>4. /\ Located(Added(h, host, path)) = {l \in locations : l[1] # host} \cup ({host} \X Range(s))
        /\ \A other \in Hostname : IsInjective(Added(h, host, path)[other])
    BY <2>2, <2>3, Exchanged
  <2>5. locations \subseteq Hostname \X Path
    BY DEF Located, Keeps
  <2>6. Range(h[host]) \subseteq Path
    BY <2>1 DEF Range
  <2>7. {l \in locations : l[1] # host} \cup ({host} \X Range(s)) = locations \cup {<<host, path>>}
    BY <1>1, <2>2, <2>5, <2>6
  <2> QED
    BY <2>4, <2>7 DEF Keeps
<1> QED
  BY <1>2, <1>3

LEMMA RemovedKeeps ==
    ASSUME NEW h \in History, NEW host \in Hostname, NEW path \in Path,
           NEW locations, Keeps(h, locations)
    PROVE  Keeps(Removed(h, host, path), locations \ {<<host, path>>})
<1>1. \A p \in Path : <<host, p>> \in locations <=> p \in Range(h[host])
  BY DEF Located, Keeps
<1>2. h[host] \in Seq(Path)
  BY DEF History
<1> DEFINE s == Without(h[host], path)
<1>3. /\ s \in Seq(Path) /\ Range(s) = Range(h[host]) \ {path}
      /\ IsInjective(h[host]) => IsInjective(s)
  BY <1>2, WithoutIs
<1>4. Removed(h, host, path) = [h EXCEPT ![host] = s]
  BY DEF Removed
<1> HIDE DEF s
<1>5. /\ Located(Removed(h, host, path)) = {l \in locations : l[1] # host} \cup ({host} \X Range(s))
      /\ \A other \in Hostname : IsInjective(Removed(h, host, path)[other])
  BY <1>3, <1>4, Exchanged
<1>6. locations \subseteq Hostname \X Path
  BY DEF Located, Keeps
<1>7. Range(h[host]) \subseteq Path
  BY <1>2 DEF Range
<1>8. {l \in locations : l[1] # host} \cup ({host} \X Range(s)) = locations \ {<<host, path>>}
  BY <1>1, <1>3, <1>6, <1>7
<1> QED
  BY <1>5, <1>8 DEF Keeps

LEMMA AddedSingle ==
    ASSUME NEW h \in History, NEW host, NEW path \in Path, Single(h)
    PROVE  Single(Added(h, host, path))
<1>1. CASE host \in Hostname
  <2>1. Keeps(h, Located(h))
    BY DEF Keeps, Single
  <2> QED
    BY <1>1, <2>1, AddedKeeps DEF Keeps, Single
<1>2. CASE host \notin Hostname
  <2>1. [h EXCEPT ![host] = <<path>> \o @] = h
    BY <1>2 DEF History
  <2> QED
    BY <2>1 DEF Added
<1> QED
  BY <1>1, <1>2

LEMMA RemovedSingle ==
    ASSUME NEW h \in History, NEW host \in Hostname, NEW path \in Path, Single(h)
    PROVE  Single(Removed(h, host, path))
<1>1. Keeps(h, Located(h))
  BY DEF Keeps, Single
<1> QED
  BY <1>1, RemovedKeeps DEF Keeps, Single

LEMMA InitHistoryInv == Init => HistoryInv
<1> SUFFICES ASSUME Init PROVE HistoryInv
  OBVIOUS
<1>1. Current
  BY DEF Init, Current
<1>2. Keeps(store, visited)
  BY DEF Init, Keeps, Located, NoHistory, Range, IsInjective
<1>3. Single(NoHistory)
  BY DEF Single, NoHistory, IsInjective
<1>4. Single(store) /\ \A w \in Window : Single(history[w])
  BY <1>3 DEF Init
<1> QED
  BY <1>1, <1>2, <1>4 DEF HistoryInv

\* The steps that write nothing.
LEMMA SilentHistoryInv ==
    ASSUME TypeInv, HistoryInv, UNCHANGED <<store, visited, orderly>>, NoneCut' => NoneCut,
           \A w \in Window : history'[w] \in {history[w], NoHistory},
           \A w \in Window : win'[w] = "open" =>
               /\ win[w] = "open" /\ history'[w] = history[w]
               /\ w \in behind => w \in behind'
    PROVE  HistoryInv'
<1>1. Current'
  BY DEF HistoryInv, Current
<1>2. Single(NoHistory)
  BY DEF Single, NoHistory, IsInjective
<1>3. ASSUME NEW w \in Window
      PROVE  Single(history[w])'
  <2>1. Single(history[w])
    BY DEF HistoryInv
  <2>2. Single(history'[w])
    BY <1>2, <2>1
  <2> QED
    BY <2>2 DEF Single
<1>4. Single(store)' /\ (orderly' /\ NoneCut' => Keeps(store, visited)')
  BY DEF HistoryInv, Single, Keeps, Located
<1> QED
  BY <1>1, <1>3, <1>4 DEF HistoryInv

LEMMA StartsHistoryInv ==
    ASSUME TypeInv, HistoryInv, NEW w \in Window, win[w] = "none", NEW auth, NEW path, NEW meant,
           NEW replaced, Starts(w, auth, path, meant, replaced)
    PROVE  HistoryInv'
<1>1. ASSUME NEW v \in Window, win'[v] = "open"
      PROVE  win[v] = "open" /\ v \notin replaced
  BY <1>1 DEF Starts
<1>2. ASSUME NEW v \in Window, win'[v] = "open"
      PROVE  history'[v] = history[v] /\ (v \in behind => v \in behind')
  BY <1>1, <1>2 DEF Starts, Ended
<1>3. \A v \in Window : history'[v] \in {history[v], NoHistory}
  BY DEF Starts, Ended
<1>4. NoneCut' => NoneCut
  <2>1. authority[w] = None /\ \A v \in Window : v # w => authority'[v] = authority[v]
    BY DEF Starts, TypeInv, Aims
  <2> QED
    BY <2>1 DEF NoneCut, Cut
<1> QED
  BY <1>1, <1>2, <1>3, <1>4, SilentHistoryInv DEF Starts

\* The window that writes has what is stored, the others are behind.
LEMMA WrittenCurrent ==
    ASSUME NEW w \in Window, Written(w),
           \A v \in Window : win'[v] = "open" => v = w \/ win[v] = "open"
    PROVE  Current'
  BY DEF Current, Written

\* One window's history is exchanged, and stored or not.
LEMMA SingleStays ==
    ASSUME HistoryInv, history \in [Window -> History], NEW w \in Window, NEW h, Single(h),
           history' = [history EXCEPT ![w] = h], store' \in {store, history'[w]}
    PROVE  Single(store)' /\ \A v \in Window : Single(history[v])'
<1>1. history'[w] = h /\ \A v \in Window : v # w => history'[v] = history[v]
  OBVIOUS
<1>2. Single(store) /\ \A v \in Window : Single(history[v])
  BY DEF HistoryInv
<1>3. Single(store')
  BY <1>1, <1>2
<1>4. ASSUME NEW v \in Window
      PROVE  Single(history'[v])
  BY <1>1, <1>2
<1> QED
  BY <1>3, <1>4 DEF Single

LEMMA ActivateHistoryInv ==
    ASSUME TypeInv, DestinationReached, HistoryInv, NEW w \in Window, Activate(w)
    PROVE  HistoryInv'
<1>1. /\ win[w] = "starting" /\ win' = [win EXCEPT ![w] = "open"]
      /\ win \in [Window -> {"none", "starting", "open", "closed"}]
      /\ store \in History /\ history \in [Window -> History] /\ w \notin behind
      /\ authority' = authority
  BY DEF Activate, TypeInv, Stored
<1>2. \A v \in Window : win'[v] = "open" => v = w \/ win[v] = "open"
  BY <1>1
<1>3. NoneCut' <=> NoneCut
  BY <1>1 DEF NoneCut, Cut
<1>4. CASE folder[w] = None
  <2>1. history' = [history EXCEPT ![w] = store] /\ UNCHANGED <<store, behind, orderly, visited>>
    BY <1>4 DEF Activate
  <2>2. Current'
    BY <1>1, <1>2, <2>1 DEF HistoryInv, Current
  <2>3. Single(store)' /\ \A v \in Window : Single(history[v])'
    BY <1>1, <2>1, SingleStays DEF HistoryInv
  <2>4. orderly' /\ NoneCut' => Keeps(store, visited)'
    BY <1>3, <2>1 DEF HistoryInv, Keeps, Located
  <2> QED
    BY <2>2, <2>3, <2>4 DEF HistoryInv
<1>5. CASE folder[w] # None
  <2> DEFINE host == DestinationOf(authority[w]).hostname
             added == Added(store, host, folder[w])
  <2>1. folder[w] \in Path /\ authority[w] # None /\ goal[w].hostname \in Hostname
    BY <1>5, MeantTypes DEF TypeInv, Aims
  <2>2. /\ history' = [history EXCEPT ![w] = added]
        /\ IF history'[w] = store THEN UNCHANGED <<store, behind, orderly>> ELSE Written(w)
        /\ visited' = visited \cup {<<goal[w].hostname, folder[w]>>}
    BY <1>5 DEF Activate
  <2>3. Single(added)
    BY <1>1, <2>1, AddedSingle DEF HistoryInv
  <2> HIDE DEF added, host
  <2>4. history'[w] = added /\ \A v \in Window : v # w => history'[v] = history[v]
    BY <1>1, <2>2
  <2>5. store' = added /\ (orderly' => orderly)
    BY <2>2, <2>4 DEF Written
  <2>6. Current'
    <3>1. CASE history'[w] = store
      BY <1>2, <2>2, <2>4, <3>1 DEF HistoryInv, Current
    <3>2. CASE history'[w] # store
      BY <1>2, <2>2, <3>2, WrittenCurrent
    <3> QED
      BY <3>1, <3>2
  <2>7. Single(store)' /\ \A v \in Window : Single(history[v])'
    BY <1>1, <2>2, <2>3, <2>4, <2>5, SingleStays
  <2>8. orderly' /\ NoneCut' => Keeps(store', visited')
    <3> SUFFICES ASSUME orderly', NoneCut
                 PROVE  Keeps(store', visited')
      BY <1>3
    <3>1. Keeps(store, visited)
      BY <2>5 DEF HistoryInv
    <3>2. host = goal[w].hostname
      BY <2>1 DEF DestinationReached, NoneCut, host
    <3>3. Keeps(added, visited \cup {<<goal[w].hostname, folder[w]>>})
      BY <1>1, <2>1, <3>1, <3>2, AddedKeeps DEF added
    <3> QED
      BY <2>2, <2>5, <3>3
  <2>9. orderly' /\ NoneCut' => Keeps(store, visited)'
    BY <2>8 DEF Keeps, Located
  <2> QED
    BY <2>6, <2>7, <2>9 DEF HistoryInv
<1> QED
  BY <1>4, <1>5

LEMMA DeleteHistoryInv ==
    ASSUME TypeInv, HistoryInv, NEW v \in Window, DeleteHostLocation(v)
    PROVE  HistoryInv'
<1>1. /\ win[v] = "open" /\ win' = win /\ Written(v) /\ authority' = authority
      /\ store \in History /\ history \in [Window -> History]
  BY DEF DeleteHostLocation, TypeInv, Stored
<1>2. PICK l \in Locations(v) :
          /\ history' = [history EXCEPT ![v] = Removed(@, l[1], l[2])]
          /\ visited' = visited \ {l}
  BY DEF DeleteHostLocation
<1>3. l[1] \in Hostname /\ l[2] \in Path /\ l = <<l[1], l[2]>>
  BY <1>1, HostsOffered DEF Locations
<1>4. Current'
  BY <1>1, WrittenCurrent
<1>5. Single(store)' /\ \A w \in Window : Single(history[w])'
  <2> DEFINE removed == Removed(history[v], l[1], l[2])
  <2>1. history[v] \in History /\ Single(history[v])
    BY <1>1 DEF HistoryInv
  <2>2. Single(removed)
    BY <1>3, <2>1, RemovedSingle
  <2>3. history' = [history EXCEPT ![v] = removed] /\ store' = history'[v]
    BY <1>1, <1>2 DEF Written
  <2> HIDE DEF removed
  <2> QED
    BY <1>1, <2>2, <2>3, SingleStays
<1>6. orderly' /\ NoneCut' => Keeps(store', visited')
  <2> SUFFICES ASSUME orderly', NoneCut'
               PROVE  Keeps(store', visited')
    OBVIOUS
  <2>1. orderly /\ v \notin behind /\ NoneCut
    BY <1>1 DEF Written, NoneCut, Cut
  <2>2. history[v] = store /\ Keeps(store, visited)
    BY <1>1, <2>1 DEF HistoryInv, Current
  <2>3. store' = Removed(store, l[1], l[2])
    BY <1>1, <1>2, <2>2 DEF Written
  <2>4. Keeps(Removed(store, l[1], l[2]), visited \ {<<l[1], l[2]>>})
    BY <1>1, <1>3, <2>2, RemovedKeeps
  <2> QED
    BY <1>2, <1>3, <2>3, <2>4
<1>7. orderly' /\ NoneCut' => Keeps(store, visited)'
  BY <1>6 DEF Keeps, Located
<1> QED
  BY <1>4, <1>5, <1>7 DEF HistoryInv

LEMMA NextHistoryInv ==
    TypeInv /\ DestinationReached /\ HistoryInv /\ [Next]_vars => HistoryInv'
<1> SUFFICES ASSUME TypeInv, DestinationReached, HistoryInv, [Next]_vars
             PROVE  HistoryInv'
  OBVIOUS
<1>1. ASSUME NEW w \in Window, OpenLocalWindow(w) \/ OpenRecent(w)
      PROVE  HistoryInv'
  BY <1>1, StartsHistoryInv DEF OpenLocalWindow, OpenRecent
<1>2. ASSUME NEW w \in Window, NEW v \in Window,
             OpenRemoteSSHWindow(w, v) \/ OpenRemoteSSHLocationWindow(w, v)
      PROVE  HistoryInv'
  BY <1>2, StartsHistoryInv DEF OpenRemoteSSHWindow, OpenRemoteSSHLocationWindow
<1>3. ASSUME authority' = authority
      PROVE  NoneCut' => NoneCut
  BY <1>3 DEF NoneCut, Cut
<1>4. ASSUME NEW w \in Window, OpenFolder(w) \/ CloseWindow(w)
      PROVE  HistoryInv'
  <2>1. \A v \in Window : win'[v] = "open" => v # w /\ win[v] = "open"
    BY <1>4 DEF OpenFolder, CloseWindow, TypeInv
  <2>2. \A v \in Window : history'[v] = IF v = w THEN NoHistory ELSE history[v]
    BY <1>4 DEF OpenFolder, CloseWindow, Ended
  <2> QED
    BY <1>3, <1>4, <2>1, <2>2, SilentHistoryInv DEF OpenFolder, CloseWindow, Ended
<1>5. ASSUME NEW v \in Window, SaveConfig(v) \/ Refresh(v)
      PROVE  HistoryInv'
  BY <1>3, <1>5, SilentHistoryInv DEF SaveConfig, Refresh
<1>6. CASE UNCHANGED vars
  BY <1>3, <1>6, SilentHistoryInv DEF vars
<1> QED
  BY <1>1, <1>2, <1>4, <1>5, <1>6, ActivateHistoryInv, DeleteHistoryInv DEF Next

\* No location is ever stored twice under a host, whatever the order in which windows
\* start, end and write over each other.  As long as no window writes a history that lacks
\* another's write, and none is opened for a destination with a "+", what is stored is what
\* was opened and not deleted, under the host that was meant.
THEOREM HistoryIsKept == Legible /\ Spec => []HistoryKept
<1>1. HistoryInv => HistoryKept
  BY DEF HistoryInv, HistoryKept, Single, NoneCut, Keeps, Located
<1>2. CASE Legible
  <2>1. Spec => []DestinationReached
    BY <1>2, DestinationsAreReached, PTL
  <2> QED
    BY <2>1, <1>1, InitHistoryInv, NextHistoryInv, TypeInvariant, PTL DEF Spec
<1> QED
  BY <1>2
=============================================================================
