--------------------------- MODULE AuthHandlerProofs ---------------------------
(***************************************************************************)
(* Theorems about AuthHandler, for any files, any agent, and any number of *)
(* refusals, questions and partial successes.                              *)
(***************************************************************************)
EXTENDS AuthHandler, SequenceTheorems, WellFoundedInduction, TLAPS

-----------------------------------------------------------------------------
(***************************************************************************)
(* The keys in the order in which they are tried.  Matched is a fold over  *)
(* the keys of the agent; what is said of every prefix of a fold needs     *)
(* induction, which is done here over sets of numbers.                     *)
(***************************************************************************)

LEMMA LeastNumber ==
    ASSUME NEW T \in SUBSET Nat, T # {}
    PROVE  \E n \in T : \A m \in T : n <= m
<1> DEFINE R == OpToRel(<, Nat)
<1>1. IsWellFoundedOn(R, Nat)
  BY NatLessThanWellFounded
<1>2. PICK n \in T : \A m \in T : <<m, n>> \notin R
  <2> HIDE DEF R
  <2> QED
    BY <1>1, WFMin
<1>3. \A m \in T : ~(m < n)
  BY <1>2 DEF OpToRel
<1> QED
  BY <1>3

LEMMA NumberInduction ==
    ASSUME NEW P, 0 \in P, \A n \in Nat : n \in P => n + 1 \in P
    PROVE  Nat \subseteq P
<1> SUFFICES ASSUME Nat \ P # {}
             PROVE  FALSE
  OBVIOUS
<1>1. PICK n \in Nat \ P : \A m \in Nat \ P : n <= m
  BY LeastNumber
<1>2. n # 0 /\ n - 1 \in Nat
  OBVIOUS
<1>3. n - 1 \in P
  BY <1>1, <1>2
<1> QED
  BY <1>2, <1>3

LEMMA MaxIs ==
    ASSUME NEW S \in SUBSET Int, NEW x \in S, \A y \in S : x >= y
    PROVE  Max(S) = x
<1>1. \A z \in S : (\A y \in S : z >= y) => z = x
  BY SMT
<1> QED
  BY <1>1 DEF Max

Base == [preferred |-> <<>>, agent |-> <<>>, files |-> fileKeys]

\* g is the function that the fold defines on the sets of the first n positions.
Folds(g, n) ==
    g = [s \in SUBSET (1..n) |-> IF s = {} THEN Base ELSE Match(g[s \ {Max(s)}], agent[Max(s)])]

LEMMA FoldExists == \A n \in Nat : \E g : Folds(g, n)
<1> DEFINE P == {n \in Nat : \E g : Folds(g, n)}
<1>1. 0 \in P
  <2> DEFINE g == [s \in SUBSET (1..0) |-> Base]
  <2>1. \A s \in SUBSET (1..0) : s = {}
    OBVIOUS
  <2>2. Folds(g, 0)
    BY <2>1 DEF Folds
  <2> QED
    BY <2>2
<1>2. ASSUME NEW n \in Nat, n \in P
      PROVE  n + 1 \in P
  <2>1. PICK g : Folds(g, n)
    BY <1>2
  <2> DEFINE h == [s \in SUBSET (1..(n + 1)) |->
                      IF n + 1 \in s THEN Match(g[s \ {n + 1}], agent[n + 1]) ELSE g[s]]
  <2>2. ASSUME NEW s \in SUBSET (1..(n + 1))
        PROVE  h[s] = IF s = {} THEN Base ELSE Match(h[s \ {Max(s)}], agent[Max(s)])
    <3>1. CASE n + 1 \in s
      <4>1. Max(s) = n + 1
        <5>1. s \in SUBSET Int /\ \A y \in s : n + 1 >= y
          OBVIOUS
        <5> QED
          BY <3>1, <5>1, MaxIs
      <4>2. h[s \ {n + 1}] = g[s \ {n + 1}]
        OBVIOUS
      <4> QED
        BY <3>1, <4>1, <4>2
    <3>2. CASE n + 1 \notin s
      <4>1. s \in SUBSET (1..n) /\ s \ {Max(s)} \in SUBSET (1..n) /\ h[s] = g[s]
        <5>1. \A i \in s : i \in 1..n
          BY <3>2
        <5>2. h[s] = g[s]
          BY <3>2
        <5> QED
          BY <5>1, <5>2
      <4>2. h[s \ {Max(s)}] = g[s \ {Max(s)}]
        BY <3>2, <4>1
      <4>3. g[s] = IF s = {} THEN Base ELSE Match(g[s \ {Max(s)}], agent[Max(s)])
        BY <2>1, <4>1 DEF Folds
      <4> QED
        BY <4>1, <4>2, <4>3
    <3> QED
      BY <3>1, <3>2
  <2>3. Folds(h, n + 1)
    <3> HIDE DEF h
    <3>1. h = [s \in SUBSET (1..(n + 1)) |-> h[s]]
      BY DEF h
    <3> QED
      BY <2>2, <3>1 DEF Folds
  <2> QED
    BY <2>3
<1> HIDE DEF P
<1>3. Nat \subseteq P
  BY <1>1, <1>2, NumberInduction
<1> QED
  BY <1>3 DEF P

\* Matched is reached from Base by one Match for each key of the agent.
LEMMA MatchedInSteps ==
    ASSUME agent \in Seq(Key)
    PROVE  \E m : /\ m[0] = Base
                  /\ \A i \in 1..Len(agent) : m[i] = Match(m[i - 1], agent[i])
                  /\ Matched = m[Len(agent)]
<1> DEFINE n == Len(agent)
           iter == CHOOSE g : Folds(g, n)
           m == [i \in 0..n |-> iter[1..i]]
<1>1. n \in Nat /\ DOMAIN agent = 1..n
  OBVIOUS
<1>2. Folds(iter, n)
  BY <1>1, FoldExists
<1>3. Matched = iter[1..n]
  BY <1>1 DEF Matched, FoldLeft, MapThenFoldSet, Folds, Base
<1> HIDE DEF iter
<1>4. m[0] = Base
  BY <1>1, <1>2 DEF Folds
<1>5. ASSUME NEW i \in 1..n
      PROVE  m[i] = Match(m[i - 1], agent[i])
  <2>1. 1..i \in SUBSET (1..n) /\ 1..i # {} /\ i \in Nat
    OBVIOUS
  <2>2. Max(1..i) = i
    <3>1. 1..i \in SUBSET Int /\ i \in 1..i /\ \A y \in 1..i : i >= y
      BY <2>1
    <3> QED
      BY <3>1, MaxIs
  <2>3. (1..i) \ {i} = 1..(i - 1)
    OBVIOUS
  <2>4. iter[1..i] = Match(iter[1..(i - 1)], agent[i])
    BY <1>2, <2>1, <2>2, <2>3 DEF Folds
  <2> QED
    BY <2>4
<1>6. Matched = m[Len(agent)]
  BY <1>1, <1>3
<1> HIDE DEF m
<1> QED
  BY <1>4, <1>5, <1>6

-----------------------------------------------------------------------------
(* Sequences and what they contain *)

LEMMA RangeOfAppend ==
    ASSUME NEW S, NEW s \in Seq(S), NEW e \in S
    PROVE  Range(Append(s, e)) = Range(s) \cup {e}
<1>1. /\ DOMAIN s = 1..Len(s) /\ DOMAIN Append(s, e) = 1..(Len(s) + 1)
      /\ \A i \in 1..Len(s) : Append(s, e)[i] = s[i]
      /\ Append(s, e)[Len(s) + 1] = e /\ Len(s) \in Nat
  OBVIOUS
<1>2. \A x : x \in Range(Append(s, e)) <=> x \in Range(s) \/ x = e
  BY <1>1 DEF Range
<1> QED
  BY <1>2

\* Head and Tail, and a tail's positions in the whole.
LEMMA RangeOfTail ==
    ASSUME NEW S, NEW s \in Seq(S), s # <<>>
    PROVE  Range(s) = {Head(s)} \cup Range(Tail(s))
<1>1. /\ DOMAIN s = 1..Len(s) /\ DOMAIN Tail(s) = 1..(Len(s) - 1)
      /\ Len(s) \in Nat \ {0} /\ Head(s) = s[1]
      /\ \A i \in 1..(Len(s) - 1) : Tail(s)[i] = s[i + 1]
  OBVIOUS
<1>2. ASSUME NEW x \in Range(s)
      PROVE  x = Head(s) \/ x \in Range(Tail(s))
  <2>1. PICK i \in 1..Len(s) : x = s[i]
    BY <1>1 DEF Range
  <2>2. i = 1 \/ (i - 1 \in 1..(Len(s) - 1) /\ (i - 1) + 1 = i)
    BY <1>1
  <2> QED
    BY <1>1, <2>1, <2>2 DEF Range
<1>3. ASSUME NEW x, x = Head(s) \/ x \in Range(Tail(s))
      PROVE  x \in Range(s)
  <2>1. CASE x = Head(s)
    BY <1>1, <2>1 DEF Range
  <2>2. CASE x \in Range(Tail(s))
    <3>1. PICK i \in 1..(Len(s) - 1) : x = s[i + 1]
      BY <1>1, <2>2 DEF Range
    <3>2. i + 1 \in 1..Len(s)
      BY <1>1
    <3> QED
      BY <1>1, <3>1, <3>2 DEF Range
  <2> QED
    BY <1>3, <2>1, <2>2
<1> QED
  BY <1>2, <1>3

\* Removing one element leaves the others.
LEMMA RangeOfRemoveAt ==
    ASSUME NEW S, NEW s \in Seq(S), NEW i \in DOMAIN s
    PROVE  /\ RemoveAt(s, i) \in Seq(S)
           /\ Range(s) = {s[i]} \cup Range(RemoveAt(s, i))
<1>1. DOMAIN s = 1..Len(s) /\ Len(s) \in Nat /\ i \in 1..Len(s)
  BY LenProperties
<1> DEFINE before == SubSeq(s, 1, i - 1)
           after == SubSeq(s, i + 1, Len(s))
<1>2. /\ before \in Seq(S) /\ Len(before) = i - 1
      /\ \A j \in 1..(i - 1) : before[j] = s[j]
  BY <1>1
<1>3. /\ after \in Seq(S) /\ Len(after) = Len(s) - i
      /\ \A j \in 1..(Len(s) - i) : after[j] = s[i + j]
  BY <1>1
<1>4. RemoveAt(s, i) = before \o after
  BY DEF RemoveAt
<1> HIDE DEF before, after
<1>5. RemoveAt(s, i) \in Seq(S) /\ Range(RemoveAt(s, i)) = Range(before) \cup Range(after)
  BY <1>2, <1>3, <1>4, RangeConcatenation, ConcatProperties
<1>6. ASSUME NEW x \in Range(s)
      PROVE  x = s[i] \/ x \in Range(before) \/ x \in Range(after)
  <2>1. PICK j \in 1..Len(s) : x = s[j]
    BY <1>1 DEF Range
  <2>2. CASE j < i
    <3>1. j \in 1..(i - 1) /\ j \in DOMAIN before
      BY <1>1, <1>2, <2>2, LenProperties
    <3> QED
      BY <1>2, <2>1, <3>1 DEF Range
  <2>3. CASE j > i
    <3>1. j - i \in 1..(Len(s) - i) /\ j - i \in DOMAIN after /\ i + (j - i) = j
      BY <1>1, <1>3, <2>3, LenProperties
    <3> QED
      BY <1>3, <2>1, <3>1 DEF Range
  <2> QED
    BY <1>1, <2>1, <2>2, <2>3
<1>7. ASSUME NEW x \in Range(before) \cup Range(after)
      PROVE  x \in Range(s)
  <2>1. CASE x \in Range(before)
    <3>1. PICK j \in 1..(i - 1) : x = s[j]
      BY <1>2, <2>1, LenProperties DEF Range
    <3> QED
      BY <1>1, <3>1 DEF Range
  <2>2. CASE x \in Range(after)
    <3>1. PICK j \in 1..(Len(s) - i) : x = s[i + j]
      BY <1>3, <2>2, LenProperties DEF Range
    <3>2. i + j \in 1..Len(s)
      BY <1>1
    <3> QED
      BY <1>1, <3>1, <3>2 DEF Range
  <2> QED
    BY <1>7, <2>1, <2>2
<1>8. s[i] \in Range(s)
  BY DEF Range
<1> QED
  BY <1>5, <1>6, <1>7, <1>8

-----------------------------------------------------------------------------
(* What the fold has collected after n keys of the agent *)

KeysOf(ks) == {k.key : k \in Range(ks)}
ParsedOf(ks) == {k.key : k \in {x \in Range(ks) : x.parsed}}

\* It can be tried without a look at the private half.
Ready(k) == k.parsed /\ (k.agentSupport \/ k.isPrivate)

Found == [preferred : Seq(SSHKey), agent : Seq(SSHKey), files : Seq(SSHKey)]

Collected(m, n) ==
    /\ m \in Found
    /\ KeysOf(m.preferred) \cup KeysOf(m.files) = KeysOf(fileKeys)
    /\ ParsedOf(fileKeys) \subseteq KeysOf(m.preferred) \cup ParsedOf(m.files)
    /\ KeysOf(m.agent) \subseteq IF identitiesOnly THEN {} ELSE Range(agent)
    /\ \A k \in Range(m.preferred) \cup Range(m.agent) : Ready(k)
    /\ \A i \in 1..n :
        \/ agent[i] \in KeysOf(m.preferred) \cup KeysOf(m.agent)
        \/ identitiesOnly /\ agent[i] \notin ParsedOf(fileKeys)

LEMMA MatchCollects ==
    ASSUME NEW i \in 1..Len(agent), agent \in Seq(Key), NEW m, Collected(m, i - 1)
    PROVE  Collected(Match(m, agent[i]), i)
<1> DEFINE k == agent[i]
           same == Holding(m.files, k)
           j == CHOOSE a \in same : \A b \in same : a <= b
           e == [m.files[j] EXCEPT !.agentSupport = TRUE]
<1>1. /\ m \in Found /\ i \in Nat /\ k \in Key
      /\ m.preferred \in Seq(SSHKey) /\ m.agent \in Seq(SSHKey) /\ m.files \in Seq(SSHKey)
      /\ \A l \in 1..i : l = i \/ l \in 1..(i - 1)
  BY DEF Collected, Found
<1>2. CASE same # {}
  <2>1. j \in same
    <3>1. same \in SUBSET Nat
      BY <1>1, LenProperties DEF Holding
    <3>2. \E a \in same : \A b \in same : a <= b
      BY <1>2, <3>1, LeastNumber
    <3> QED
      BY <3>2
  <2>2. /\ j \in DOMAIN m.files /\ m.files[j].parsed /\ m.files[j].key = k
        /\ m.files[j] \in SSHKey /\ m.files[j] \in Range(m.files)
    <3>1. j \in DOMAIN m.files /\ m.files[j].parsed /\ m.files[j].key = k
      BY <2>1 DEF Holding
    <3> QED
      BY <1>1, <3>1, LenProperties, ElementOfSeq DEF Range
  <2>3. Match(m, k) = [m EXCEPT !.preferred = Append(m.preferred, e), !.files = RemoveAt(m.files, j)]
    BY <1>2 DEF Match
  <2> HIDE DEF j
  <2>4. e \in SSHKey /\ e.key = k /\ Ready(e)
    BY <2>2 DEF SSHKey, Ready
  <2>5. RemoveAt(m.files, j) \in Seq(SSHKey) /\ Append(m.preferred, e) \in Seq(SSHKey)
    BY <1>1, <2>2, <2>4, RangeOfRemoveAt
  <2> HIDE DEF e, same, k
  <2>6. /\ Range(Append(m.preferred, e)) = Range(m.preferred) \cup {e}
        /\ Range(m.files) = {m.files[j]} \cup Range(RemoveAt(m.files, j))
    <3>1. Range(Append(m.preferred, e)) = Range(m.preferred) \cup {e}
      BY <1>1, <2>4, RangeOfAppend
    <3>2. Range(m.files) = {m.files[j]} \cup Range(RemoveAt(m.files, j))
      BY <1>1, <2>2, RangeOfRemoveAt
    <3> QED
      BY <3>1, <3>2
  <2>7. /\ KeysOf(Append(m.preferred, e)) = KeysOf(m.preferred) \cup {k}
        /\ KeysOf(m.files) = {k} \cup KeysOf(RemoveAt(m.files, j))
        /\ ParsedOf(m.files) \subseteq {k} \cup ParsedOf(RemoveAt(m.files, j))
    BY <2>2, <2>4, <2>6 DEF KeysOf, ParsedOf
  <2> DEFINE n == Match(m, k)
  <2>8. /\ n \in Found
        /\ n.preferred = Append(m.preferred, e) /\ n.agent = m.agent
        /\ n.files = RemoveAt(m.files, j)
    BY <1>1, <2>3, <2>5 DEF Found
  <2> HIDE DEF n
  <2>9. /\ KeysOf(n.preferred) \cup KeysOf(n.files) = KeysOf(fileKeys)
        /\ ParsedOf(fileKeys) \subseteq KeysOf(n.preferred) \cup ParsedOf(n.files)
        /\ KeysOf(n.agent) \subseteq IF identitiesOnly THEN {} ELSE Range(agent)
    BY <2>7, <2>8 DEF Collected
  <2>10. \A x \in Range(n.preferred) \cup Range(n.agent) : Ready(x)
    BY <2>4, <2>6, <2>8 DEF Collected
  <2>11. \A l \in 1..i :
            \/ agent[l] \in KeysOf(n.preferred) \cup KeysOf(n.agent)
            \/ identitiesOnly /\ agent[l] \notin ParsedOf(fileKeys)
    BY <1>1, <2>7, <2>8 DEF Collected, k
  <2> QED
    BY <2>8, <2>9, <2>10, <2>11 DEF Collected, n, k
<1>3. CASE same = {}
  <2>1. k \notin ParsedOf(m.files)
    BY <1>3 DEF Holding, ParsedOf, Range
  <2>2. k \in ParsedOf(fileKeys) => k \in KeysOf(m.preferred)
    BY <2>1 DEF Collected
  <2>3. CASE identitiesOnly
    <3>1. Match(m, k) = m
      BY <1>3, <2>3 DEF Match
    <3> HIDE DEF k, same, j, e
    <3>2. \A l \in 1..i :
            \/ agent[l] \in KeysOf(m.preferred) \cup KeysOf(m.agent)
            \/ identitiesOnly /\ agent[l] \notin ParsedOf(fileKeys)
      BY <1>1, <2>2, <2>3 DEF Collected, k
    <3> QED
      BY <3>1, <3>2 DEF Collected, k
  <2>4. CASE ~identitiesOnly
    <3> DEFINE f == FromAgent(k)
    <3>1. Match(m, k) = [m EXCEPT !.agent = Append(m.agent, f)]
      BY <1>3, <2>4 DEF Match
    <3>2. f \in SSHKey /\ f.key = k /\ Ready(f)
      BY <1>1 DEF FromAgent, SSHKey, Ready
    <3>3. /\ Append(m.agent, f) \in Seq(SSHKey)
          /\ Range(Append(m.agent, f)) = Range(m.agent) \cup {f}
      BY <1>1, <3>2, RangeOfAppend
    <3>4. k \in Range(agent)
      BY LenProperties DEF Range
    <3> HIDE DEF k, same, j, e, f
    <3> DEFINE n == Match(m, k)
    <3>5. /\ n \in Found
          /\ n.preferred = m.preferred /\ n.agent = Append(m.agent, f) /\ n.files = m.files
      BY <1>1, <3>1, <3>3 DEF Found
    <3> HIDE DEF n
    <3>6. KeysOf(n.agent) = KeysOf(m.agent) \cup {k}
      BY <3>2, <3>3, <3>5 DEF KeysOf
    <3>7. /\ KeysOf(n.preferred) \cup KeysOf(n.files) = KeysOf(fileKeys)
          /\ ParsedOf(fileKeys) \subseteq KeysOf(n.preferred) \cup ParsedOf(n.files)
          /\ KeysOf(n.agent) \subseteq IF identitiesOnly THEN {} ELSE Range(agent)
      BY <2>4, <3>4, <3>5, <3>6 DEF Collected
    <3>8. \A x \in Range(n.preferred) \cup Range(n.agent) : Ready(x)
      BY <3>2, <3>3, <3>5 DEF Collected
    <3>9. \A l \in 1..i :
            \/ agent[l] \in KeysOf(n.preferred) \cup KeysOf(n.agent)
            \/ identitiesOnly /\ agent[l] \notin ParsedOf(fileKeys)
      BY <1>1, <3>5, <3>6 DEF Collected, k
    <3> QED
      BY <3>5, <3>7, <3>8, <3>9 DEF Collected, n, k
  <2> QED
    BY <2>3, <2>4
<1> QED
  BY <1>2, <1>3

LEMMA MatchedCollected ==
    ASSUME agent \in Seq(Key), fileKeys \in Seq(SSHKey)
    PROVE  Collected(Matched, Len(agent))
<1>1. PICK m : /\ m[0] = Base
               /\ \A i \in 1..Len(agent) : m[i] = Match(m[i - 1], agent[i])
               /\ Matched = m[Len(agent)]
  BY MatchedInSteps
<1> DEFINE P == {n \in Nat : n <= Len(agent) => Collected(m[n], n)}
<1>2. 0 \in P
  <2>1. Base \in Found /\ Base.preferred = <<>> /\ Base.agent = <<>> /\ Base.files = fileKeys
    BY DEF Base, Found
  <2>2. Range(<<>>) = {}
    BY DEF Range
  <2>3. KeysOf(<<>>) = {}
    BY <2>2 DEF KeysOf
  <2>4. ParsedOf(fileKeys) \subseteq KeysOf(fileKeys)
    BY DEF ParsedOf, KeysOf
  <2>5. Collected(Base, 0)
    BY <2>1, <2>2, <2>3, <2>4 DEF Collected
  <2> QED
    BY <1>1, <2>5
<1>3. ASSUME NEW n \in Nat, n \in P
      PROVE  n + 1 \in P
  <2> SUFFICES ASSUME n + 1 <= Len(agent)
               PROVE  Collected(m[n + 1], n + 1)
    OBVIOUS
  <2>1. n + 1 \in 1..Len(agent) /\ (n + 1) - 1 = n
    OBVIOUS
  <2>2. Collected(m[(n + 1) - 1], (n + 1) - 1)
    BY <1>3, <2>1
  <2>3. Collected(Match(m[(n + 1) - 1], agent[n + 1]), n + 1)
    BY <2>1, <2>2, MatchCollects
  <2> QED
    BY <1>1, <2>1, <2>3
<1>4. Nat \subseteq P
  <2> HIDE DEF P
  <2> QED
    BY <1>2, <1>3, NumberInduction
<1>5. Len(agent) \in Nat
  OBVIOUS
<1> QED
  BY <1>1, <1>4, <1>5

\* The keys of the files and, unless they are confined to the files, those of the
\* agent; and before the first that is not ready, all that the agent is known to hold.
LEMMA GatheredKeys ==
    ASSUME agent \in Seq(Key), fileKeys \in Seq(SSHKey)
    PROVE  /\ Gathered \in Seq(SSHKey)
           /\ KeysOf(Gathered) = KeysOf(fileKeys) \cup IF identitiesOnly THEN {} ELSE Range(agent)
           /\ \A i \in DOMAIN Gathered : ~Ready(Gathered[i]) =>
                \A k \in Range(agent) :
                    (identitiesOnly => k \in ParsedOf(fileKeys)) =>
                        k \in {Gathered[j].key : j \in 1..(i - 1)}
<1> DEFINE m == Matched
           ahead == m.preferred \o m.agent
<1>1. Collected(m, Len(agent))
  BY MatchedCollected
<1>2. Gathered = ahead \o m.files
  BY DEF Gathered
<1> HIDE DEF m
<1>3. m.preferred \in Seq(SSHKey) /\ m.agent \in Seq(SSHKey) /\ m.files \in Seq(SSHKey)
  BY <1>1 DEF Collected, Found
<1>4. /\ ahead \in Seq(SSHKey) /\ Range(ahead) = Range(m.preferred) \cup Range(m.agent)
      /\ \A k \in Range(ahead) : Ready(k)
      /\ KeysOf(ahead) = KeysOf(m.preferred) \cup KeysOf(m.agent)
  <2>1. ahead \in Seq(SSHKey) /\ Range(ahead) = Range(m.preferred) \cup Range(m.agent)
    BY <1>3, ConcatProperties, RangeConcatenation
  <2> QED
    BY <1>1, <2>1 DEF Collected, KeysOf
<1> HIDE DEF ahead
<1>5. Gathered \in Seq(SSHKey) /\ Range(Gathered) = Range(ahead) \cup Range(m.files)
  BY <1>2, <1>3, <1>4, ConcatProperties, RangeConcatenation
<1>6. \A k \in Range(agent) :
        \/ k \in KeysOf(ahead)
        \/ identitiesOnly /\ k \notin ParsedOf(fileKeys)
  BY <1>1, <1>4, LenProperties DEF Collected, Range
<1>7. KeysOf(Gathered) = KeysOf(fileKeys) \cup IF identitiesOnly THEN {} ELSE Range(agent)
  <2>1. KeysOf(Gathered) = KeysOf(ahead) \cup KeysOf(m.files)
    BY <1>5 DEF KeysOf
  <2> QED
    BY <1>1, <1>4, <1>6, <2>1 DEF Collected
<1>8. ASSUME NEW i \in DOMAIN Gathered, ~Ready(Gathered[i]), NEW k \in KeysOf(ahead)
      PROVE  k \in {Gathered[j].key : j \in 1..(i - 1)}
  <2>1. /\ Len(ahead) \in Nat /\ Len(m.files) \in Nat /\ i \in 1..(Len(ahead) + Len(m.files))
        /\ DOMAIN ahead = 1..Len(ahead)
    BY <1>2, <1>3, <1>4, ConcatProperties, LenProperties
  <2>2. \A j \in 1..Len(ahead) : Gathered[j] = ahead[j]
    BY <1>2, <1>3, <1>4, <2>1, ConcatProperties
  <2>3. ~(i <= Len(ahead))
    BY <1>4, <1>8, <2>1, <2>2 DEF Range
  <2>4. PICK j \in 1..Len(ahead) : ahead[j].key = k
    BY <1>8, <2>1 DEF KeysOf, Range
  <2>5. j \in 1..(i - 1)
    BY <2>1, <2>3, <2>4
  <2> QED
    BY <2>2, <2>4, <2>5
<1> QED
  BY <1>5, <1>6, <1>7, <1>8

-----------------------------------------------------------------------------
(***************************************************************************)
(* The course of an authentication.  The counts are bounded because a      *)
(* prompt is only shown while tries are left, and a keyboard-interactive   *)
(* request is only sent then: it takes one off for each of its questions.  *)
(* A cancelled question clears the count, but is answered all the same and *)
(* has the handler called once more; it finds nothing left to try because  *)
(* the keys and the passwords were used up before that request was sent.   *)
(***************************************************************************)

Places ==
    /\ turn \in {"gather", "handler", "server", "nobody"} \cup Prompt
    /\ trying \in {"nothing", "none"} \cup Method
    /\ methodsLeft \subseteq Method
    /\ cancelled \in BOOLEAN
    /\ outcome \in {"open", "ready", "refused", "lost"}

Numbers ==
    /\ passphrases \in 0..RETRY_COUNT
    /\ passwords \in 0..RETRY_COUNT
    /\ keyboards \in -MaxRounds..RETRY_COUNT
    /\ stages \in 0..MaxStages
    /\ rounds \in 0..MaxRounds

Counts ==
    /\ trying = "keyboard-interactive" /\ turn = "server" /\ ~cancelled => keyboards + rounds >= 1
    /\ turn = "keyboard" => keyboards + rounds >= 2
    /\ turn = "password" => passwords > 0
    /\ turn = "passphrase" => passphrases > 0

Asking ==
    /\ trying = "keyboard-interactive" /\ turn \in {"server", "keyboard"} =>
            ~KeysLeft /\ ~PasswordsLeft
    /\ turn = "keyboard" => trying = "keyboard-interactive" /\ rounds > 0

CancelEnds ==
    cancelled /\ turn # "nobody" =>
        /\ trying = "keyboard-interactive" /\ ~KeysLeft /\ ~PasswordsLeft /\ keyboards <= 0
        /\ turn = "handler" \/ (turn = "server" /\ rounds > 0)

CourseInv == Places /\ Numbers /\ Counts /\ Asking /\ CancelEnds

LEMMA HandlerCourseInv ==
    ASSUME CourseInv, Handler
    PROVE  CourseInv'
<1> USE ServerAssumption DEF CourseInv, Places, Prompt, Method
<1>1. CASE TryNone
  <2> USE <1>1 DEF TryNone, Send
  <2>1. Places' /\ Counts' /\ Asking' /\ CancelEnds'
    BY DEF Counts, Asking, CancelEnds
  <2>2. Numbers'
    BY DEF Numbers
  <2> QED
    BY <2>1, <2>2
<1>2. CASE TryKey
  <2>0. ~cancelled
    BY <1>2 DEF TryKey, CancelEnds
  <2>1. /\ UNCHANGED <<methodsLeft, passwords, keyboards, stages, cancelled, outcome>>
        /\ \/ Send("publickey") /\ UNCHANGED passphrases
           \/ UNCHANGED <<turn, trying, rounds, passphrases>>
           \/ turn' = "passphrase" /\ passphrases' = RETRY_COUNT /\ UNCHANGED <<trying, rounds>>
        /\ turn = "handler"
    BY <1>2 DEF TryKey
  <2>2. Places' /\ Asking' /\ CancelEnds'
    BY <2>0, <2>1 DEF Send, Asking, CancelEnds
  <2>3. Counts'
    BY <2>0, <2>1 DEF Send, Counts, RETRY_COUNT
  <2>4. Numbers'
    BY <2>1 DEF Send, Numbers, RETRY_COUNT
  <2> QED
    BY <2>2, <2>3, <2>4
<1>3. CASE AskPassword
  <2> USE <1>3 DEF AskPassword
  <2>1. Places' /\ Asking' /\ CancelEnds'
    BY DEF Asking, CancelEnds
  <2>2. Counts'
    BY DEF Counts, PasswordsLeft
  <2>3. Numbers'
    BY DEF Numbers
  <2> QED
    BY <2>1, <2>2, <2>3
<1>4. CASE TryKeyboard
  <2> USE <1>4 DEF TryKeyboard, Send
  <2>0. ~cancelled /\ keyboards > 0 /\ keyboards \in Int
    BY DEF CancelEnds, KeyboardsLeft, Numbers
  <2>1. Places' /\ CancelEnds'
    BY <2>0 DEF CancelEnds
  <2>2. Asking'
    BY DEF Asking, KeysLeft, PasswordsLeft, Allowed
  <2>3. Counts'
    BY <2>0 DEF Counts
  <2>4. Numbers'
    BY DEF Numbers
  <2> QED
    BY <2>1, <2>2, <2>3, <2>4
<1>5. CASE NothingLeft
  <2> USE <1>5 DEF NothingLeft, GiveUp
  <2>1. Places' /\ Counts' /\ Asking' /\ CancelEnds'
    BY DEF Counts, Asking, CancelEnds
  <2>2. Numbers'
    BY DEF Numbers
  <2> QED
    BY <2>1, <2>2
<1> QED
  BY <1>1, <1>2, <1>3, <1>4, <1>5 DEF Handler

LEMMA UserCourseInv ==
    ASSUME CourseInv, User
    PROVE  CourseInv'
<1> USE ServerAssumption DEF CourseInv, Places, Prompt, Method
<1>0. ~cancelled
  BY DEF User, GivePassphrase, GivePassword, CancelPassword, AnswerKeyboard, CancelKeyboard, CancelEnds
<1>1. CASE GivePassphrase
  <2>1. /\ UNCHANGED <<methodsLeft, keys, passwords, keyboards, stages, cancelled, outcome>>
        /\ turn = "passphrase"
        /\ \/ passphrases' = passphrases - 1 /\ Send("publickey")
           \/ passphrases' = passphrases - 1 /\ turn' = "passphrase" /\ passphrases > 1 /\ UNCHANGED <<trying, rounds>>
           \/ passphrases' = passphrases - 1 /\ turn' = "handler" /\ UNCHANGED <<trying, rounds>>
           \/ turn' = "handler" /\ UNCHANGED <<passphrases, trying, rounds>>
    BY <1>1 DEF GivePassphrase
  <2>2. Places' /\ Asking' /\ CancelEnds'
    BY <1>0, <2>1 DEF Send, Asking, CancelEnds
  <2>3. Counts' /\ Numbers'
    <3>1. passphrases \in 0..RETRY_COUNT /\ passphrases > 0
      BY <2>1 DEF Numbers, Counts
    <3>2. passphrases' \in 0..RETRY_COUNT /\ (turn' = "passphrase" => passphrases' > 0)
      BY <2>1, <3>1 DEF Send, RETRY_COUNT
    <3> QED
      BY <2>1, <3>2 DEF Send, Counts, Numbers
  <2> QED
    BY <2>2, <2>3
<1>2. CASE GivePassword \/ CancelPassword
  <2>1. /\ UNCHANGED <<methodsLeft, keys, passphrases, keyboards, stages>>
        /\ passwords' = passwords - 1 /\ turn = "password"
        /\ \/ Send("password") /\ UNCHANGED <<cancelled, outcome>>
           \/ GiveUp /\ cancelled' = TRUE /\ UNCHANGED <<trying, rounds>>
    BY <1>2 DEF GivePassword, CancelPassword
  <2>2. Places' /\ Asking' /\ CancelEnds'
    <3>1. CASE Send("password") /\ UNCHANGED <<cancelled, outcome>>
      BY <1>0, <2>1, <3>1 DEF Send, Asking, CancelEnds
    <3>2. CASE GiveUp /\ cancelled' = TRUE /\ UNCHANGED <<trying, rounds>>
      BY <2>1, <3>2 DEF GiveUp, Asking, CancelEnds
    <3> QED
      BY <2>1, <3>1, <3>2
  <2>3. Counts' /\ Numbers'
    <3>1. passwords \in 0..RETRY_COUNT /\ passwords > 0
      BY <2>1 DEF Numbers, Counts
    <3>2. passwords' \in 0..RETRY_COUNT
      BY <2>1, <3>1 DEF RETRY_COUNT
    <3> QED
      BY <2>1, <3>2 DEF Send, GiveUp, Counts, Numbers
  <2> QED
    BY <2>2, <2>3
<1>3. CASE AnswerKeyboard \/ CancelKeyboard
  <2>1. /\ UNCHANGED <<trying, methodsLeft, keys, passphrases, passwords, stages, rounds, outcome>>
        /\ turn = "keyboard" /\ turn' = "server"
        /\ \/ keyboards' = keyboards - 1 /\ UNCHANGED cancelled
           \/ keyboards' = -1 /\ cancelled' = TRUE
    BY <1>3 DEF AnswerKeyboard, CancelKeyboard
  <2>2. Places' /\ Asking' /\ Counts' /\ Numbers'
    <3>1. keyboards + rounds >= 2 /\ rounds \in 0..MaxRounds /\ keyboards \in -MaxRounds..RETRY_COUNT
      BY <2>1 DEF Numbers, Counts
    <3>2. /\ keyboards' \in -MaxRounds..RETRY_COUNT
          /\ ~cancelled' => keyboards' + rounds' >= 1
      BY <2>1, <3>1 DEF RETRY_COUNT
    <3>3. Places' /\ Asking'
      BY <2>1 DEF Asking, KeysLeft, PasswordsLeft, Allowed
    <3> QED
      BY <2>1, <3>2, <3>3 DEF Counts, Numbers
  <2>3. CancelEnds'
    <3>1. /\ trying' = "keyboard-interactive" /\ rounds' > 0
          /\ ~KeysLeft' /\ ~PasswordsLeft'
      BY <2>1 DEF Asking, KeysLeft, PasswordsLeft, Allowed
    <3>2. cancelled' => keyboards' = -1
      BY <1>0, <2>1
    <3> QED
      BY <2>1, <3>1, <3>2, -1 <= 0 DEF CancelEnds
  <2> QED
    BY <2>2, <2>3
<1> QED
  BY <1>1, <1>2, <1>3 DEF User

LEMMA ServerCourseInv ==
    ASSUME CourseInv, Server
    PROVE  CourseInv'
<1> USE ServerAssumption DEF CourseInv, Places, Prompt, Method
<1>1. CASE Accepts
  <2> USE <1>1 DEF Accepts
  <2>1. Places' /\ Counts'
    BY DEF Counts
  <2>2. Asking' /\ CancelEnds'
    BY DEF Asking, CancelEnds, KeysLeft, PasswordsLeft, Allowed
  <2>3. Numbers'
    BY DEF Numbers
  <2> QED
    BY <2>1, <2>2, <2>3
<1>2. CASE Refuses
  <2> USE <1>2 DEF Refuses
  <2>1. Places' /\ Counts' /\ Asking'
    BY DEF Counts, Asking
  <2>2. CancelEnds'
    BY DEF CancelEnds, KeysLeft, PasswordsLeft, Allowed
  <2>3. Numbers'
    BY DEF Numbers
  <2> QED
    BY <2>1, <2>2, <2>3
<1>3. CASE SatisfiedInPart
  <2> USE <1>3 DEF SatisfiedInPart
  <2>1. Places' /\ Counts' /\ Asking'
    BY DEF Counts, Asking
  <2>2. CancelEnds'
    BY DEF CancelEnds, Short
  <2>3. Numbers'
    BY DEF Numbers
  <2> QED
    BY <2>1, <2>2, <2>3
<1>4. CASE AsksQuestion
  <2> USE <1>4 DEF AsksQuestion
  <2>1. ~cancelled
    BY DEF CancelEnds, Short
  <2>2. Places' /\ CancelEnds'
    BY <2>1 DEF CancelEnds
  <2>3. rounds' \in 1..MaxRounds /\ keyboards' + rounds' >= 2
    <3>1. rounds \in 0..MaxRounds /\ keyboards \in Int /\ keyboards + rounds >= 1
      BY <2>1 DEF Numbers, Counts
    <3> QED
      BY <3>1
  <2>4. Asking'
    BY <2>3 DEF Asking, KeysLeft, PasswordsLeft, Allowed
  <2>5. Counts' /\ Numbers'
    BY <2>3 DEF Counts, Numbers
  <2> QED
    BY <2>2, <2>4, <2>5
<1> QED
  BY <1>1, <1>2, <1>3, <1>4 DEF Server

LEMMA NextCourseInv ==
    ASSUME CourseInv, [Next]_vars
    PROVE  CourseInv'
<1>1. CASE UNCHANGED authVars \/ ReadyTimeout
  <2>1. /\ UNCHANGED <<turn, trying, methodsLeft, keys, passphrases, passwords, keyboards, stages,
                       rounds, cancelled>>
        /\ outcome' = outcome \/ outcome' = "lost"
    BY <1>1 DEF authVars, ReadyTimeout
  <2>2. Places' /\ Counts' /\ Numbers'
    BY <2>1 DEF CourseInv, Places, Counts, Numbers
  <2>3. Asking' /\ CancelEnds'
    BY <2>1 DEF CourseInv, Asking, CancelEnds, KeysLeft, PasswordsLeft, Allowed
  <2> QED
    BY <2>2, <2>3 DEF CourseInv
<1>2. CASE GetHandler
  <2>1. /\ UNCHANGED <<trying, methodsLeft, passphrases, passwords, keyboards, stages, rounds,
                       cancelled, outcome>>
        /\ turn = "gather" /\ turn' = "handler"
    BY <1>2 DEF GetHandler
  <2>2. Places' /\ Counts' /\ Numbers'
    BY <2>1 DEF CourseInv, Places, Counts, Numbers
  <2>3. Asking' /\ CancelEnds'
    BY <2>1 DEF CourseInv, Asking, CancelEnds
  <2> QED
    BY <2>2, <2>3 DEF CourseInv
<1>3. CASE UNCHANGED vars
  BY <1>1, <1>3 DEF vars
<1> QED
  BY <1>1, <1>2, <1>3, HandlerCourseInv, UserCourseInv, ServerCourseInv DEF Next, Gather

LEMMA InitCourseInv == Init => CourseInv
<1> SUFFICES ASSUME Init PROVE CourseInv
  OBVIOUS
<1>1. Places /\ Counts /\ Asking /\ CancelEnds
  BY DEF Init, Places, Counts, Asking, CancelEnds
<1>2. Numbers
  BY ServerAssumption DEF Init, Numbers, RETRY_COUNT
<1> QED
  BY <1>1, <1>2 DEF CourseInv

LEMMA CourseAlways == Spec => []CourseInv
  BY InitCourseInv, NextCourseInv, PTL DEF Spec

\* Whatever the server says and whatever was tried before, nothing is asked after a
\* cancelled password or question.
THEOREM CancellingIsFinal == Spec => []CancelIsFinal
<1>1. CourseInv => CancelIsFinal
  BY DEF CourseInv, CancelEnds, CancelIsFinal, Prompt
<1> QED
  BY <1>1, CourseAlways, PTL

-----------------------------------------------------------------------------
(* Reading the files *)

Legibly(f) == "key" \in {disk[f].public, disk[f].private}

\* What has been collected is what the files read so far hold.
FilesRead ==
    /\ KeysOf(fileKeys) = {KeyIn[f] : f \in {g \in File : reading[g] = "done" /\ Usable(g)}}
    /\ {KeyIn[f] : f \in {g \in File : reading[g] = "done" /\ Legibly(g)}} \subseteq ParsedOf(fileKeys)
    /\ \A f \in File : reading[f] = "private" => disk[f].public # "key"

GatherInv == GatherTypeOK /\ FilesRead

LEMMA CollectGatherInv ==
    ASSUME GatherInv, NEW f \in File, NEW parsed \in BOOLEAN, NEW isPrivate \in BOOLEAN,
           Collect(f, parsed, isPrivate), UNCHANGED <<disk, agent, identitiesOnly>>,
           Usable(f), Legibly(f) => parsed
    PROVE  GatherInv'
<1> DEFINE k == [file |-> f, key |-> KeyIn[f], parsed |-> parsed,
                 agentSupport |-> FALSE, isPrivate |-> isPrivate]
<1>1. k \in SSHKey /\ k.key = KeyIn[f] /\ k.parsed = parsed
  BY FileAssumption DEF SSHKey
<1>2. reading' = [reading EXCEPT ![f] = "done"] /\ fileKeys' = Append(fileKeys, k)
  BY DEF Collect
<1> HIDE DEF k
<1>3. GatherTypeOK'
  BY <1>1, <1>2 DEF GatherInv, GatherTypeOK
<1>4. Range(fileKeys') = Range(fileKeys) \cup {k}
  BY <1>1, <1>2, RangeOfAppend DEF GatherInv, GatherTypeOK
<1>5. /\ KeysOf(fileKeys') = KeysOf(fileKeys) \cup {KeyIn[f]}
      /\ ParsedOf(fileKeys) \subseteq ParsedOf(fileKeys')
      /\ parsed => KeyIn[f] \in ParsedOf(fileKeys')
  BY <1>1, <1>4 DEF KeysOf, ParsedOf
<1>6. \A g \in File : reading'[g] = "done" <=> g = f \/ reading[g] = "done"
  BY <1>2 DEF GatherInv, GatherTypeOK
<1>7. /\ \A g \in File : (Usable(g)' <=> Usable(g)) /\ (Legibly(g)' <=> Legibly(g))
      /\ \A g \in File : reading'[g] = "private" => reading[g] = "private"
  BY <1>2 DEF Usable, Legibly, GatherInv, GatherTypeOK
<1>8. FilesRead'
  <2>1. KeysOf(fileKeys') = {KeyIn[g] : g \in {h \in File : reading'[h] = "done" /\ Usable(h)'}}
    BY <1>5, <1>6, <1>7 DEF GatherInv, FilesRead
  <2>2. {KeyIn[g] : g \in {h \in File : reading'[h] = "done" /\ Legibly(h)'}}
            \subseteq ParsedOf(fileKeys')
    BY <1>5, <1>6, <1>7 DEF GatherInv, FilesRead
  <2> QED
    BY <1>7, <2>1, <2>2 DEF GatherInv, FilesRead
<1> QED
  BY <1>3, <1>8 DEF GatherInv

\* A file goes on to its private half, or ends without a key.
LEMMA PassGatherInv ==
    ASSUME GatherInv, NEW f \in File, NEW to \in {"private", "done"},
           reading' = [reading EXCEPT ![f] = to], reading[f] # "done",
           UNCHANGED <<disk, agent, identitiesOnly, fileKeys>>,
           disk[f].public # "key", to = "done" => ~Usable(f) /\ ~Legibly(f)
    PROVE  GatherInv'
<1>1. GatherTypeOK'
  BY DEF GatherInv, GatherTypeOK
<1>2. \A g \in File : reading'[g] = IF g = f THEN to ELSE reading[g]
  BY DEF GatherInv, GatherTypeOK
<1>3. \A g \in File : (Usable(g)' <=> Usable(g)) /\ (Legibly(g)' <=> Legibly(g))
  BY DEF Usable, Legibly
<1>4. {h \in File : reading'[h] = "done" /\ Usable(h)'}
          = {h \in File : reading[h] = "done" /\ Usable(h)}
  BY <1>2, <1>3
<1>5. {h \in File : reading'[h] = "done" /\ Legibly(h)'}
          = {h \in File : reading[h] = "done" /\ Legibly(h)}
  BY <1>2, <1>3
<1>6. FilesRead'
  BY <1>2, <1>4, <1>5 DEF GatherInv, FilesRead
<1> QED
  BY <1>1, <1>6 DEF GatherInv

LEMMA ReadsGatherInv ==
    ASSUME GatherInv, Reads
    PROVE  GatherInv'
<1>1. ASSUME NEW f \in File, ReadPublic(f)
      PROVE  GatherInv'
  <2>1. reading[f] = "public" /\ UNCHANGED <<disk, agent, identitiesOnly>>
    BY <1>1 DEF ReadPublic, Read
  <2>2. CASE disk[f].public = "key" /\ Collect(f, TRUE, FALSE)
    BY <2>1, <2>2, CollectGatherInv DEF Usable
  <2>3. CASE /\ disk[f].public # "key"
             /\ reading' = [reading EXCEPT ![f] = "private"]
             /\ UNCHANGED fileKeys
    BY <2>1, <2>3, PassGatherInv
  <2> QED
    BY <1>1, <2>2, <2>3 DEF ReadPublic
<1>2. ASSUME NEW f \in File, ReadPrivate(f)
      PROVE  GatherInv'
  <2>1. /\ reading[f] = "private" /\ UNCHANGED <<disk, agent, identitiesOnly>>
        /\ disk[f].public # "key"
    BY <1>2 DEF ReadPrivate, Read, GatherInv, FilesRead
  <2>2. CASE disk[f].private = "key" /\ Collect(f, TRUE, TRUE)
    BY <2>1, <2>2, CollectGatherInv DEF Usable
  <2>3. CASE disk[f].private = "locked" /\ Collect(f, FALSE, FALSE)
    BY <2>1, <2>3, CollectGatherInv DEF Usable, Legibly
  <2>4. CASE disk[f].private \in {"absent", "invalid"} /\ Skip(f)
    BY <2>1, <2>4, PassGatherInv DEF Usable, Legibly, Skip
  <2> QED
    BY <1>2, <2>2, <2>3, <2>4 DEF ReadPrivate
<1> QED
  BY <1>1, <1>2 DEF Reads

LEMMA NextGatherInv ==
    ASSUME GatherInv, [Next]_vars
    PROVE  GatherInv' /\ UNCHANGED <<disk, agent, identitiesOnly>>
<1>1. CASE UNCHANGED gatherVars
  BY <1>1 DEF gatherVars, GatherInv, GatherTypeOK, FilesRead, KeysOf, ParsedOf, Usable, Legibly
<1>2. CASE Reads
  <2>1. UNCHANGED <<disk, agent, identitiesOnly>>
    BY <1>2 DEF Reads, ReadPublic, ReadPrivate, Read
  <2> QED
    BY <1>2, <2>1, ReadsGatherInv
<1> QED
  BY <1>1, <1>2 DEF Next, Gather, vars

LEMMA InitGatherInv == Init => GatherInv
<1> SUFFICES ASSUME Init PROVE GatherInv
  OBVIOUS
<1>1. GatherTypeOK
  BY DEF Init, GatherInit, GatherTypeOK
<1>2. KeysOf(<<>>) = {} /\ fileKeys = <<>> /\ \A f \in File : reading[f] = "public"
  BY DEF Init, GatherInit, KeysOf, Range
<1>3. FilesRead
  BY <1>2 DEF FilesRead
<1> QED
  BY <1>1, <1>3 DEF GatherInv

-----------------------------------------------------------------------------
(***************************************************************************)
(* Trying the keys.  Those tried and those left are together all that may  *)
(* be used; and behind a key that may need a passphrase, there is none of  *)
(* the agent's left.                                                       *)
(***************************************************************************)

AgentKeys == Range(agent) \cap (IF identitiesOnly THEN Legible ELSE Key)

KeysTried ==
    IF turn = "gather" THEN tried = {}
    ELSE /\ KeysOf(keys) \cup tried = Admissible
         /\ \A i \in DOMAIN keys : ~Ready(keys[i]) =>
                AgentKeys \subseteq tried \cup {keys[j].key : j \in 1..(i - 1)}

Prompted ==
    /\ turn = "passphrase" => AgentKeys \subseteq tried
    /\ turn = "password" => ~KeysLeft

KeyTypes == keys \in Seq(SSHKey) /\ tried \subseteq Key

KeyInv == KeyTypes /\ KeysTried /\ Prompted

LEMMA GetHandlerKeyInv ==
    ASSUME GatherInv, KeyInv, GetHandler, UNCHANGED gatherVars
    PROVE  KeyInv'
<1>1. /\ turn = "gather" /\ turn' = "handler" /\ AllRead
      /\ keys' = Gathered /\ tried = {} /\ tried' = {}
  BY DEF GetHandler, KeyInv, KeysTried
<1>2. agent \in Seq(Key) /\ fileKeys \in Seq(SSHKey)
  BY FileAssumption DEF GatherInv, GatherTypeOK
<1>3. Admissible' = Admissible /\ AgentKeys' = AgentKeys
  BY DEF gatherVars, Admissible, AgentKeys, Legible, Usable
<1>4. KeysOf(fileKeys) = {KeyIn[f] : f \in {g \in File : Usable(g)}}
  BY <1>1 DEF AllRead, GatherInv, FilesRead
<1>5. KeysOf(Gathered) = Admissible
  BY <1>2, <1>4, GatheredKeys DEF Admissible
<1>6. \A k \in AgentKeys : k \in Range(agent) /\ (identitiesOnly => k \in ParsedOf(fileKeys))
  BY <1>1 DEF AgentKeys, Legible, Legibly, AllRead, GatherInv, FilesRead
<1>7. KeysTried'
  <2>1. \A i \in DOMAIN Gathered : ~Ready(Gathered[i]) =>
            AgentKeys \subseteq {Gathered[j].key : j \in 1..(i - 1)}
    BY <1>2, <1>6, GatheredKeys
  <2> QED
    BY <1>1, <1>3, <1>5, <2>1 DEF KeysTried
<1>8. KeyTypes' /\ Prompted'
  BY <1>1, <1>2, GatheredKeys DEF KeyTypes, Prompted
<1> QED
  BY <1>7, <1>8 DEF KeyInv

LEMMA TryKeyInv ==
    ASSUME GatherInv, KeyInv, TryKey, UNCHANGED gatherVars
    PROVE  KeyInv'
<1>1. /\ turn = "handler" /\ KeysLeft
      /\ keys' = Tail(keys) /\ tried' = tried \cup {Head(keys).key}
      /\ turn' \in {"handler", "server", "passphrase"}
      /\ turn' = "passphrase" => ~Ready(Head(keys))
  BY DEF TryKey, Ready, Send
<1>2. keys \in Seq(SSHKey) /\ keys # <<>> /\ tried \subseteq Key
  BY <1>1 DEF KeyInv, KeyTypes, KeysLeft
<1>3. /\ Head(keys) \in SSHKey /\ Tail(keys) \in Seq(SSHKey) /\ Head(keys) = keys[1]
      /\ Len(Tail(keys)) = Len(keys) - 1 /\ Len(keys) \in Nat \ {0}
      /\ \A i \in 1..Len(Tail(keys)) : Tail(keys)[i] = keys[i + 1]
      /\ DOMAIN keys = 1..Len(keys) /\ DOMAIN Tail(keys) = 1..Len(Tail(keys))
  BY <1>2
<1>4. Admissible' = Admissible /\ AgentKeys' = AgentKeys
  BY DEF gatherVars, Admissible, AgentKeys, Legible, Usable
<1>5. KeysOf(keys) = {Head(keys).key} \cup KeysOf(Tail(keys))
  BY <1>2, RangeOfTail DEF KeysOf
<1>6. KeysOf(keys') \cup tried' = Admissible
  BY <1>1, <1>5 DEF KeyInv, KeysTried
<1>7. ASSUME NEW i \in DOMAIN Tail(keys), ~Ready(Tail(keys)[i])
      PROVE  AgentKeys \subseteq tried' \cup {Tail(keys)[j].key : j \in 1..(i - 1)}
  <2>1. i + 1 \in DOMAIN keys /\ ~Ready(keys[i + 1]) /\ (i + 1) - 1 = i /\ i \in 1..Len(Tail(keys))
    BY <1>3, <1>7
  <2>2. AgentKeys \subseteq tried \cup {keys[j].key : j \in 1..i}
    BY <1>1, <2>1 DEF KeyInv, KeysTried
  <2>3. ASSUME NEW j \in 1..i
        PROVE  keys[j].key \in {Head(keys).key} \cup {Tail(keys)[l].key : l \in 1..(i - 1)}
    <3>1. CASE j = 1
      BY <1>3, <3>1
    <3>2. CASE j # 1
      <4>1. j - 1 \in 1..(i - 1) /\ j - 1 \in 1..Len(Tail(keys)) /\ (j - 1) + 1 = j
        BY <2>1, <3>2
      <4> QED
        BY <1>3, <4>1
    <3> QED
      BY <3>1, <3>2
  <2> QED
    BY <1>1, <2>2, <2>3
<1>8. KeysTried'
  BY <1>1, <1>4, <1>6, <1>7 DEF KeysTried
<1>9. turn' = "passphrase" => AgentKeys \subseteq tried'
  <2>1. ~Ready(Head(keys)) => AgentKeys \subseteq tried \cup {keys[j].key : j \in 1..(1 - 1)}
    BY <1>1, <1>3 DEF KeyInv, KeysTried
  <2>2. \A j \in 1..(1 - 1) : FALSE
    OBVIOUS
  <2> QED
    BY <1>1, <2>1, <2>2
<1>10. KeyTypes' /\ Prompted'
  BY <1>1, <1>2, <1>3, <1>4, <1>9 DEF KeyTypes, Prompted, SSHKey
<1> QED
  BY <1>8, <1>10 DEF KeyInv

LEMMA NextKeyInv ==
    ASSUME GatherInv, KeyInv, [Next]_vars
    PROVE  KeyInv'
<1>1. ASSUME UNCHANGED <<disk, agent, identitiesOnly, keys, tried>>,
             turn' = "gather" <=> turn = "gather",
             turn' = "passphrase" => turn = "passphrase",
             turn' = "password" => (turn = "password" \/ ~KeysLeft) /\ UNCHANGED methodsLeft
      PROVE  KeyInv'
  <2>1. Admissible' = Admissible /\ AgentKeys' = AgentKeys
    BY <1>1 DEF Admissible, AgentKeys, Legible, Usable
  <2>2. KeyTypes' /\ KeysTried'
    BY <1>1, <2>1 DEF KeyInv, KeyTypes, KeysTried, KeysOf
  <2>3. Prompted'
    BY <1>1, <2>1 DEF KeyInv, Prompted, KeysLeft, Allowed
  <2> QED
    BY <2>2, <2>3 DEF KeyInv
<1>2. CASE (TryNone \/ AskPassword \/ TryKeyboard \/ NothingLeft) /\ UNCHANGED gatherVars
  BY <1>1, <1>2 DEF TryNone, AskPassword, TryKeyboard, NothingLeft, Send, GiveUp, gatherVars
<1>3. CASE User /\ UNCHANGED gatherVars
  BY <1>1, <1>3 DEF User, GivePassphrase, GivePassword, CancelPassword, AnswerKeyboard,
     CancelKeyboard, Send, GiveUp, gatherVars
<1>4. CASE (Server \/ ReadyTimeout) /\ UNCHANGED gatherVars
  BY <1>1, <1>4 DEF Server, Accepts, Refuses, SatisfiedInPart, AsksQuestion, ReadyTimeout, gatherVars
<1>5. CASE turn = "gather" /\ Reads /\ UNCHANGED authVars
  BY <1>1, <1>5 DEF Reads, ReadPublic, ReadPrivate, Read, authVars
<1>6. CASE UNCHANGED vars
  BY <1>1, <1>6 DEF vars, authVars, gatherVars
<1> QED
  BY <1>2, <1>3, <1>4, <1>5, <1>6, GetHandlerKeyInv, TryKeyInv DEF Next, Gather, Handler

LEMMA InitKeyInv == Init => KeyInv
  BY DEF Init, KeyInv, KeyTypes, KeysTried, Prompted

LEMMA KeysAlways == Spec => [](GatherInv /\ KeyInv)
<1>1. GatherInv /\ KeyInv /\ [Next]_vars => (GatherInv /\ KeyInv)'
  BY NextGatherInv, NextKeyInv
<1> QED
  BY <1>1, InitGatherInv, InitKeyInv, PTL DEF Spec

\* Types are kept by every step; the sequence of keys that the fold over the agent's
\* keys makes is one of SSHKeys.
THEOREM TypeCorrect == Spec => []TypeOK
<1>1. CourseInv /\ GatherInv /\ KeyInv => TypeOK
  BY DEF CourseInv, Places, Numbers, GatherInv, KeyInv, KeyTypes, TypeOK
<1> QED
  BY <1>1, CourseAlways, KeysAlways, PTL

\* A password is asked for only when every key that may be used has been tried, and
\* no other key ever is, in whatever order the files were read.
THEOREM EveryKeyIsTried == Spec => []EveryKeyTried
<1>1. KeyInv => EveryKeyTried
  <2> SUFFICES ASSUME KeyInv PROVE EveryKeyTried
    OBVIOUS
  <2>1. KeysOf(<<>>) = {}
    BY DEF KeysOf, Range
  <2>2. turn = "password" /\ Allowed("publickey") => Admissible \subseteq tried
    BY <2>1 DEF KeyInv, Prompted, KeysLeft, KeysTried
  <2>3. tried \subseteq Admissible
    BY DEF KeyInv, KeysTried
  <2> QED
    BY <2>2, <2>3 DEF EveryKeyTried
<1> QED
  BY <1>1, KeysAlways, PTL

\* The user is asked for a passphrase only when no key that the agent is known to
\* hold is left untried.
THEOREM AgentComesFirst == Spec => []AgentBeforePassphrase
<1>1. KeyInv => AgentBeforePassphrase
  BY DEF KeyInv, Prompted, AgentBeforePassphrase, AgentKeys
<1> QED
  BY <1>1, KeysAlways, PTL
-----------------------------------------------------------------------------
(***************************************************************************)
(* An authentication comes to an end.  What is left to be done is counted: *)
(* keys, passwords, answers to questions and partial successes, each of    *)
(* which lets a few more steps be taken before the next is used up.  Only  *)
(* a keyboard-interactive request that is refused unasked uses up nothing. *)
(***************************************************************************)

\* What can be used up.  A cancelled prompt uses up all the answers at once.
Stock ==
    Len(keys) + (MaxStages - stages) + passwords
        + (IF cancelled THEN 0 ELSE keyboards + MaxRounds + 1)
        + (IF trying = "nothing" THEN 1 ELSE 0)

\* How far the turn is from the next use of the stock.
Distance ==
    CASE turn = "passphrase" -> 5 + passphrases
      [] turn = "server" -> IF trying = "keyboard-interactive" /\ rounds = 0 THEN 2 ELSE 4
      [] turn = "handler" -> 3
      [] turn \in {"password", "keyboard"} -> 1
      [] OTHER -> 0

StepsLeft == 10 * Stock + Distance + (IF outcome = "open" THEN 1 ELSE 0)

\* Once the keys are gathered, no step repeats what was done before: the steps left
\* become fewer, except where the server refuses keyboard-interactive unasked.
Dwindles == turn # "gather" => RefusesUnasked \/ StepsLeft' < StepsLeft

LEMMA StockIsNumber == TypeOK => Stock \in Nat
<1> SUFFICES ASSUME TypeOK PROVE Stock \in Nat
  OBVIOUS
<1>1. Len(keys) \in Nat
  BY LenProperties DEF TypeOK
<1>2. MaxStages - stages \in Nat /\ passwords \in Nat /\ keyboards + MaxRounds + 1 \in Nat
  BY ServerAssumption DEF TypeOK, RETRY_COUNT
<1> QED
  BY <1>1, <1>2 DEF Stock

LEMMA DistanceIsNumber == TypeOK => Distance \in 0..8
<1> SUFFICES ASSUME TypeOK PROVE Distance \in 0..8
  OBVIOUS
<1>1. passphrases \in 0..3
  BY DEF TypeOK, RETRY_COUNT
<1> QED
  BY <1>1 DEF Distance

LEMMA StepsLeftIsNumber == TypeOK => StepsLeft \in Nat
  BY StockIsNumber, DistanceIsNumber DEF StepsLeft

LEMMA NumbersNext == TypeOK' => (Stock \in Nat)' /\ (Distance \in 0..8)'
  BY StockIsNumber, DistanceIsNumber, PTL

\* Using up a part of the stock outweighs every change of the turn.
LEMMA LessStock ==
    ASSUME TypeOK, TypeOK', Stock' < Stock
    PROVE  StepsLeft' < StepsLeft
<1>1. Stock \in Nat /\ Stock' \in Nat
  BY StockIsNumber, NumbersNext
<1>2. Distance \in 0..8 /\ Distance' \in 0..8
  BY DistanceIsNumber, NumbersNext
<1>3. ASSUME NEW a \in Nat, NEW b \in Nat, b < a, NEW c \in 0..8, NEW d \in 0..8,
             NEW e \in 0..1, NEW f \in 0..1
      PROVE  10 * b + d + f < 10 * a + c + e
  BY <1>3
<1> DEFINE one == IF outcome = "open" THEN 1 ELSE 0
<1>4. one \in 0..1 /\ one' \in 0..1
  OBVIOUS
<1>5. StepsLeft = 10 * Stock + Distance + one /\ StepsLeft' = 10 * Stock' + Distance' + one'
  BY DEF StepsLeft
<1> HIDE DEF one
<1> QED
  BY <1>1, <1>2, <1>3, <1>4, <1>5

LEMMA Nearer ==
    ASSUME TypeOK, TypeOK', Stock' <= Stock, Distance' < Distance,
           outcome' = "open" => outcome = "open"
    PROVE  StepsLeft' < StepsLeft
  BY StockIsNumber, DistanceIsNumber, NumbersNext DEF StepsLeft

LEMMA Ended ==
    ASSUME TypeOK, Stock' = Stock, Distance' = Distance, outcome = "open", outcome' # "open"
    PROVE  StepsLeft' < StepsLeft
  BY StockIsNumber, DistanceIsNumber DEF StepsLeft

LEMMA HandlerDwindles ==
    ASSUME TypeOK, TypeOK', CourseInv, Handler
    PROVE  StepsLeft' < StepsLeft
<1> USE ServerAssumption DEF TypeOK, RETRY_COUNT
<1>0. Len(keys) \in Nat
  BY LenProperties
<1>1. CASE TryNone
  <2>1. Stock' = Stock - 1
    BY <1>0, <1>1 DEF TryNone, Send, Stock
  <2> QED
    BY <2>1, StockIsNumber, LessStock
<1>2. CASE TryKey
  <2>1. keys # <<>> /\ keys' = Tail(keys)
    BY <1>2 DEF TryKey, KeysLeft
  <2>2. Len(keys') = Len(keys) - 1
    BY <2>1, HeadTailProperties
  <2>3. /\ trying # "nothing" /\ trying' # "nothing"
        /\ UNCHANGED <<stages, passwords, keyboards, cancelled>>
    BY <1>2 DEF TryKey, Send
  <2>4. Stock' = Stock - 1
    BY <1>0, <2>2, <2>3 DEF Stock
  <2> QED
    BY <2>4, StockIsNumber, LessStock
<1>3. CASE AskPassword
  <2>1. Stock' = Stock /\ Distance' = 1 /\ Distance = 3 /\ outcome' = outcome
    BY <1>3 DEF AskPassword, Stock, Distance
  <2> QED
    BY <2>1, StockIsNumber, Nearer
<1>4. CASE TryKeyboard
  <2>1. Stock' = Stock
    BY <1>4 DEF TryKeyboard, Send, Stock
  <2>2. Distance' = 2 /\ Distance = 3 /\ outcome' = outcome
    BY <1>4 DEF TryKeyboard, Send, Distance
  <2> QED
    BY <2>1, <2>2, StockIsNumber, Nearer
<1>5. CASE NothingLeft
  <2>1. Stock' = Stock
    BY <1>5 DEF NothingLeft, GiveUp, Stock
  <2>2. Distance' = 0 /\ Distance = 3 /\ outcome' # "open"
    BY <1>5 DEF NothingLeft, GiveUp, Distance
  <2> QED
    BY <2>1, <2>2, StockIsNumber, Nearer
<1> QED
  BY <1>1, <1>2, <1>3, <1>4, <1>5 DEF Handler

LEMMA UserDwindles ==
    ASSUME TypeOK, TypeOK', CourseInv, User
    PROVE  StepsLeft' < StepsLeft
<1> USE ServerAssumption DEF TypeOK, RETRY_COUNT
<1>0. Len(keys) \in Nat /\ ~cancelled
  <2>1. Len(keys) \in Nat
    BY LenProperties
  <2>2. ~cancelled
    BY DEF User, GivePassphrase, GivePassword, CancelPassword, AnswerKeyboard, CancelKeyboard,
       CourseInv, CancelEnds
  <2> QED
    BY <2>1, <2>2
<1>1. CASE GivePassphrase
  <2>1. turn = "passphrase" /\ passphrases \in 1..3
    BY <1>1 DEF GivePassphrase, CourseInv, Counts
  <2>2. Distance = 5 + passphrases
    BY <2>1 DEF Distance
  <2>3. /\ \/ turn' \in {"server", "handler"}
           \/ turn' = "passphrase" /\ passphrases' = passphrases - 1
        /\ UNCHANGED <<keys, passwords, keyboards, stages, cancelled, outcome>>
        /\ trying' = "nothing" => trying = "nothing"
    BY <1>1 DEF GivePassphrase, Send
  <2>4. Distance' < Distance
    BY <2>1, <2>2, <2>3 DEF Distance
  <2>5. Stock' <= Stock
    BY <1>0, <2>3 DEF Stock
  <2> QED
    BY <2>3, <2>4, <2>5, Nearer
<1>2. CASE GivePassword \/ CancelPassword
  <2>1. passwords' = passwords - 1 /\ cancelled' \in BOOLEAN /\ UNCHANGED <<keys, keyboards, stages>>
        /\ (trying' = "nothing" => trying = "nothing")
    BY <1>2 DEF GivePassword, CancelPassword, Send
  <2>2. Stock' < Stock
    BY <1>0, <2>1 DEF Stock
  <2> QED
    BY <2>2, LessStock
<1>3. CASE AnswerKeyboard \/ CancelKeyboard
  <2>1. /\ UNCHANGED <<keys, passwords, stages, trying>>
        /\ cancelled' \/ (~cancelled' /\ keyboards' = keyboards - 1)
    BY <1>0, <1>3 DEF AnswerKeyboard, CancelKeyboard
  <2>2. Stock' < Stock
    BY <1>0, <2>1 DEF Stock
  <2> QED
    BY <2>2, LessStock
<1> QED
  BY <1>1, <1>2, <1>3 DEF User

LEMMA ServerDwindles ==
    ASSUME TypeOK, TypeOK', CourseInv, Server
    PROVE  RefusesUnasked \/ StepsLeft' < StepsLeft
<1> USE ServerAssumption DEF TypeOK
<1>0. Len(keys) \in Nat
  BY LenProperties
<1>1. CASE Accepts
  <2>1. Stock' = Stock /\ Distance' = Distance /\ outcome = "open" /\ outcome' = "ready"
    BY <1>1 DEF Accepts, Stock, Distance
  <2> QED
    BY <2>1, Ended
<1>2. CASE Refuses /\ ~RefusesUnasked
  <2>1. Stock' = Stock /\ outcome' = outcome
    BY <1>2 DEF Refuses, Stock
  <2>2. Distance = 4 /\ Distance' = 3
    BY <1>2 DEF Refuses, RefusesUnasked, Distance
  <2> QED
    BY <2>1, <2>2, StockIsNumber, Nearer
<1>3. CASE SatisfiedInPart
  <2>1. stages' = stages + 1 /\ UNCHANGED <<keys, passwords, keyboards, cancelled, trying>>
    BY <1>3 DEF SatisfiedInPart
  <2>2. Stock' < Stock
    BY <1>0, <2>1 DEF Stock
  <2> QED
    BY <2>2, LessStock
<1>4. CASE AsksQuestion
  <2>1. Stock' = Stock /\ outcome' = outcome
    BY <1>4 DEF AsksQuestion, Stock
  <2>2. Distance \in {2, 4} /\ Distance' = 1
    BY <1>4 DEF AsksQuestion, Distance
  <2> QED
    BY <2>1, <2>2, StockIsNumber, Nearer
<1> QED
  BY <1>1, <1>2, <1>3, <1>4 DEF Server

LEMMA NextDwindles ==
    ASSUME TypeOK, TypeOK', CourseInv, Next
    PROVE  Dwindles
<1>1. CASE Gather
  <2>1. turn = "gather"
    BY <1>1 DEF Gather, GetHandler
  <2> QED
    BY <2>1 DEF Dwindles
<1>2. CASE ReadyTimeout
  <2>1. /\ outcome = "open" /\ outcome' = "lost"
        /\ Stock' = Stock /\ Distance' = Distance
    BY <1>2 DEF ReadyTimeout, Stock, Distance
  <2> QED
    BY <2>1, Ended DEF Dwindles
<1> QED
  BY <1>1, <1>2, HandlerDwindles, UserDwindles, ServerDwindles DEF Next, Dwindles

\* Whatever the server and the user do, an authentication takes no more than the steps
\* left when its keys are gathered, apart from those of keyboard-interactive requests
\* that the server refuses without a question: keys are shifted, and the counters of
\* passwords and answers only fall (lines 450-451, 462, 501, 539-547 and 564).
THEOREM StepsDwindle == Spec => [](StepsLeft \in Nat) /\ [][Dwindles]_vars
<1>1. TypeOK /\ TypeOK' /\ CourseInv /\ [Next]_vars => [Dwindles]_vars
  BY NextDwindles
<1> QED
  BY <1>1, StepsLeftIsNumber, TypeCorrect, CourseAlways, PTL DEF Spec
=============================================================================
