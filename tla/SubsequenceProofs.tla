------------------------- MODULE SubsequenceProofs -------------------------
(***************************************************************************)
(* Lemmas about increasing sequences of numbers and about Only.  The       *)
(* models number records in the order of their capture; an increasing      *)
(* sequence of such numbers is known when the set of its elements is, so   *)
(* that statements about order become statements about sets.               *)
(***************************************************************************)
EXTENDS Subsequences, Functions, SequenceTheorems, WellFoundedInduction, TLAPS

Increasing(s) == \A i, j \in DOMAIN s : i < j => s[i] < s[j]

\* Every element of s is smaller than every one of t.
Below(s, t) == \A m \in Range(s), n \in Range(t) : m < n

-----------------------------------------------------------------------------
\* Increasing sequences.

LEMMA EmptyIs == <<>> \in Seq(Nat) /\ Increasing(<<>>) /\ Range(<<>>) = {}
BY DEF Increasing, Range

\* Every set of positions that is not empty has a first.
LEMMA LeastExists ==
    ASSUME NEW S \in SUBSET Nat, S # {}
    PROVE  \E k \in S : \A m \in S : k <= m
<1>1. PICK k \in S : \A m \in S : ~(<<m, k>> \in OpToRel(<, Nat))
  BY NatLessThanWellFounded, WFMin, Zenon
<1>2. \A m \in S : ~(m < k)
  BY <1>1, Zenon DEF OpToRel
<1> QED BY <1>2

LEMMA AppendIs ==
    ASSUME NEW q \in Seq(Nat), NEW n \in Nat, Increasing(q), \A m \in Range(q) : m < n
    PROVE  /\ Append(q, n) \in Seq(Nat) /\ Increasing(Append(q, n))
           /\ Range(Append(q, n)) = Range(q) \cup {n}
<1> DEFINE a == Append(q, n)
<1>1. /\ a \in Seq(Nat) /\ Len(q) \in Nat /\ DOMAIN a = 1 .. Len(q) + 1 /\ DOMAIN q = 1 .. Len(q)
      /\ a[Len(q) + 1] = n /\ \A i \in 1 .. Len(q) : a[i] = q[i]
  OBVIOUS
<1> HIDE DEF a
<1>2. \A i \in 1 .. Len(q) : q[i] < n
  BY <1>1, Zenon DEF Range
<1>3. Increasing(a)
  <2> SUFFICES ASSUME NEW i \in DOMAIN a, NEW j \in DOMAIN a, i < j PROVE a[i] < a[j]
    BY DEF Increasing
  <2>1. CASE j = Len(q) + 1
    BY <1>1, <1>2, <2>1
  <2>2. CASE j # Len(q) + 1
    BY <1>1, <2>2, SMTT(30) DEF Increasing
  <2> QED BY <2>1, <2>2
<1>4. Range(a) = Range(q) \cup {n}
  BY <1>1, SMTT(30) DEF Range
<1> QED BY <1>1, <1>3, <1>4 DEF a

\* c is q, which is m long, and t, which is n long, one after the other.
Joins(c, q, t, m, n) ==
    /\ m \in Nat /\ n \in Nat
    /\ DOMAIN q = 1 .. m /\ DOMAIN t = 1 .. n /\ DOMAIN c = 1 .. m + n
    /\ \A i \in 1 .. m : c[i] = q[i]
    /\ \A i \in 1 .. n : c[m + i] = t[i]

LEMMA OneAfterOther ==
    ASSUME NEW q, NEW t, NEW c, NEW m, NEW n, Joins(c, q, t, m, n),
           Increasing(q), Increasing(t), Below(q, t)
    PROVE  Increasing(c) /\ Range(c) = Range(q) \cup Range(t)
<1> USE DEF Joins
<1>0. /\ \A i, j \in 1 .. m : i < j => q[i] < q[j]
      /\ \A i, j \in 1 .. n : i < j => t[i] < t[j]
      /\ \A i \in 1 .. m, j \in 1 .. n : q[i] < t[j]
  BY Zenon DEF Increasing, Below, Range
<1>1. ASSUME NEW i \in 1 .. m + n
      PROVE  i \in 1 .. m \/ \E k \in 1 .. n : i = m + k
  <2>1. CASE i <= m
    BY <2>1
  <2>2. CASE i > m
    <3>1. i - m \in 1 .. n /\ i = m + (i - m)
      BY <2>2
    <3> QED BY <3>1
  <2> QED BY <2>1, <2>2
<1>2. ASSUME NEW i \in 1 .. m + n, NEW j \in 1 .. m + n, i < j
      PROVE  c[i] < c[j]
  <2>1. CASE j \in 1 .. m
    <3>1. i \in 1 .. m
      BY <1>2, <2>1
    <3> QED BY <1>0, <1>2, <2>1, <3>1
  <2>2. ASSUME NEW k \in 1 .. n, j = m + k
        PROVE  c[i] < c[j]
    <3>1. CASE i \in 1 .. m
      BY <1>0, <2>2, <3>1
    <3>2. ASSUME NEW l \in 1 .. n, i = m + l
          PROVE  c[i] < c[j]
      <4>1. l < k
        BY <1>2, <2>2, <3>2
      <4> QED BY <1>0, <2>2, <3>2, <4>1, Zenon
    <3> QED BY <1>1, <3>1, <3>2
  <2> QED BY <1>1, <2>1, <2>2
<1>3. Range(c) = Range(q) \cup Range(t)
  <2>1. \A i \in 1 .. m : i \in 1 .. m + n
    OBVIOUS
  <2>2. \A i \in 1 .. n : m + i \in 1 .. m + n
    OBVIOUS
  <2>3. \A i \in 1 .. m + n : c[i] \in Range(q) \cup Range(t)
    BY <1>1, SMTT(30) DEF Range
  <2>4. \A i \in 1 .. m : q[i] \in Range(c)
    BY <2>1, Zenon DEF Range
  <2>5. \A i \in 1 .. n : t[i] \in Range(c)
    BY <2>2 DEF Range
  <2>6. Range(c) \subseteq Range(q) \cup Range(t)
    BY <2>3, Zenon DEF Range
  <2>7. Range(q) \subseteq Range(c) /\ Range(t) \subseteq Range(c)
    BY <2>4, <2>5 DEF Range
  <2> QED BY <2>6, <2>7
<1> QED BY <1>2, <1>3 DEF Increasing

LEMMA ConcatIs ==
    ASSUME NEW q \in Seq(Nat), NEW t \in Seq(Nat), Increasing(q), Increasing(t), Below(q, t)
    PROVE  /\ q \o t \in Seq(Nat) /\ Increasing(q \o t)
           /\ Range(q \o t) = Range(q) \cup Range(t)
<1>1. /\ q \o t \in Seq(Nat) /\ Len(q \o t) = Len(q) + Len(t)
      /\ Len(q) \in Nat /\ Len(t) \in Nat
  OBVIOUS
<1>2. q \in [1 .. Len(q) -> Nat] /\ t \in [1 .. Len(t) -> Nat] /\ q \o t \in [1 .. Len(q) + Len(t) -> Nat]
  <2>1. q \o t \in [1 .. Len(q \o t) -> Nat]
    BY <1>1, LenProperties, Zenon
  <2> QED BY <1>1, <2>1, LenProperties
<1>3. \A i \in 1 .. Len(q) : (q \o t)[i] = q[i]
  BY <1>1
<1>4. \A i \in 1 .. Len(t) : (q \o t)[Len(q) + i] = t[i]
  BY <1>1
<1>5. PICK m \in Nat, n \in Nat, c \in [1 .. Len(q) + Len(t) -> Nat] :
         m = Len(q) /\ n = Len(t) /\ c = q \o t
  BY <1>1, <1>2, Zenon
<1>6. Joins(c, q, t, m, n)
  BY <1>2, <1>3, <1>4, <1>5 DEF Joins
<1>7. Increasing(c) /\ Range(c) = Range(q) \cup Range(t)
  BY <1>6, OneAfterOther
<1> QED BY <1>1, <1>5, <1>7

LEMMA RestIs ==
    ASSUME NEW q \in Seq(Nat), Increasing(q), NEW i \in DOMAIN q
    PROVE  /\ SubSeq(q, i + 1, Len(q)) \in Seq(Nat) /\ Increasing(SubSeq(q, i + 1, Len(q)))
           /\ Range(SubSeq(q, i + 1, Len(q))) = {q[j] : j \in i + 1 .. Len(q)}
<1> DEFINE r == SubSeq(q, i + 1, Len(q))
<1>1. Len(q) \in Nat /\ DOMAIN q = 1 .. Len(q) /\ i \in 1 .. Len(q)
  OBVIOUS
<1>2. r \in Seq(Nat) /\ Len(r) = Len(q) - i
  BY <1>1
<1>3. \A j \in 1 .. Len(q) - i : r[j] = q[i + j]
  BY <1>1, SMTT(30)
<1>4. DOMAIN r = 1 .. Len(q) - i
  BY <1>2
<1> HIDE DEF r
<1>5. PICK n \in Nat : n = Len(q)
  BY <1>1, Zenon
<1>6. \A j \in 1 .. n - i : i + j \in i + 1 .. n /\ i + j \in 1 .. n
  BY <1>1, <1>5
<1>7. Increasing(r)
  <2> SUFFICES ASSUME NEW k \in 1 .. n - i, NEW j \in 1 .. n - i, k < j PROVE r[k] < r[j]
    BY <1>4, <1>5 DEF Increasing
  <2>1. i + k \in DOMAIN q /\ i + j \in DOMAIN q /\ i + k < i + j
    BY <1>1, <1>5, <1>6
  <2>2. q[i + k] < q[i + j]
    BY <2>1 DEF Increasing
  <2> QED BY <1>3, <1>5, <2>2
<1>8. Range(r) = {q[j] : j \in i + 1 .. n}
  <2>1. \A j \in i + 1 .. n : j - i \in 1 .. n - i /\ i + (j - i) = j
    BY <1>1, <1>5
  <2>2. \A j \in i + 1 .. n : j - i \in 1 .. n - i /\ r[j - i] = q[j]
    BY <1>3, <1>5, <2>1, Zenon
  <2>3. \A j \in 1 .. n - i : r[j] \in {q[l] : l \in i + 1 .. n}
    BY <1>3, <1>5, <1>6, Zenon
  <2> QED BY <1>4, <1>5, <2>2, <2>3, Zenon DEF Range
<1> QED BY <1>2, <1>5, <1>7, <1>8 DEF r

LEMMA SameStart ==
    ASSUME NEW a \in Seq(Nat), NEW b \in Seq(Nat), Increasing(a), Increasing(b), Range(a) = Range(b)
    PROVE  \A i \in 1 .. Len(a) : i <= Len(b) /\ a[i] = b[i]
<1>1. /\ Len(a) \in Nat /\ Len(b) \in Nat /\ DOMAIN a = 1 .. Len(a) /\ DOMAIN b = 1 .. Len(b)
      /\ \A i \in DOMAIN a : a[i] \in Nat
      /\ \A i \in DOMAIN b : b[i] \in Nat
  OBVIOUS
<1> DEFINE Bad == {i \in 1 .. Len(a) : ~(i <= Len(b) /\ a[i] = b[i])}
<1> SUFFICES ASSUME Bad # {} PROVE FALSE
  OBVIOUS
<1>2. PICK m \in Bad : \A i \in Bad : m <= i
  <2>1. Bad \in SUBSET Nat
    BY <1>1
  <2> QED BY <2>1, LeastExists, Zenon
<1>3. \A i \in 1 .. Len(a) : i < m => i <= Len(b) /\ a[i] = b[i]
  BY <1>1, <1>2
<1>4. PICK j \in DOMAIN b : b[j] = a[m]
  BY <1>1, <1>2, Zenon DEF Range
<1>5. j >= m
  <2> SUFFICES ASSUME j < m PROVE FALSE
    BY <1>1, <1>2
  <2>1. a[j] = b[j] /\ j \in DOMAIN a /\ m \in DOMAIN a
    BY <1>1, <1>2, <1>3
  <2>2. a[j] < a[m]
    BY <2>1 DEF Increasing
  <2> QED BY <1>1, <1>4, <2>1, <2>2
<1>6. m \in DOMAIN b /\ m \in DOMAIN a
  BY <1>1, <1>2, <1>5
<1>7. PICK l \in DOMAIN a : a[l] = b[m]
  BY <1>6, Zenon DEF Range
<1>8. l >= m
  <2> SUFFICES ASSUME l < m PROVE FALSE
    BY <1>1, <1>6
  <2>1. a[l] = b[l] /\ l \in DOMAIN b
    BY <1>1, <1>3
  <2>2. b[l] < b[m]
    BY <1>6, <2>1 DEF Increasing
  <2> QED BY <1>1, <1>6, <1>7, <2>1, <2>2
<1>9. (a[m] = a[l] \/ a[m] < a[l]) /\ (b[m] = b[j] \/ b[m] < b[j])
  <2>1. m < l => a[m] < a[l]
    BY <1>6 DEF Increasing
  <2>2. m < j => b[m] < b[j]
    BY <1>6 DEF Increasing
  <2>3. (m = l \/ m < l) /\ (m = j \/ m < j)
    BY <1>1, <1>5, <1>6, <1>8, SMTT(30)
  <2> QED BY <1>1, <1>6, <2>1, <2>2, <2>3, Zenon
<1>10. a[m] = b[m]
  BY <1>1, <1>4, <1>6, <1>7, <1>9
<1> QED BY <1>1, <1>2, <1>6, <1>10

\* An increasing sequence is known by its elements.
LEMMA SameElements ==
    ASSUME NEW a \in Seq(Nat), NEW b \in Seq(Nat), Increasing(a), Increasing(b), Range(a) = Range(b)
    PROVE  a = b
<1>1. Len(a) \in Nat /\ Len(b) \in Nat
  OBVIOUS
<1>2. \A i \in 1 .. Len(a) : i <= Len(b) /\ a[i] = b[i]
  BY SameStart
<1>3. \A i \in 1 .. Len(b) : i <= Len(a)
  BY SameStart
<1>4. Len(a) <= Len(b)
  BY <1>1, <1>2
<1>5. Len(b) <= Len(a)
  BY <1>1, <1>3
<1>6. Len(a) = Len(b)
  BY <1>1, <1>4, <1>5
<1> QED BY <1>2, <1>6, SeqEqual

LEMMA FirstIs ==
    ASSUME NEW q \in Seq(Nat), NEW t \in Seq(Nat), NEW p \in Nat, Increasing(q), Increasing(t),
           Range(q) = {p} \cup Range(t), \A m \in Range(t) : p < m
    PROVE  q # <<>> /\ Head(q) = p /\ Tail(q) = t
<1>1. <<p>> \in Seq(Nat) /\ Increasing(<<p>>) /\ Range(<<p>>) = {p}
  BY DEF Increasing, Range
<1>2. Below(<<p>>, t)
  BY <1>1, Zenon DEF Below
<1>3. /\ <<p>> \o t \in Seq(Nat) /\ Increasing(<<p>> \o t)
      /\ Range(<<p>> \o t) = {p} \cup Range(t)
  BY <1>1, <1>2, ConcatIs, Zenon
<1>4. q = <<p>> \o t
  BY <1>3, SameElements, Zenon
<1>5. <<p>> \o t # <<>> /\ Head(<<p>> \o t) = p /\ Tail(<<p>> \o t) = t
  OBVIOUS
<1> QED BY <1>4, <1>5

-----------------------------------------------------------------------------
\* The loop of Only.

\* f is what the loop has kept after each of the first n elements of s.
Keeps(f, s, S, n) ==
    f = [i \in 0 .. n |-> IF i = 0 THEN <<>>
                          ELSE IF s[i] \in S THEN Append(f[i - 1], s[i])
                          ELSE f[i - 1]]

LEMMA LoopExists ==
    ASSUME NEW s, NEW S, NEW n \in Nat
    PROVE  \E f : Keeps(f, s, S, n)
<1> DEFINE Bad == {k \in Nat : ~ \E f : Keeps(f, s, S, k)}
<1> SUFFICES ASSUME Bad # {} PROVE FALSE
  OBVIOUS
<1>1. PICK k \in Bad : \A m \in Bad : k <= m
  <2>1. Bad \in SUBSET Nat
    OBVIOUS
  <2> QED BY <2>1, LeastExists, Zenon
<1>2. CASE k = 0
  <2> DEFINE f == [i \in 0 .. 0 |-> <<>>]
  <2>1. Keeps(f, s, S, 0)
    BY DEF Keeps
  <2> QED BY <1>1, <1>2, <2>1
<1>3. CASE k # 0
  <2>1. k - 1 \in Nat /\ ~(k <= k - 1)
    BY <1>3
  <2>2. PICK f : Keeps(f, s, S, k - 1)
    BY <1>1, <2>1
  <2> DEFINE last == IF s[k] \in S THEN Append(f[k - 1], s[k]) ELSE f[k - 1]
             g == [i \in 0 .. k |-> IF i = k THEN last ELSE f[i]]
  <2>3. ASSUME NEW i \in 0 .. k
        PROVE  g[i] = IF i = 0 THEN <<>> ELSE IF s[i] \in S THEN Append(g[i - 1], s[i]) ELSE g[i - 1]
    <3>1. CASE i = k
      <4>1. k - 1 \in 0 .. k /\ k - 1 # k /\ k \in 0 .. k
        BY <2>1
      <4>2. g[k] = last /\ g[k - 1] = f[k - 1]
        BY <4>1
      <4> QED BY <1>3, <3>1, <4>2
    <3>2. CASE i # k
      <4>1. i \in 0 .. k - 1
        BY <2>1, <3>2
      <4>2. g[i] = f[i]
        BY <3>2
      <4>3. i # 0 => i - 1 \in 0 .. k /\ i - 1 # k /\ g[i - 1] = f[i - 1]
        BY <4>1
      <4>4. f[i] = IF i = 0 THEN <<>> ELSE IF s[i] \in S THEN Append(f[i - 1], s[i]) ELSE f[i - 1]
        BY <2>2, <4>1, Zenon DEF Keeps
      <4> HIDE DEF g
      <4> QED BY <4>2, <4>3, <4>4
    <3> QED BY <3>1, <3>2
  <2>4. g = [i \in 0 .. k |-> g[i]]
    OBVIOUS
  <2> HIDE DEF g
  <2>5. Keeps(g, s, S, k)
    BY <2>3, <2>4, Zenon DEF Keeps
  <2> QED BY <1>1, <2>5
<1> QED BY <1>2, <1>3

\* Only takes the elements of S and keeps them in order.
LEMMA OnlyIs ==
    ASSUME NEW s \in Seq(Nat), Increasing(s), NEW S
    PROVE  /\ Only(s, S) \in Seq(Nat) /\ Increasing(Only(s, S))
           /\ Range(Only(s, S)) = Range(s) \cap S
<1> DEFINE n == Len(s)
           f == CHOOSE g : Keeps(g, s, S, n)
           Before(i) == {s[j] : j \in 1 .. i} \cap S
           Good(i) == f[i] \in Seq(Nat) /\ Increasing(f[i]) /\ Range(f[i]) = Before(i)
           Bad == {i \in 0 .. n : ~Good(i)}
<1>1. n \in Nat /\ DOMAIN s = 1 .. n /\ \A i \in 1 .. n : s[i] \in Nat
  OBVIOUS
<1>2. Only(s, S) = f[n]
  BY DEF Only, Keeps
<1>3. Keeps(f, s, S, n)
  BY <1>1, LoopExists, Zenon
<1> HIDE DEF f, n
<1>4. ASSUME NEW i \in 0 .. n
      PROVE  f[i] = IF i = 0 THEN <<>> ELSE IF s[i] \in S THEN Append(f[i - 1], s[i]) ELSE f[i - 1]
  BY <1>3, Zenon DEF Keeps
<1>5. Bad = {}
  <2> SUFFICES ASSUME Bad # {} PROVE FALSE
    BY Zenon
  <2>1. PICK k \in Bad : \A m \in Bad : k <= m
    <3>1. Bad \in SUBSET Nat
      BY <1>1
    <3> QED BY <3>1, LeastExists, Zenon
  <2>2. k # 0
    <3> SUFFICES ASSUME k = 0 PROVE FALSE
      OBVIOUS
    <3>1. f[0] = <<>>
      BY <1>1, <1>4
    <3>2. Before(0) = {}
      OBVIOUS
    <3>3. Range(<<>>) = {} /\ Increasing(<<>>) /\ <<>> \in Seq(Nat)
      BY DEF Range, Increasing
    <3>4. Good(0)
      BY <3>1, <3>2, <3>3
    <3> QED BY <2>1, <3>4
  <2>3. k \in 1 .. n /\ k - 1 \in 0 .. n /\ ~(k <= k - 1)
    BY <1>1, <2>1, <2>2
  <2>4. Good(k - 1)
    BY <2>1, <2>3, Zenon
  <2>5. \A j \in 1 .. k : j = k \/ j \in 1 .. k - 1
    BY <2>3
  <2>6. \A j \in 1 .. k - 1 : j \in 1 .. k /\ s[j] < s[k]
    BY <1>1, <2>3, SMTT(30) DEF Increasing
  <2>7. k \in 1 .. k
    BY <2>3
  <2>8. CASE s[k] \in S
    <3>1. Before(k) = Before(k - 1) \cup {s[k]}
      BY <2>5, <2>6, <2>7, <2>8, Zenon
    <3>2. \A m \in Range(f[k - 1]) : m < s[k]
      BY <2>4, <2>6, Zenon
    <3>3. f[k] = Append(f[k - 1], s[k])
      BY <1>4, <2>2, <2>3, <2>8, Zenon
    <3>4. s[k] \in Nat
      BY <1>1, <2>3
    <3>5. PICK q \in Seq(Nat) : q = f[k - 1]
      BY <2>4
    <3>6. Increasing(q) /\ Range(q) = Before(k - 1) /\ \A m \in Range(q) : m < s[k]
      BY <2>4, <3>2, <3>5, Zenon
    <3>7. /\ Append(q, s[k]) \in Seq(Nat) /\ Increasing(Append(q, s[k]))
          /\ Range(Append(q, s[k])) = Range(q) \cup {s[k]}
      BY <3>4, <3>6, AppendIs, Zenon
    <3>8. Good(k)
      BY <3>1, <3>3, <3>5, <3>6, <3>7, Zenon
    <3> QED BY <2>1, <3>8
  <2>9. CASE s[k] \notin S
    <3>1. Before(k) = Before(k - 1)
      BY <2>5, <2>6, <2>9, Zenon
    <3>2. f[k] = f[k - 1]
      BY <1>4, <2>2, <2>3, <2>9
    <3>3. Good(k)
      BY <2>4, <3>1, <3>2, Zenon
    <3> QED BY <2>1, <3>3
  <2> QED BY <2>8, <2>9
<1>6. Good(n)
  <2>1. n \in 0 .. n
    BY <1>1
  <2> HIDE DEF Good
  <2> QED BY <1>5, <2>1
<1>7. Before(n) = Range(s) \cap S
  BY <1>1 DEF Range
<1> QED BY <1>2, <1>6, <1>7

=============================================================================
