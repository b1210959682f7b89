------------------------ MODULE ShellBufferProofs -------------------------
(* Proofs about the buffer of Shell, for every set of tools and objects and *)
(* all bounds.                                                              *)
EXTENDS ShellProofs, Integers, FiniteSetTheorems, FunctionTheorems,
        SequenceTheorems, WellFoundedInduction

-----------------------------------------------------------------------------
(* Induction and the least number of a set *)

LEMMA LeastNumber ==
    ASSUME NEW T \in SUBSET Nat, T # {}
    PROVE  \E m \in T : \A n \in T : m <= n
<1> DEFINE R == OpToRel(<, Nat)
<1>1. IsWellFoundedOn(R, Nat)
  BY NatLessThanWellFounded
<1>2. \A x, y \in Nat : x < y => <<x, y>> \in R
  BY DEF OpToRel
<1> HIDE DEF R
<1>3. PICK m \in T : \A n \in T : ~(<<n, m>> \in R)
  BY <1>1, WFMin, Zenon
<1>4. ASSUME NEW n \in T
      PROVE  m <= n
  <2>1. m \in Nat /\ n \in Nat /\ ~(n < m)
    BY <1>2, <1>3
  <2> QED
    BY <2>1
<1> QED
  BY <1>4

LEMMA NumbersFromZero ==
    ASSUME NEW T, 0 \in T, \A n \in Nat : n \in T => n + 1 \in T
    PROVE  Nat \subseteq T
<1> SUFFICES ASSUME Nat \ T # {}
             PROVE  FALSE
  OBVIOUS
<1>1. PICK m \in Nat \ T : \A n \in Nat \ T : m <= n
  BY LeastNumber
<1>2. m - 1 \in Nat /\ (m - 1) + 1 = m
  BY <1>1
<1>3. m - 1 \in T
  BY <1>1, <1>2
<1> QED
  BY <1>1, <1>2, <1>3

-----------------------------------------------------------------------------
(* What is kept of a sequence *)

\* f is the function of the definition of Kept, up to n.
Keeps(f, s, D, n) ==
    f = [i \in 0..n |-> IF i = 0 THEN <<>>
                        ELSE IF s[i] \in D THEN Append(f[i - 1], s[i]) ELSE f[i - 1]]

LEMMA KeepsExists ==
    ASSUME NEW s, NEW D, NEW n \in Nat
    PROVE  \E f : Keeps(f, s, D, n)
<1> DEFINE T == {m \in Nat : \E f : Keeps(f, s, D, m)}
<1>1. 0 \in T
  <2>1. Keeps([i \in 0..0 |-> <<>>], s, D, 0)
    BY DEF Keeps
  <2> QED
    BY <2>1
<1>2. ASSUME NEW m \in Nat, m \in T
      PROVE  m + 1 \in T
  <2>1. PICK f : Keeps(f, s, D, m)
    BY <1>2
  <2> DEFINE last == IF s[m + 1] \in D THEN Append(f[m], s[m + 1]) ELSE f[m]
             g == [i \in 0..(m + 1) |-> IF i = m + 1 THEN last ELSE f[i]]
  <2>2. \A i \in 0..m : f[i] = IF i = 0 THEN <<>>
                               ELSE IF s[i] \in D THEN Append(f[i - 1], s[i]) ELSE f[i - 1]
    BY <2>1 DEF Keeps
  <2>3. ASSUME NEW i \in 0..(m + 1)
        PROVE  g[i] = IF i = 0 THEN <<>>
                      ELSE IF s[i] \in D THEN Append(g[i - 1], s[i]) ELSE g[i - 1]
    <3>1. CASE i = m + 1
      <4>1. g[i] = last /\ g[i - 1] = f[m] /\ i # 0
        BY <3>1
      <4> QED
        BY <3>1, <4>1
    <3>2. CASE i # m + 1
      <4>1. i \in 0..m /\ g[i] = f[i] /\ (i # 0 => i - 1 \in 0..m /\ g[i - 1] = f[i - 1])
        BY <3>2
      <4> QED
        BY <2>2, <4>1
    <3> QED
      BY <3>1, <3>2
  <2>4. Keeps(g, s, D, m + 1)
    <3>1. g = [i \in 0..(m + 1) |-> g[i]]
      OBVIOUS
    <3> HIDE DEF g
    <3> QED
      BY <2>3, <3>1 DEF Keeps
  <2> QED
    BY <2>4
<1> HIDE DEF T
<1>3. n \in T
  BY <1>1, <1>2, NumbersFromZero
<1> QED
  BY <1>3 DEF T

LEMMA KeptEquation ==
    ASSUME NEW s, NEW D, Len(s) \in Nat
    PROVE  \E f : Keeps(f, s, D, Len(s)) /\ Kept(s, D) = f[Len(s)]
<1>1. \E f : Keeps(f, s, D, Len(s))
  BY KeepsExists
<1> QED
  BY <1>1, Zenon DEF Keeps, Kept

\* e tells where in the first n elements of s those of K are from: K has those
\* that are in D, in their order.
Places(e, K, s, D, n) ==
    /\ e \in [1..Len(K) -> 1..n]
    /\ \A i \in 1..Len(K) : K[i] = s[e[i]] /\ K[i] \in D /\ i <= e[i]
    /\ \A i, j \in 1..Len(K) : i < j => e[i] < e[j]
    /\ \A k \in 1..n : s[k] \in D => \E i \in 1..Len(K) : e[i] = k

LEMMA PlacesAppend ==
    ASSUME NEW S, NEW s, NEW D, NEW n \in Nat, s[n + 1] \in D, s[n + 1] \in S,
           NEW K \in Seq(S), \E e : Places(e, K, s, D, n), Len(K) <= n
    PROVE  \E e : Places(e, Append(K, s[n + 1]), s, D, n + 1)
<1> DEFINE L == Append(K, s[n + 1])
<1>1. PICK e : Places(e, K, s, D, n)
  OBVIOUS
<1>2. /\ Len(K) \in Nat /\ Len(L) = Len(K) + 1 /\ L[Len(K) + 1] = s[n + 1]
      /\ \A i \in 1..Len(K) : L[i] = K[i]
  BY AppendProperties, LenProperties
<1> DEFINE g == [i \in 1..(Len(K) + 1) |-> IF i = Len(K) + 1 THEN n + 1 ELSE e[i]]
<1>3. g[Len(K) + 1] = n + 1 /\ \A i \in 1..Len(K) : g[i] = e[i] /\ e[i] \in 1..n
  BY <1>1, <1>2 DEF Places
<1>4. g \in [1..Len(L) -> 1..(n + 1)]
  <2>1. ASSUME NEW i \in 1..(Len(K) + 1)
        PROVE  (IF i = Len(K) + 1 THEN n + 1 ELSE e[i]) \in 1..(n + 1)
    <3>1. CASE i = Len(K) + 1
      BY <3>1
    <3>2. CASE i # Len(K) + 1
      <4>1. i \in 1..Len(K)
        BY <1>2, <3>2
      <4>2. e[i] \in 1..n
        BY <1>3, <4>1
      <4> QED
        BY <3>2, <4>2
    <3> QED
      BY <3>1, <3>2
  <2>2. g \in [1..(Len(K) + 1) -> 1..(n + 1)]
    BY <2>1
  <2> HIDE DEF g
  <2> QED
    BY <1>2, <2>2
<1> HIDE DEF L, g
<1>5. ASSUME NEW i \in 1..Len(L)
      PROVE  L[i] = s[g[i]] /\ L[i] \in D /\ i <= g[i]
  <2>1. CASE i = Len(K) + 1
    BY <1>2, <1>3, <2>1
  <2>2. CASE i # Len(K) + 1
    <3>1. i \in 1..Len(K)
      BY <1>2, <2>2
    <3> QED
      BY <1>1, <1>2, <1>3, <3>1 DEF Places
  <2> QED
    BY <2>1, <2>2
<1>6. ASSUME NEW i \in 1..Len(L), NEW j \in 1..Len(L), i < j
      PROVE  g[i] < g[j]
  <2>1. i \in 1..Len(K)
    BY <1>2, <1>6
  <2>2. CASE j = Len(K) + 1
    BY <1>3, <2>1, <2>2
  <2>3. CASE j \in 1..Len(K)
    BY <1>1, <1>3, <1>6, <2>1, <2>3 DEF Places
  <2> QED
    BY <1>2, <2>2, <2>3
<1>7. ASSUME NEW k \in 1..(n + 1), s[k] \in D
      PROVE  \E i \in 1..Len(L) : g[i] = k
  <2>1. CASE k = n + 1
    <3>1. Len(K) + 1 \in 1..Len(L)
      BY <1>2
    <3> QED
      BY <1>3, <2>1, <3>1
  <2>2. CASE k # n + 1
    <3>1. PICK i \in 1..Len(K) : e[i] = k
      BY <1>1, <1>7, <2>2 DEF Places
    <3>2. i \in 1..Len(L)
      BY <1>2
    <3> QED
      BY <1>3, <3>1, <3>2
  <2> QED
    BY <2>1, <2>2
<1>8. Places(g, L, s, D, n + 1)
  BY <1>4, <1>5, <1>6, <1>7 DEF Places
<1> QED
  BY <1>8 DEF L

LEMMA PlacesSkip ==
    ASSUME NEW S, NEW s, NEW D, NEW n \in Nat, s[n + 1] \notin D,
           NEW K \in Seq(S), NEW e, Places(e, K, s, D, n)
    PROVE  Places(e, K, s, D, n + 1)
<1>1. Len(K) \in Nat
  BY LenProperties
<1>2. e \in [1..Len(K) -> 1..(n + 1)]
  BY <1>1 DEF Places
<1>3. ASSUME NEW k \in 1..(n + 1), s[k] \in D
      PROVE  \E i \in 1..Len(K) : e[i] = k
  <2>1. k \in 1..n
    BY <1>3
  <2> QED
    BY <1>3, <2>1 DEF Places
<1> QED
  BY <1>2, <1>3 DEF Places

LEMMA KeptLemma ==
    ASSUME NEW S, NEW s \in Seq(S), NEW D
    PROVE  /\ Kept(s, D) \in Seq(S)
           /\ \E e : Places(e, Kept(s, D), s, D, Len(s))
<1>1. Len(s) \in Nat /\ \A k \in 1..Len(s) : s[k] \in S
  BY LenProperties, ElementOfSeq
<1>2. PICK f : Keeps(f, s, D, Len(s)) /\ Kept(s, D) = f[Len(s)]
  BY <1>1, KeptEquation
<1> DEFINE Good(n) == /\ f[n] \in Seq(S) /\ Len(f[n]) <= n
                      /\ \E e : Places(e, f[n], s, D, n)
           T == {n \in Nat : n <= Len(s) => Good(n)}
<1>3. 0 \in T
  <2>1. f[0] = <<>>
    BY <1>1, <1>2 DEF Keeps
  <2>2. Len(<<>>) = 0 /\ <<>> \in Seq(S)
    BY EmptySeq
  <2>3. Places(<<>>, <<>>, s, D, 0)
    BY <2>2 DEF Places
  <2>4. f[0] \in Seq(S) /\ Len(f[0]) <= 0
    BY <2>1, <2>2
  <2>5. \E e : Places(e, f[0], s, D, 0)
    BY <2>1, <2>3
  <2> QED
    BY <2>4, <2>5
<1>4. ASSUME NEW n \in Nat, n \in T
      PROVE  n + 1 \in T
  <2> SUFFICES ASSUME n + 1 <= Len(s)
               PROVE  Good(n + 1)
    OBVIOUS
  <2>1. Good(n) /\ n + 1 \in 1..Len(s)
    BY <1>1, <1>4
  <2>2. f[n + 1] = IF s[n + 1] \in D THEN Append(f[n], s[n + 1]) ELSE f[n]
    <3>1. n + 1 \in 0..Len(s) /\ n + 1 # 0 /\ (n + 1) - 1 = n
      BY <2>1
    <3> QED
      BY <1>2, <3>1 DEF Keeps
  <2>3. CASE s[n + 1] \in D
    <3>1. /\ Append(f[n], s[n + 1]) \in Seq(S)
          /\ Len(Append(f[n], s[n + 1])) = Len(f[n]) + 1 /\ Len(f[n]) \in Nat
      BY <1>1, <2>1, AppendProperties, LenProperties
    <3>2. \E e : Places(e, Append(f[n], s[n + 1]), s, D, n + 1)
      BY <1>1, <2>1, <2>3, PlacesAppend
    <3>3. f[n + 1] = Append(f[n], s[n + 1])
      BY <2>2, <2>3
    <3>4. f[n + 1] \in Seq(S) /\ Len(f[n + 1]) <= n + 1
      BY <2>1, <3>1, <3>3
    <3>5. \E e : Places(e, f[n + 1], s, D, n + 1)
      BY <3>2, <3>3
    <3> QED
      BY <3>4, <3>5
  <2>4. CASE s[n + 1] \notin D
    <3>1. f[n + 1] = f[n] /\ Len(f[n]) \in Nat
      BY <2>1, <2>2, <2>4, LenProperties
    <3>2. \E e : Places(e, f[n], s, D, n + 1)
      BY <2>1, <2>4, PlacesSkip
    <3> QED
      BY <2>1, <3>1, <3>2
  <2> QED
    BY <2>3, <2>4
<1>5. Len(s) \in T
  <2> HIDE DEF T
  <2> QED
    BY <1>1, <1>3, <1>4, NumbersFromZero
<1> QED
  BY <1>1, <1>2, <1>5

-----------------------------------------------------------------------------
(* What the operations do to a buffer *)

HasLi(b, o) == \E k \in DOMAIN b : b[k] = [of |-> o, hidden |-> FALSE]

\* An object has at most one li.
Distinct(b) == \A j, k \in DOMAIN b : b[j].of = b[k].of => j = k

LEMMA VisibleFinite ==
    ASSUME NEW b \in Seq(Li), NEW k \in Nat
    PROVE  IsFiniteSet(VisibleFrom(b, k)) /\ Cardinality(VisibleFrom(b, k)) \in Nat
<1>1. k \in Int /\ Len(b) \in Int
  BY LenProperties
<1>2. IsFiniteSet(k..Len(b)) /\ VisibleFrom(b, k) \in SUBSET (k..Len(b))
  BY <1>1, FS_Interval DEF VisibleFrom
<1>3. IsFiniteSet(VisibleFrom(b, k))
  BY <1>2, FS_Subset
<1> QED
  BY <1>3, FS_CardinalityType

LEMMA SmallerSet ==
    ASSUME NEW A, NEW B, IsFiniteSet(B), NEW g \in [A -> B],
           \A x, y \in A : g[x] = g[y] => x = y
    PROVE  IsFiniteSet(A) /\ Cardinality(A) <= Cardinality(B)
<1>1. g \in Injection(A, B)
  BY Fun_IsInj
<1> QED
  BY <1>1, FS_Injection

LEMMA PlacesInjective ==
    ASSUME NEW s, NEW D, NEW n \in Nat, NEW K, NEW e, Len(K) \in Nat, Places(e, K, s, D, n)
    PROVE  /\ \A i \in 1..Len(K) : e[i] \in 1..n
           /\ \A i, j \in 1..Len(K) : e[i] = e[j] => i = j
           /\ Len(K) <= n
<1>1. \A i \in 1..Len(K) : e[i] \in 1..n /\ i <= e[i]
  BY DEF Places
<1>2. ASSUME NEW i \in 1..Len(K), NEW j \in 1..Len(K), e[i] = e[j]
      PROVE  i = j
  <2>1. ~(i < j) /\ ~(j < i)
    BY <1>1, <1>2 DEF Places
  <2> QED
    BY <2>1
<1>3. Len(K) <= n
  <2>1. CASE Len(K) = 0
    BY <2>1
  <2>2. CASE Len(K) # 0
    <3>1. Len(K) \in 1..Len(K)
      BY <2>2
    <3> QED
      BY <1>1, <3>1
  <2> QED
    BY <2>1, <2>2
<1> QED
  BY <1>1, <1>2, <1>3

\* The lis that are kept are among those there were, no one of them nearer to
\* the begin of the buffer than it was.
LEMMA KeptBuffer ==
    ASSUME NEW b \in Seq(Li), NEW I
    PROVE  /\ Kept(b, LisBut(I)) \in Seq(Li)
           /\ Len(Kept(b, LisBut(I))) <= Len(b)
           /\ \A i \in DOMAIN Kept(b, LisBut(I)) :
                 /\ Kept(b, LisBut(I))[i].of \notin I
                 /\ \E j \in DOMAIN b : i <= j /\ Kept(b, LisBut(I))[i] = b[j]
           /\ \A o : o \notin I /\ HasLi(b, o) => HasLi(Kept(b, LisBut(I)), o)
           /\ Distinct(b) => Distinct(Kept(b, LisBut(I)))
           /\ Visible(Kept(b, LisBut(I))) <= Visible(b)
<1> DEFINE D == LisBut(I)
           K == Kept(b, D)
<1>1. /\ Len(b) \in Nat /\ DOMAIN b = 1..Len(b)
      /\ \A k \in DOMAIN b : b[k] \in Li
  BY LenProperties, ElementOfSeq
<1>2. K \in Seq(Li) /\ \E e : Places(e, K, b, D, Len(b))
  BY KeptLemma
<1> HIDE DEF K, D
<1>3. Len(K) \in Nat /\ DOMAIN K = 1..Len(K)
  BY <1>2, LenProperties
<1>4. PICK e : Places(e, K, b, D, Len(b))
  BY <1>2
<1>5. /\ \A i \in 1..Len(K) : e[i] \in 1..Len(b)
      /\ \A i, j \in 1..Len(K) : e[i] = e[j] => i = j
      /\ Len(K) <= Len(b)
  BY <1>1, <1>3, <1>4, PlacesInjective
<1>6. \A i \in 1..Len(K) : K[i] = b[e[i]] /\ K[i] \in D /\ i <= e[i]
  BY <1>4 DEF Places
<1>7. ASSUME NEW i \in DOMAIN K
      PROVE  K[i].of \notin I /\ \E j \in DOMAIN b : i <= j /\ K[i] = b[j]
  <2>1. K[i] \in D /\ e[i] \in DOMAIN b /\ i <= e[i] /\ K[i] = b[e[i]]
    BY <1>1, <1>3, <1>5, <1>6
  <2> QED
    BY <2>1 DEF D, LisBut
<1>8. ASSUME NEW o, o \notin I, HasLi(b, o)
      PROVE  HasLi(K, o)
  <2>1. PICK k \in DOMAIN b : b[k] = [of |-> o, hidden |-> FALSE]
    BY <1>8 DEF HasLi
  <2>2. b[k] \in D
    <3>1. [of |-> o, hidden |-> FALSE].of = o
      OBVIOUS
    <3>2. b[k].of \notin I
      BY <1>8, <2>1, <3>1
    <3>3. b[k] \in Li
      BY <1>1
    <3> QED
      BY <3>2, <3>3 DEF D, LisBut
  <2>3. PICK i \in 1..Len(K) : e[i] = k
    BY <1>1, <1>4, <2>2 DEF Places
  <2> QED
    BY <1>3, <1>6, <2>1, <2>3 DEF HasLi
<1>9. ASSUME Distinct(b)
      PROVE  Distinct(K)
  <2>1. ASSUME NEW i \in 1..Len(K), NEW j \in 1..Len(K), K[i].of = K[j].of
        PROVE  i = j
    <3>1. b[e[i]].of = b[e[j]].of /\ e[i] \in DOMAIN b /\ e[j] \in DOMAIN b
      BY <1>1, <1>5, <1>6, <2>1
    <3>2. e[i] = e[j]
      BY <1>9, <3>1 DEF Distinct
    <3> QED
      BY <1>5, <3>2
  <2> QED
    BY <1>3, <2>1 DEF Distinct
<1>10. Visible(K) <= Visible(b)
  <2> DEFINE g == [i \in VisibleFrom(K, 1) |-> e[i]]
  <2>1. \A i \in VisibleFrom(K, 1) : i \in 1..Len(K) /\ ~K[i].hidden
    BY DEF VisibleFrom
  <2>2. ASSUME NEW i \in VisibleFrom(K, 1)
        PROVE  e[i] \in VisibleFrom(b, 1)
    <3>1. e[i] \in 1..Len(b) /\ ~b[e[i]].hidden
      BY <1>5, <1>6, <2>1
    <3> QED
      BY <3>1 DEF VisibleFrom
  <2>3. g \in [VisibleFrom(K, 1) -> VisibleFrom(b, 1)]
    BY <2>2
  <2>4. \A x, y \in VisibleFrom(K, 1) : g[x] = g[y] => x = y
    BY <1>5, <2>1
  <2>5. IsFiniteSet(VisibleFrom(b, 1))
    BY VisibleFinite
  <2> HIDE DEF g
  <2> QED
    BY <2>3, <2>4, <2>5, SmallerSet DEF Visible
<1> QED
  BY <1>2, <1>5, <1>7, <1>8, <1>9, <1>10 DEF K, D

\* The objects that the buffer has no place for are taken out of it.
LEMMA TrimmedTop ==
    ASSUME NEW b \in Seq(Li), order = "top"
    PROVE  Len(Kept(b, LisBut(Overflow(b)))) <= MaxObjects + 1
<1> DEFINE I == Overflow(b)
           K == Kept(b, LisBut(I))
<1>1. /\ K \in Seq(Li)
      /\ \A i \in DOMAIN K : K[i].of \notin I /\ \E j \in DOMAIN b : i <= j /\ K[i] = b[j]
  BY KeptBuffer
<1> HIDE DEF K
<1>2. Len(K) \in Nat /\ DOMAIN K = 1..Len(K) /\ DOMAIN b = 1..Len(b) /\ Len(b) \in Nat
  BY <1>1, LenProperties
<1>3. MaxObjects \in Nat
  BY ShellAssumption
<1> SUFFICES ASSUME Len(K) > MaxObjects + 1
             PROVE  FALSE
  BY <1>2, <1>3 DEF K
<1>4. Len(K) \in DOMAIN K
  BY <1>2, <1>3
<1>5. PICK j \in DOMAIN b : Len(K) <= j /\ K[Len(K)] = b[j]
  BY <1>1, <1>4
<1>6. j > MaxObjects + 1
  BY <1>2, <1>3, <1>5
<1>7. b[j].of \in I
  BY <1>6 DEF Overflow
<1> QED
  BY <1>1, <1>4, <1>5, <1>7

LEMMA TrimmedKeep ==
    ASSUME NEW b \in Seq(Li), order # "top"
    PROVE  Visible(Kept(b, LisBut(Overflow(b)))) <= MaxObjects
<1> DEFINE I == Overflow(b)
           D == LisBut(I)
           K == Kept(b, D)
           V == VisibleFrom(K, 1)
           M == {k \in DOMAIN b : ~b[k].hidden /\ Cardinality(VisibleFrom(b, k)) <= MaxObjects}
<1>1. K \in Seq(Li) /\ \E e : Places(e, K, b, D, Len(b))
  BY KeptLemma
<1>2. /\ Len(b) \in Nat /\ DOMAIN b = 1..Len(b) /\ Len(K) \in Nat /\ DOMAIN K = 1..Len(K)
      /\ MaxObjects \in Nat
  BY <1>1, LenProperties, ShellAssumption
<1>3. ASSUME NEW k \in DOMAIN b, b[k] \in D
      PROVE  Cardinality(VisibleFrom(b, k)) <= MaxObjects
  <2>1. b[k].of \notin I
    BY <1>3 DEF LisBut
  <2>2. ~(Cardinality(VisibleFrom(b, k)) > MaxObjects)
    BY <2>1 DEF Overflow
  <2>3. Cardinality(VisibleFrom(b, k)) \in Nat
    BY <1>2, VisibleFinite
  <2> QED
    BY <1>2, <2>2, <2>3
<1> HIDE DEF K, D, I
<1>4. PICK e : Places(e, K, b, D, Len(b))
  BY <1>1
<1>5. /\ \A i \in 1..Len(K) : e[i] \in 1..Len(b)
      /\ \A i, j \in 1..Len(K) : e[i] = e[j] => i = j
      /\ Len(K) <= Len(b)
  <2>1. Len(b) \in Nat /\ Len(K) \in Nat
    BY <1>2
  <2> QED
    BY <1>4, <2>1, PlacesInjective, Zenon
<1>6. ASSUME NEW i \in V
      PROVE  e[i] \in M /\ i \in 1..Len(K)
  <2>1. i \in 1..Len(K) /\ ~K[i].hidden
    BY DEF VisibleFrom
  <2>2. b[e[i]] \in D /\ e[i] \in DOMAIN b /\ ~b[e[i]].hidden
    BY <1>2, <1>4, <1>5, <2>1 DEF Places
  <2> QED
    BY <1>3, <2>1, <2>2
<1>7. CASE M = {}
  <2>1. V = {}
    BY <1>6, <1>7
  <2>2. Cardinality(V) <= MaxObjects
    BY <1>2, <2>1, FS_EmptySet
  <2> QED
    BY <2>2 DEF Visible, K, D, I
<1>8. CASE M # {}
  <2>1. M \in SUBSET Nat
    BY <1>2
  <2>2. PICK m \in M : \A n \in M : m <= n
    BY <1>8, <2>1, LeastNumber
  <2> DEFINE g == [i \in V |-> e[i]]
  <2>3. \A i \in V : e[i] \in VisibleFrom(b, m)
    <3>1. ASSUME NEW i \in V
          PROVE  e[i] \in VisibleFrom(b, m)
      <4>1. m <= e[i] /\ e[i] \in 1..Len(b) /\ ~b[e[i]].hidden /\ m \in 1..Len(b)
        BY <1>2, <1>6, <2>2
      <4>2. e[i] \in m..Len(b)
        BY <1>2, <4>1
      <4> QED
        BY <4>1, <4>2 DEF VisibleFrom
    <3> QED
      BY <3>1
  <2>4. g \in [V -> VisibleFrom(b, m)]
    BY <2>3
  <2>5. \A x, y \in V : g[x] = g[y] => x = y
    BY <1>5, <1>6
  <2>6. /\ IsFiniteSet(VisibleFrom(b, m)) /\ Cardinality(VisibleFrom(b, m)) \in Nat
        /\ Cardinality(VisibleFrom(b, m)) <= MaxObjects
    BY <2>1, <2>2, VisibleFinite
  <2> HIDE DEF g, M
  <2>7. IsFiniteSet(V) /\ Cardinality(V) <= Cardinality(VisibleFrom(b, m))
    BY <2>4, <2>5, <2>6, SmallerSet
  <2>8. Cardinality(V) \in Nat
    BY <2>7, FS_CardinalityType
  <2>9. Cardinality(V) <= MaxObjects
    BY <1>2, <2>6, <2>7, <2>8
  <2> QED
    BY <2>9 DEF Visible, K, D, I
<1> QED
  BY <1>7, <1>8

\* The object that is left gets a visible li, the others keep theirs.
LEMMA BufferedTop ==
    ASSUME NEW b \in Seq(Li), NEW o \in Object, order = "top"
    PROVE  /\ Buffered(b, o) \in Seq(Li)
           /\ Len(Buffered(b, o)) = Len(b) + 1
           /\ Buffered(b, o)[1] = [of |-> o, hidden |-> FALSE]
           /\ \A k \in DOMAIN Buffered(b, o) :
                 k # 1 => k - 1 \in DOMAIN b /\ Buffered(b, o)[k] = b[k - 1]
           /\ \A k \in DOMAIN b : k + 1 \in DOMAIN Buffered(b, o) /\ Buffered(b, o)[k + 1] = b[k]
<1> DEFINE li == [of |-> o, hidden |-> FALSE]
           B == <<li>> \o b
<1>1. Buffered(b, o) = B
  BY DEF Buffered
<1>2. li \in Li
  BY DEF Li
<1> HIDE DEF li
<1>3. <<li>> \in Seq(Li) /\ Len(<<li>>) = 1 /\ <<li>>[1] = li
  BY <1>2
<1>4. /\ B \in Seq(Li) /\ Len(B) = 1 + Len(b)
      /\ \A i \in 1..(1 + Len(b)) : B[i] = IF i <= 1 THEN <<li>>[i] ELSE b[i - 1]
  <2>1. /\ <<li>> \o b \in Seq(Li) /\ Len(<<li>> \o b) = Len(<<li>>) + Len(b)
        /\ \A i \in 1..(Len(<<li>>) + Len(b)) :
              (<<li>> \o b)[i] = IF i <= Len(<<li>>) THEN <<li>>[i] ELSE b[i - Len(<<li>>)]
    BY <1>3, ConcatProperties
  <2> QED
    BY <1>3, <2>1
<1> HIDE DEF B
<1>5. /\ Len(b) \in Nat /\ DOMAIN b = 1..Len(b) /\ DOMAIN B = 1..Len(B)
  BY <1>4, LenProperties
<1>6. B[1] = li
  BY <1>3, <1>4, <1>5
<1>7. ASSUME NEW k \in DOMAIN B, k # 1
      PROVE  k - 1 \in DOMAIN b /\ B[k] = b[k - 1]
  BY <1>4, <1>5, <1>7
<1>8. ASSUME NEW k \in DOMAIN b
      PROVE  k + 1 \in DOMAIN B /\ B[k + 1] = b[k]
  <2>1. k + 1 \in 1..(1 + Len(b)) /\ ~(k + 1 <= 1) /\ (k + 1) - 1 = k
    BY <1>5
  <2> QED
    BY <1>4, <1>5, <2>1
<1> QED
  BY <1>1, <1>4, <1>5, <1>6, <1>7, <1>8 DEF li

LEMMA OneMore ==
    ASSUME NEW b \in Seq(Li), NEW B \in Seq(Li), NEW x,
           VisibleFrom(B, 1) \subseteq VisibleFrom(b, 1) \cup {x}
    PROVE  Visible(B) <= Visible(b) + 1
<1> DEFINE V == VisibleFrom(b, 1)
<1>1. IsFiniteSet(V) /\ Cardinality(V) \in Nat
  BY VisibleFinite
<1>2. IsFiniteSet(V \cup {x}) /\ Cardinality(V \cup {x}) <= Cardinality(V) + 1
  <2>1. /\ IsFiniteSet(V \cup {x})
        /\ Cardinality(V \cup {x}) = IF x \in V THEN Cardinality(V) ELSE Cardinality(V) + 1
    BY <1>1, FS_AddElement
  <2> HIDE DEF V
  <2> QED
    BY <1>1, <2>1
<1>3. Cardinality(VisibleFrom(B, 1)) <= Cardinality(V \cup {x})
  BY <1>2, FS_Subset
<1>4. Cardinality(VisibleFrom(B, 1)) \in Nat /\ Cardinality(V \cup {x}) \in Nat
  BY <1>2, VisibleFinite, FS_CardinalityType
<1> QED
  BY <1>1, <1>2, <1>3, <1>4 DEF Visible

LEMMA BufferedKeep ==
    ASSUME NEW b \in Seq(Li), NEW o \in Object, order # "top", Distinct(b)
    PROVE  /\ Buffered(b, o) \in Seq(Li)
           /\ Distinct(Buffered(b, o))
           /\ HasLi(Buffered(b, o), o)
           /\ \A w : HasLi(b, w) => HasLi(Buffered(b, o), w)
           /\ Visible(Buffered(b, o)) <= Visible(b) + 1
<1> DEFINE li == [of |-> o, hidden |-> FALSE]
           B == Buffered(b, o)
<1>1. /\ Len(b) \in Nat /\ DOMAIN b = 1..Len(b) /\ \A k \in DOMAIN b : b[k] \in Li
  BY LenProperties, ElementOfSeq
<1>2. li \in Li /\ li.of = o
  BY DEF Li
<1>3. CASE InBuffer(b, o)
  <2>1. B = [k \in DOMAIN b |-> IF b[k].of = o THEN li ELSE b[k]]
    BY <1>3 DEF Buffered
  <2> HIDE DEF B, li
  <2>2. /\ DOMAIN B = 1..Len(b)
        /\ \A k \in DOMAIN b : B[k] = IF b[k].of = o THEN li ELSE b[k]
    BY <1>1, <2>1
  <2>3. B \in [1..Len(b) -> Li]
    BY <1>1, <1>2, <2>1
  <2>4. B \in Seq(Li) /\ Len(B) = Len(b)
    BY <1>1, <2>3
  <2>5. \A k \in DOMAIN b : B[k].of = b[k].of
    BY <1>2, <2>2
  <2>6. Distinct(B)
    BY <1>1, <2>2, <2>5 DEF Distinct
  <2>7. PICK x \in DOMAIN b : b[x].of = o
    BY <1>3 DEF InBuffer
  <2>8. HasLi(B, o)
    <3>1. B[x] = li /\ x \in DOMAIN B
      BY <1>1, <2>2, <2>7
    <3> QED
      BY <3>1 DEF HasLi, li
  <2>9. ASSUME NEW w, HasLi(b, w)
        PROVE  HasLi(B, w)
    <3>1. PICK k \in DOMAIN b : b[k] = [of |-> w, hidden |-> FALSE]
      BY <2>9 DEF HasLi
    <3>2. CASE b[k].of = o
      <4>1. w = o
        BY <3>1, <3>2
      <4> QED
        BY <2>8, <4>1
    <3>3. CASE b[k].of # o
      <4>1. B[k] = [of |-> w, hidden |-> FALSE] /\ k \in DOMAIN B
        BY <1>1, <2>2, <3>1, <3>3
      <4> QED
        BY <4>1 DEF HasLi
    <3> QED
      BY <3>2, <3>3
  <2>10. VisibleFrom(B, 1) \subseteq VisibleFrom(b, 1) \cup {x}
    <3>1. ASSUME NEW k \in VisibleFrom(B, 1), k # x
          PROVE  k \in VisibleFrom(b, 1)
      <4>1. k \in DOMAIN b /\ ~B[k].hidden
        BY <1>1, <2>4 DEF VisibleFrom
      <4>2. b[k].of # o
        BY <2>7, <3>1, <4>1 DEF Distinct
      <4>3. ~b[k].hidden
        BY <2>2, <4>1, <4>2
      <4> QED
        BY <1>1, <4>1, <4>3 DEF VisibleFrom
    <3> QED
      BY <3>1
  <2> QED
    BY <2>4, <2>6, <2>8, <2>9, <2>10, OneMore DEF B
<1>4. CASE ~InBuffer(b, o)
  <2>1. B = Append(b, li)
    BY <1>4 DEF Buffered
  <2> HIDE DEF B, li
  <2>2. /\ B \in Seq(Li) /\ Len(B) = Len(b) + 1 /\ B[Len(b) + 1] = li
        /\ \A k \in 1..Len(b) : B[k] = b[k]
    BY <1>1, <1>2, <2>1, AppendProperties
  <2>3. DOMAIN B = 1..(Len(b) + 1)
    BY <2>2, LenProperties
  <2>4. \A k \in DOMAIN b : b[k].of # o
    BY <1>4 DEF InBuffer
  <2>5. ASSUME NEW j \in DOMAIN B, NEW k \in DOMAIN B, B[j].of = B[k].of
        PROVE  j = k
    <3>1. CASE j = Len(b) + 1
      <4>1. B[k].of = o
        BY <1>2, <2>2, <2>5, <3>1
      <4>2. k \notin 1..Len(b)
        BY <1>1, <2>2, <2>4, <4>1
      <4> QED
        BY <1>1, <2>3, <3>1, <4>2
    <3>2. CASE k = Len(b) + 1
      <4>1. B[j].of = o
        BY <1>2, <2>2, <2>5, <3>2
      <4>2. j \notin 1..Len(b)
        BY <1>1, <2>2, <2>4, <4>1
      <4> QED
        BY <1>1, <2>3, <3>2, <4>2
    <3>3. CASE j # Len(b) + 1 /\ k # Len(b) + 1
      <4>1. j \in DOMAIN b /\ k \in DOMAIN b
        BY <1>1, <2>3, <3>3
      <4> QED
        BY <1>1, <2>2, <2>5, <4>1 DEF Distinct
    <3> QED
      BY <3>1, <3>2, <3>3
  <2>6. Len(b) + 1 \in DOMAIN B
    BY <1>1, <2>3
  <2>7. HasLi(B, o)
    BY <2>2, <2>6 DEF HasLi, li
  <2>8. ASSUME NEW w, HasLi(b, w)
        PROVE  HasLi(B, w)
    <3>1. PICK k \in DOMAIN b : b[k] = [of |-> w, hidden |-> FALSE]
      BY <2>8 DEF HasLi
    <3>2. k \in DOMAIN B /\ B[k] = b[k]
      BY <1>1, <2>2, <2>3
    <3> QED
      BY <3>1, <3>2 DEF HasLi
  <2>9. VisibleFrom(B, 1) \subseteq VisibleFrom(b, 1) \cup {Len(b) + 1}
    <3>1. ASSUME NEW k \in VisibleFrom(B, 1), k # Len(b) + 1
          PROVE  k \in VisibleFrom(b, 1)
      <4>1. k \in 1..(Len(b) + 1) /\ ~B[k].hidden
        BY <2>2 DEF VisibleFrom
      <4>2. k \in 1..Len(b)
        BY <1>1, <3>1, <4>1
      <4>3. ~b[k].hidden
        BY <2>2, <4>1, <4>2
      <4> QED
        BY <4>2, <4>3 DEF VisibleFrom
    <3> QED
      BY <3>1
  <2> QED
    BY <2>2, <2>5, <2>7, <2>8, <2>9, OneMore DEF B, Distinct
<1> QED
  BY <1>3, <1>4

\* Whatever the order, the buffer that has no li of o, or is kept in its order.
LEMMA BufferedLemma ==
    ASSUME NEW b \in Seq(Li), NEW o \in Object, Distinct(b),
           order = "top" => ~InBuffer(b, o)
    PROVE  /\ Buffered(b, o) \in Seq(Li)
           /\ Distinct(Buffered(b, o))
           /\ HasLi(Buffered(b, o), o)
           /\ \A w : HasLi(b, w) => HasLi(Buffered(b, o), w)
           /\ order = "top" =>
                 /\ Len(Buffered(b, o)) = Len(b) + 1
                 /\ \A k \in DOMAIN Buffered(b, o) :
                       Buffered(b, o)[k].of = o \/ InBuffer(b, Buffered(b, o)[k].of)
           /\ order # "top" => Visible(Buffered(b, o)) <= Visible(b) + 1
<1> DEFINE li == [of |-> o, hidden |-> FALSE]
           B == Buffered(b, o)
<1>1. CASE order # "top"
  BY <1>1, BufferedKeep
<1>2. CASE order = "top"
  <2>1. /\ B \in Seq(Li) /\ Len(B) = Len(b) + 1 /\ B[1] = li
        /\ \A k \in DOMAIN B : k # 1 => k - 1 \in DOMAIN b /\ B[k] = b[k - 1]
        /\ \A k \in DOMAIN b : k + 1 \in DOMAIN B /\ B[k + 1] = b[k]
    BY <1>2, BufferedTop
  <2>2. li.of = o
    OBVIOUS
  <2>3. /\ Len(b) \in Nat /\ DOMAIN b = 1..Len(b) /\ DOMAIN B = 1..Len(B)
    BY <2>1, LenProperties
  <2> HIDE DEF B, li
  <2>4. \A k \in DOMAIN b : b[k].of # o
    BY <1>2 DEF InBuffer
  <2>5. ASSUME NEW j \in DOMAIN B, NEW k \in DOMAIN B, B[j].of = B[k].of
        PROVE  j = k
    <3>1. CASE j = 1
      BY <2>1, <2>2, <2>4, <2>5, <3>1
    <3>2. CASE k = 1
      BY <2>1, <2>2, <2>4, <2>5, <3>2
    <3>3. CASE j # 1 /\ k # 1
      <4>1. /\ j - 1 \in DOMAIN b /\ k - 1 \in DOMAIN b
            /\ b[j - 1].of = b[k - 1].of
        BY <2>1, <2>5, <3>3
      <4>2. j - 1 = k - 1
        BY <4>1 DEF Distinct
      <4> QED
        BY <2>1, <2>3, <4>2
    <3> QED
      BY <3>1, <3>2, <3>3
  <2>6. 1 \in DOMAIN B
    BY <2>1, <2>3
  <2>7. HasLi(B, o)
    BY <2>1, <2>6 DEF HasLi, li
  <2>8. ASSUME NEW w, HasLi(b, w)
        PROVE  HasLi(B, w)
    <3>1. PICK k \in DOMAIN b : b[k] = [of |-> w, hidden |-> FALSE]
      BY <2>8 DEF HasLi
    <3>2. k + 1 \in DOMAIN B /\ B[k + 1] = [of |-> w, hidden |-> FALSE]
      BY <2>1, <3>1
    <3> QED
      BY <3>2 DEF HasLi
  <2>9. ASSUME NEW k \in DOMAIN B
        PROVE  B[k].of = o \/ InBuffer(b, B[k].of)
    BY <2>1, <2>2 DEF InBuffer
  <2> QED
    BY <1>2, <2>1, <2>5, <2>7, <2>8, <2>9 DEF B, Distinct
<1> QED
  BY <1>1, <1>2

Hiding(b, o) ==
    [k \in DOMAIN b |-> IF b[k].of = o THEN [b[k] EXCEPT !.hidden = TRUE] ELSE b[k]]

LEMMA HidingLemma ==
    ASSUME NEW b \in Seq(Li), NEW o
    PROVE  /\ Hiding(b, o) \in Seq(Li)
           /\ Distinct(b) => Distinct(Hiding(b, o))
           /\ \A w : w # o /\ HasLi(b, w) => HasLi(Hiding(b, o), w)
<1> DEFINE B == Hiding(b, o)
<1>1. /\ Len(b) \in Nat /\ DOMAIN b = 1..Len(b) /\ \A k \in DOMAIN b : b[k] \in Li
  BY LenProperties, ElementOfSeq
<1>2. \A l \in Li : [l EXCEPT !.hidden = TRUE] \in Li /\ [l EXCEPT !.hidden = TRUE].of = l.of
  BY DEF Li
<1>3. /\ DOMAIN B = 1..Len(b)
      /\ \A k \in DOMAIN b : B[k] = IF b[k].of = o THEN [b[k] EXCEPT !.hidden = TRUE] ELSE b[k]
      /\ B = [k \in DOMAIN b |-> B[k]]
  BY <1>1 DEF Hiding
<1> HIDE DEF B
<1>4. \A k \in DOMAIN b : B[k] \in Li /\ B[k].of = b[k].of
  BY <1>1, <1>2, <1>3
<1>5. B \in [1..Len(b) -> Li]
  BY <1>1, <1>3, <1>4
<1>6. B \in Seq(Li)
  BY <1>1, <1>5
<1>7. Distinct(b) => Distinct(B)
  BY <1>1, <1>3, <1>4 DEF Distinct
<1>8. ASSUME NEW w, w # o, HasLi(b, w)
      PROVE  HasLi(B, w)
  <2>1. PICK k \in DOMAIN b : b[k] = [of |-> w, hidden |-> FALSE]
    BY <1>8 DEF HasLi
  <2>2. [of |-> w, hidden |-> FALSE].of = w
    OBVIOUS
  <2>3. b[k].of # o
    BY <1>8, <2>1, <2>2
  <2>4. k \in DOMAIN B /\ B[k] = [of |-> w, hidden |-> FALSE]
    BY <1>1, <1>3, <2>1, <2>3
  <2> QED
    BY <2>4 DEF HasLi
<1> QED
  BY <1>6, <1>7, <1>8 DEF B

-----------------------------------------------------------------------------
(* What the operations do to a page *)

LEMMA PageFields ==
    ASSUME NEW P \in Page
    PROVE  /\ P.windows \in SUBSET Item /\ P.shown \in Item \cup {None}
           /\ P.editing \in SUBSET Object /\ P.bound \in SUBSET (Item \X Object)
           /\ P.buffer \in Seq(Li) /\ P.current \in Object \cup {None}
           /\ DOMAIN P.buffer = 1..Len(P.buffer) /\ Len(P.buffer) \in Nat
           /\ \A k \in DOMAIN P.buffer : P.buffer[k] \in Li /\ P.buffer[k].of \in Object
           /\ Visible(P.buffer) \in Nat
<1>1. /\ P.windows \in SUBSET Item /\ P.shown \in Item \cup {None}
      /\ P.editing \in SUBSET Object /\ P.bound \in SUBSET (Item \X Object)
      /\ P.buffer \in Seq(Li) /\ P.current \in Object \cup {None}
  BY DEF Page
<1>2. /\ DOMAIN P.buffer = 1..Len(P.buffer) /\ Len(P.buffer) \in Nat
      /\ \A k \in DOMAIN P.buffer : P.buffer[k] \in Li
  BY <1>1, LenProperties, ElementOfSeq
<1>3. \A k \in DOMAIN P.buffer : P.buffer[k].of \in Object
  BY <1>2 DEF Li
<1>4. Visible(P.buffer) \in Nat
  BY <1>1, VisibleFinite DEF Visible
<1> QED
  BY <1>1, <1>2, <1>3, <1>4

LEMMA RemovedFields ==
    ASSUME NEW P \in Page, NEW I
    PROVE  /\ Removed(P, I) \in Page
           /\ Removed(P, I).windows = P.windows \ I
           /\ Removed(P, I).editing = P.editing \ I
           /\ Removed(P, I).buffer = Kept(P.buffer, LisBut(I))
           /\ Removed(P, I).shown = IF P.shown \in I THEN None ELSE P.shown
           /\ Removed(P, I).current = P.current
<1> DEFINE c == Kept(P.buffer, LisBut(I))
           B == {x \in P.bound : x[1] \notin I /\ x[2] \notin I}
           s == IF P.shown \in I THEN None ELSE P.shown
<1>1. Removed(P, I) = [P EXCEPT !.windows = P.windows \ I, !.editing = P.editing \ I,
                                !.bound = B, !.buffer = c, !.shown = s]
  BY DEF Removed, Page
<1>2. /\ P.windows \ I \in SUBSET Item /\ P.editing \ I \in SUBSET Object
      /\ B \in SUBSET (Item \X Object) /\ s \in Item \cup {None}
  BY PageFields
<1>3. c \in Seq(Li)
  BY PageFields, KeptBuffer
<1> HIDE DEF c, B, s
<1>4. /\ Removed(P, I) \in Page
      /\ Removed(P, I).windows = P.windows \ I /\ Removed(P, I).editing = P.editing \ I
      /\ Removed(P, I).buffer = c /\ Removed(P, I).shown = s
      /\ Removed(P, I).current = P.current
  BY <1>1, <1>2, <1>3 DEF Page
<1> QED
  BY <1>4 DEF c, s

LEMMA ShownFields ==
    ASSUME NEW P \in Page, NEW i \in Item
    PROVE  /\ Shown(P, i) \in Page
           /\ Shown(P, i).windows = P.windows \cup {i}
           /\ Shown(P, i).editing = P.editing
           /\ Shown(P, i).buffer = P.buffer
           /\ Shown(P, i).shown = i
           /\ Shown(P, i).current = P.current
  BY DEF Shown, Page

LEMMA WithBuffer ==
    ASSUME NEW P \in Page, NEW b \in Seq(Li)
    PROVE  /\ [P EXCEPT !.buffer = b] \in Page
           /\ [P EXCEPT !.buffer = b].windows = P.windows
           /\ [P EXCEPT !.buffer = b].editing = P.editing
           /\ [P EXCEPT !.buffer = b].buffer = b
           /\ [P EXCEPT !.buffer = b].shown = P.shown
           /\ [P EXCEPT !.buffer = b].current = P.current
  BY DEF Page

LEMMA WithCurrent ==
    ASSUME NEW P \in Page, NEW o \in Object \cup {None}
    PROVE  /\ [P EXCEPT !.current = o] \in Page
           /\ [P EXCEPT !.current = o].windows = P.windows
           /\ [P EXCEPT !.current = o].editing = P.editing
           /\ [P EXCEPT !.current = o].buffer = P.buffer
           /\ [P EXCEPT !.current = o].shown = P.shown
           /\ [P EXCEPT !.current = o].current = o
  BY DEF Page

LEMMA TakenFields ==
    ASSUME NEW P \in Page, NEW o
    PROVE  /\ Taken(P, o) \in Page
           /\ Taken(P, o).windows = P.windows
           /\ Taken(P, o).editing = P.editing
           /\ Taken(P, o).buffer = IF order = "top" THEN Kept(P.buffer, LisBut({o}))
                                   ELSE Hiding(P.buffer, o)
           /\ Taken(P, o).shown = P.shown
           /\ Taken(P, o).current = P.current
<1> DEFINE x == IF order = "top" THEN Kept(P.buffer, LisBut({o})) ELSE Hiding(P.buffer, o)
<1>1. Taken(P, o) = [P EXCEPT !.buffer = x]
  BY DEF Taken, Page, Hiding
<1>2. x \in Seq(Li)
  BY PageFields, KeptBuffer, HidingLemma
<1> HIDE DEF x
<1>3. /\ Taken(P, o) \in Page
      /\ Taken(P, o).windows = P.windows /\ Taken(P, o).editing = P.editing
      /\ Taken(P, o).buffer = x /\ Taken(P, o).shown = P.shown
      /\ Taken(P, o).current = P.current
  BY <1>1, <1>2, WithBuffer
<1> QED
  BY <1>3 DEF x

-----------------------------------------------------------------------------
(* The parts of the invariant of the page, for any page *)

\* What is shown has a window; an object that is shown is the current one.
Standing(P) ==
    /\ P \in Page
    /\ P.shown # None => P.shown \in P.windows
    /\ P.shown \in Object => P.current = P.shown
    /\ Distinct(P.buffer)

\* With the default behaviour the buffer has what has a window and is not
\* the current object ...
LisHidden(P) ==
    order = "top" =>
        \A k \in DOMAIN P.buffer :
            P.buffer[k].of \in P.windows /\ P.buffer[k].of # P.current

\* ... which is the one that is shown.
CurrentShown(P) == order = "top" /\ P.current # None => P.shown = P.current

\* The objects but those of W are the current one or in the buffer to be seen.
Found(P, W) ==
    \A o \in (P.windows \cap Object) \ W : o = P.current \/ HasLi(P.buffer, o)

Bounded(P, n) ==
    IF order = "top" THEN Len(P.buffer) <= MaxObjects + 1 + n
    ELSE Visible(P.buffer) <= MaxObjects + n

\* There is one place less for the lis while an object is current: it is put
\* in the buffer when it is left, and the buffer is not cut then.
PageInv(P) ==
    /\ Standing(P) /\ LisHidden(P) /\ CurrentShown(P) /\ Found(P, {})
    /\ Bounded(P, IF P.current = None THEN 2 ELSE 1)

LEMMA RemovedStep ==
    ASSUME NEW P, Standing(P), LisHidden(P), NEW I, NEW W, NEW n \in Nat, Found(P, W)
    PROVE  /\ Standing(Removed(P, I))
           /\ LisHidden(Removed(P, I))
           /\ Found(Removed(P, I), W)
           /\ Bounded(P, n) => Bounded(Removed(P, I), n)
           /\ \A o : o \in I \/ ~InBuffer(P.buffer, o) => ~InBuffer(Removed(P, I).buffer, o)
<1> DEFINE b == P.buffer
           K == Kept(b, LisBut(I))
           R == Removed(P, I)
<1>1. /\ R \in Page /\ R.windows = P.windows \ I /\ R.buffer = K
      /\ R.shown = IF P.shown \in I THEN None ELSE P.shown
      /\ R.current = P.current
  BY RemovedFields DEF Standing
<1>2. P \in Page /\ b \in Seq(Li)
  BY PageFields DEF Standing
<1>3. /\ K \in Seq(Li) /\ Len(K) <= Len(b)
      /\ \A i \in DOMAIN K : K[i].of \notin I /\ \E j \in DOMAIN b : i <= j /\ K[i] = b[j]
      /\ \A o : o \notin I /\ HasLi(b, o) => HasLi(K, o)
      /\ Distinct(b) => Distinct(K)
      /\ Visible(K) <= Visible(b)
  BY <1>2, KeptBuffer
<1>4. Len(K) \in Nat /\ Visible(K) \in Nat
  BY <1>1, PageFields
<1> HIDE DEF K, R
<1>5. Standing(R)
  <2>1. None \notin Object
    BY ShellAssumption
  <2> QED
    BY <1>1, <1>3, <2>1 DEF Standing
<1>6. LisHidden(R)
  BY <1>1, <1>3 DEF LisHidden
<1>7. Found(R, W)
  BY <1>1, <1>3 DEF Found
<1>8. ASSUME Bounded(P, n)
      PROVE  Bounded(R, n)
  <2>1. Len(b) \in Nat /\ Visible(b) \in Nat /\ MaxObjects \in Nat
    BY <1>2, PageFields, ShellAssumption
  <2> QED
    BY <1>1, <1>3, <1>4, <1>8, <2>1 DEF Bounded
<1>9. ASSUME NEW o, o \in I \/ ~InBuffer(b, o)
      PROVE  ~InBuffer(R.buffer, o)
  BY <1>1, <1>3, <1>9 DEF InBuffer
<1> QED
  BY <1>5, <1>6, <1>7, <1>8, <1>9 DEF R

LEMMA TakenStep ==
    ASSUME NEW P, Standing(P), LisHidden(P), NEW o, Found(P, {})
    PROVE  /\ Standing(Taken(P, o))
           /\ LisHidden(Taken(P, o))
           /\ Found(Taken(P, o), {o})
           /\ order = "top" => ~InBuffer(Taken(P, o).buffer, o)
<1> DEFINE b == P.buffer
           T == Taken(P, o)
<1>1. /\ T \in Page /\ T.windows = P.windows
      /\ T.buffer = IF order = "top" THEN Kept(b, LisBut({o})) ELSE Hiding(b, o)
      /\ T.shown = P.shown /\ T.current = P.current
  BY TakenFields DEF Standing
<1>2. P \in Page /\ b \in Seq(Li)
  BY PageFields DEF Standing
<1> HIDE DEF T
<1>3. CASE order = "top"
  <2> DEFINE K == Kept(b, LisBut({o}))
  <2>1. /\ \A i \in DOMAIN K : K[i].of \notin {o} /\ \E j \in DOMAIN b : i <= j /\ K[i] = b[j]
        /\ \A w : w \notin {o} /\ HasLi(b, w) => HasLi(K, w)
        /\ Distinct(b) => Distinct(K)
    BY <1>2, KeptBuffer
  <2>2. T.buffer = K
    BY <1>1, <1>3
  <2> HIDE DEF K
  <2>3. Standing(T) /\ LisHidden(T)
    BY <1>1, <2>1, <2>2 DEF Standing, LisHidden
  <2>4. Found(T, {o})
    BY <1>1, <2>1, <2>2 DEF Found
  <2>5. ~InBuffer(T.buffer, o)
    BY <2>1, <2>2 DEF InBuffer
  <2> QED
    BY <2>3, <2>4, <2>5 DEF T
<1>4. CASE order # "top"
  <2>1. T.buffer = Hiding(b, o)
    BY <1>1, <1>4
  <2>2. /\ Distinct(b) => Distinct(T.buffer)
        /\ \A w : w # o /\ HasLi(b, w) => HasLi(T.buffer, w)
    BY <1>2, <2>1, HidingLemma
  <2>3. Standing(T) /\ LisHidden(T)
    BY <1>1, <1>4, <2>2 DEF Standing, LisHidden
  <2>4. Found(T, {o})
    BY <1>1, <2>2 DEF Found
  <2> QED
    BY <1>4, <2>3, <2>4 DEF T
<1> QED
  BY <1>3, <1>4

LEMMA ShownStep ==
    ASSUME NEW P, Standing(P), LisHidden(P), NEW i \in Item, NEW W, Found(P, W),
           i \in Object => i \in W
    PROVE  /\ LisHidden(Shown(P, i))
           /\ Found(Shown(P, i), W)
           /\ \A n : Bounded(P, n) => Bounded(Shown(P, i), n)
<1> DEFINE S == Shown(P, i)
<1>1. /\ S.windows = P.windows \cup {i} /\ S.buffer = P.buffer /\ S.current = P.current
  BY ShownFields DEF Standing
<1> HIDE DEF S
<1>2. LisHidden(S)
  BY <1>1 DEF LisHidden
<1>3. Found(S, W)
  BY <1>1 DEF Found
<1>4. \A n : Bounded(P, n) => Bounded(S, n)
  BY <1>1 DEF Bounded
<1> QED
  BY <1>2, <1>3, <1>4 DEF S

\* The current object goes to the buffer: nothing is lost, and the buffer gets
\* one more than it had.
LEMMA ClosedStep ==
    ASSUME NEW P \in Page, Distinct(P.buffer), LisHidden(P),
           order = "top" /\ P.current # None => P.current \in P.windows,
           NEW W, Found(P, W), NEW n \in Nat, Bounded(P, n)
    PROVE  /\ Closed(P) \in Page
           /\ Closed(P).windows = P.windows
           /\ Closed(P).editing = P.editing
           /\ Closed(P).shown = P.shown
           /\ Closed(P).current = None
           /\ Distinct(Closed(P).buffer)
           /\ LisHidden(Closed(P))
           /\ order = "top" =>
                 \A k \in DOMAIN Closed(P).buffer :
                    \/ Closed(P).buffer[k].of = P.current
                    \/ InBuffer(P.buffer, Closed(P).buffer[k].of)
           /\ \A o \in (P.windows \cap Object) \ W : HasLi(Closed(P).buffer, o)
           /\ Bounded(Closed(P), IF P.current = None THEN n ELSE n + 1)
<1> DEFINE b == P.buffer
           C == Closed(P)
<1>0. None \notin Object
  BY ShellAssumption
<1>1. b \in Seq(Li) /\ P.current \in Object \cup {None}
  BY PageFields
<1>2. CASE P.current = None
  <2>1. C = P
    BY <1>2 DEF Closed
  <2>2. \A k \in DOMAIN b : InBuffer(b, b[k].of)
    BY DEF InBuffer
  <2>3. \A o \in (P.windows \cap Object) \ W : HasLi(b, o)
    BY <1>0, <1>2 DEF Found
  <2> QED
    BY <1>2, <2>1, <2>2, <2>3
<1>3. CASE P.current # None
  <2> DEFINE B == Buffered(b, P.current)
             Q == [P EXCEPT !.buffer = B]
  <2>1. P.current \in Object
    BY <1>1, <1>3
  <2>2. order = "top" => ~InBuffer(b, P.current)
    BY DEF LisHidden, InBuffer
  <2>3. /\ B \in Seq(Li) /\ Distinct(B) /\ HasLi(B, P.current)
        /\ \A w : HasLi(b, w) => HasLi(B, w)
        /\ order = "top" =>
              /\ Len(B) = Len(b) + 1
              /\ \A k \in DOMAIN B : B[k].of = P.current \/ InBuffer(b, B[k].of)
        /\ order # "top" => Visible(B) <= Visible(b) + 1
    BY <1>1, <2>1, <2>2, BufferedLemma
  <2> HIDE DEF B
  <2>4. C = [P EXCEPT !.buffer = B, !.current = None]
    BY <1>3 DEF Closed, Page, B
  <2>5. /\ C \in Page /\ C.windows = P.windows /\ C.editing = P.editing
        /\ C.shown = P.shown /\ C.current = None /\ C.buffer = B
    BY <2>3, <2>4 DEF Page
  <2> HIDE DEF C
  <2>6. LisHidden(C)
    <3> SUFFICES ASSUME order = "top", NEW k \in DOMAIN B
                 PROVE  B[k].of \in P.windows /\ B[k].of # None
      BY <2>5 DEF LisHidden
    <3>1. B[k].of \in Object
      BY <2>5, PageFields
    <3>2. CASE B[k].of = P.current
      BY <1>0, <1>3, <3>1, <3>2
    <3>3. CASE InBuffer(b, B[k].of)
      BY <1>0, <3>1, <3>3 DEF LisHidden, InBuffer
    <3> QED
      BY <2>3, <3>2, <3>3
  <2>7. \A o \in (P.windows \cap Object) \ W : HasLi(B, o)
    BY <2>3 DEF Found
  <2>8. Bounded(C, n + 1)
    <3>1. /\ Len(b) \in Nat /\ Visible(b) \in Nat /\ MaxObjects \in Nat
          /\ Len(B) \in Nat /\ Visible(B) \in Nat
      BY <2>5, PageFields, ShellAssumption
    <3> QED
      BY <2>3, <2>5, <3>1 DEF Bounded
  <2> QED
    BY <1>3, <2>3, <2>5, <2>6, <2>7, <2>8 DEF C
<1> QED
  BY <1>2, <1>3

LEMMA ClickedStep ==
    ASSUME NEW P, PageInv(P), NEW t \in Tool
    PROVE  /\ PageInv(Closed(Shown(P, t)))
           /\ Closed(Shown(P, t)).current = None
           /\ Closed(Shown(P, t)).editing = P.editing
<1> DEFINE S == Shown(P, t)
           C == Closed(S)
           n == IF P.current = None THEN 2 ELSE 1
<1>1. t \in Item /\ t \notin Object /\ t # None /\ None \notin Object
  BY ShellAssumption DEF Item
<1>2. P \in Page /\ Standing(P) /\ LisHidden(P) /\ Found(P, {}) /\ Bounded(P, n)
  BY DEF PageInv, Standing
<1>3. /\ S \in Page /\ S.windows = P.windows \cup {t} /\ S.editing = P.editing
      /\ S.buffer = P.buffer /\ S.shown = t /\ S.current = P.current
  BY <1>1, <1>2, ShownFields
<1>4. LisHidden(S) /\ Found(S, {}) /\ Bounded(S, n)
  BY <1>1, <1>2, ShownStep
<1>5. order = "top" /\ S.current # None => S.current \in S.windows
  BY <1>3 DEF PageInv, CurrentShown, Standing
<1>6. Distinct(S.buffer)
  BY <1>2, <1>3 DEF Standing
<1>7. n \in Nat /\ (IF S.current = None THEN n ELSE n + 1) = 2
  BY <1>3
<1> HIDE DEF S, n
<1>8. /\ C \in Page /\ C.windows = S.windows /\ C.editing = S.editing
      /\ C.shown = S.shown /\ C.current = None
      /\ Distinct(C.buffer) /\ LisHidden(C)
      /\ \A o \in (S.windows \cap Object) \ {} : HasLi(C.buffer, o)
      /\ Bounded(C, IF S.current = None THEN n ELSE n + 1)
  BY <1>3, <1>4, <1>5, <1>6, <1>7, ClosedStep
<1> HIDE DEF C
<1>9. Standing(C) /\ CurrentShown(C) /\ Found(C, {}) /\ Bounded(C, 2)
  BY <1>1, <1>3, <1>7, <1>8 DEF Standing, CurrentShown, Found
<1> QED
  BY <1>3, <1>8, <1>9 DEF PageInv, C, S

\* The page when an object is to be shown that is taken from the buffer, the
\* buffer cut, and its window removed if it is to be loaded anew.
LEMMA ReloadedStep ==
    ASSUME NEW P, PageInv(P), NEW o \in Object
    PROVE  LET trimmed == Trimmed(Taken(P, o))
               reloaded == Reloaded(trimmed, o)
           IN  /\ Standing(trimmed)
               /\ trimmed.current = P.current
               /\ order = "top" /\ P.current # None => trimmed.shown = P.current
               /\ Standing(reloaded) /\ LisHidden(reloaded)
               /\ Found(reloaded, {o}) /\ Bounded(reloaded, 0)
               /\ reloaded.current = P.current
               /\ order = "top" => ~InBuffer(reloaded.buffer, o)
               /\ order = "top" /\ P.current \notin {None, o} => P.current \in reloaded.windows
               /\ reloaded.editing = trimmed.editing
               /\ trimmed.editing = P.editing \ Overflow(Taken(P, o).buffer)
<1> DEFINE taken == Taken(P, o)
           I == Overflow(taken.buffer)
           trimmed == Trimmed(taken)
           reloaded == Reloaded(trimmed, o)
<1>0. None \notin Object /\ MaxObjects \in Nat
  BY ShellAssumption
<1>1. Standing(P) /\ LisHidden(P) /\ Found(P, {}) /\ CurrentShown(P) /\ P \in Page
  BY DEF PageInv, Standing
<1>2. /\ Standing(taken) /\ LisHidden(taken) /\ Found(taken, {o})
      /\ order = "top" => ~InBuffer(taken.buffer, o)
  BY <1>1, TakenStep
<1>3. /\ taken \in Page /\ taken.windows = P.windows /\ taken.editing = P.editing
      /\ taken.shown = P.shown /\ taken.current = P.current
  BY <1>1, TakenFields
<1>4. trimmed = Removed(taken, I)
  BY DEF Trimmed
<1> HIDE DEF taken, trimmed, I
<1>5. /\ trimmed.windows = P.windows \ I /\ trimmed.editing = P.editing \ I
      /\ trimmed.buffer = Kept(taken.buffer, LisBut(I))
      /\ trimmed.shown = IF P.shown \in I THEN None ELSE P.shown
      /\ trimmed.current = P.current /\ trimmed \in Page
  BY <1>3, <1>4, RemovedFields
<1>6. /\ Standing(trimmed) /\ LisHidden(trimmed) /\ Found(trimmed, {o})
      /\ order = "top" => ~InBuffer(trimmed.buffer, o)
  BY <1>2, <1>4, RemovedStep
<1>7. Bounded(trimmed, 0)
  <2>1. taken.buffer \in Seq(Li)
    BY <1>3, PageFields
  <2>2. IF order = "top" THEN Len(trimmed.buffer) <= MaxObjects + 1
        ELSE Visible(trimmed.buffer) <= MaxObjects
    BY <1>5, <2>1, TrimmedTop, TrimmedKeep DEF I
  <2> QED
    BY <1>0, <2>2 DEF Bounded
<1>8. ASSUME order = "top", P.current # None
      PROVE  trimmed.shown = P.current /\ P.current \in trimmed.windows
  <2>1. P.current \notin I
    <3> SUFFICES ASSUME P.current \in I
                 PROVE  FALSE
      OBVIOUS
    <3>1. PICK k \in DOMAIN taken.buffer : taken.buffer[k].of = P.current
      BY <1>8 DEF I, Overflow
    <3> QED
      BY <1>2, <1>3, <1>8, <3>1 DEF LisHidden
  <2> QED
    BY <1>1, <1>5, <1>8, <2>1 DEF CurrentShown, Standing
<1>9. CASE reloaded = trimmed
  BY <1>4, <1>5, <1>6, <1>7, <1>8, <1>9 DEF trimmed, taken, I
<1>10. CASE reloaded = Removed(trimmed, {o}) /\ o \notin trimmed.editing
  <2> DEFINE R == Removed(trimmed, {o})
  <2>0. /\ R.windows = trimmed.windows \ {o}
        /\ R.editing = trimmed.editing \ {o}
        /\ R.current = trimmed.current
    <3>1. trimmed \in Page
      BY <1>5
    <3> QED
      BY <3>1, RemovedFields
  <2> HIDE DEF R
  <2>1. /\ reloaded.windows = trimmed.windows \ {o}
        /\ reloaded.editing = trimmed.editing \ {o}
        /\ reloaded.current = trimmed.current
    BY <1>10, <2>0 DEF R
  <2>2. /\ Standing(reloaded) /\ LisHidden(reloaded) /\ Found(reloaded, {o})
        /\ Bounded(reloaded, 0) /\ ~InBuffer(reloaded.buffer, o)
    BY <1>6, <1>7, <1>10, RemovedStep
  <2>3. reloaded.editing = trimmed.editing
    BY <1>10, <2>1
  <2> HIDE DEF reloaded
  <2>4. order = "top" /\ P.current \notin {None, o} => P.current \in reloaded.windows
    BY <1>8, <2>1
  <2> QED
    BY <1>5, <1>6, <1>8, <2>1, <2>2, <2>3, <2>4 DEF reloaded, trimmed, taken, I
<1> QED
  BY <1>9, <1>10 DEF Reloaded

\* An object that is opened becomes the current one; the object that is left is
\* in the buffer, and editors go only with the windows the buffer has no place for.
LEMMA OpenedStep ==
    ASSUME NEW P, PageInv(P), NEW o \in Object
    PROVE  /\ PageInv(Opened(P, o))
           /\ Opened(P, o).editing = P.editing \ Overflow(Taken(P, o).buffer)
<1> DEFINE trimmed == Trimmed(Taken(P, o))
           reloaded == Reloaded(trimmed, o)
           S == Shown(reloaded, o)
           C == Closed(S)
           E == P.editing \ Overflow(Taken(P, o).buffer)
<1>0. None \notin Object /\ o # None /\ o \in Item /\ MaxObjects \in Nat
  BY ShellAssumption DEF Item
<1>1. /\ Standing(trimmed) /\ trimmed.current = P.current
      /\ order = "top" /\ P.current # None => trimmed.shown = P.current
      /\ Standing(reloaded) /\ LisHidden(reloaded)
      /\ Found(reloaded, {o}) /\ Bounded(reloaded, 0)
      /\ reloaded.current = P.current
      /\ order = "top" => ~InBuffer(reloaded.buffer, o)
      /\ order = "top" /\ P.current \notin {None, o} => P.current \in reloaded.windows
      /\ reloaded.editing = E
  BY ReloadedStep
<1>2. Opened(P, o) = IF trimmed.shown = o THEN S ELSE [C EXCEPT !.current = o]
  BY DEF Opened
<1> HIDE DEF trimmed, reloaded, E
<1>3. reloaded \in Page
  BY <1>1 DEF Standing
<1>4. /\ S \in Page /\ S.windows = reloaded.windows \cup {o} /\ S.editing = E
      /\ S.buffer = reloaded.buffer /\ S.shown = o /\ S.current = P.current
  BY <1>0, <1>1, <1>3, ShownFields
<1>5. LisHidden(S) /\ Found(S, {o}) /\ Bounded(S, 0)
  BY <1>0, <1>1, ShownStep
<1>6. Distinct(S.buffer)
  BY <1>1, <1>4 DEF Standing
<1> HIDE DEF S
<1>7. CASE trimmed.shown = o
  <2>1. S.current = o
    BY <1>1, <1>4, <1>7 DEF Standing
  <2>2. Standing(S) /\ CurrentShown(S)
    BY <1>4, <1>6, <2>1 DEF Standing, CurrentShown
  <2>3. Found(S, {})
    BY <1>5, <2>1 DEF Found
  <2>4. Bounded(S, 1)
    <3>1. Len(S.buffer) \in Nat /\ Visible(S.buffer) \in Nat
      BY <1>4, PageFields
    <3> QED
      BY <1>0, <1>5, <3>1 DEF Bounded
  <2>5. PageInv(S)
    BY <1>0, <1>5, <2>1, <2>2, <2>3, <2>4 DEF PageInv
  <2> QED
    BY <1>2, <1>4, <1>7, <2>5 DEF E
<1>8. CASE trimmed.shown # o
  <2> DEFINE Q == [C EXCEPT !.current = o]
  <2>1. order = "top" /\ S.current # None => S.current # o /\ S.current \in S.windows
    BY <1>1, <1>4, <1>8
  <2>2. /\ C \in Page /\ C.windows = S.windows /\ C.editing = E /\ C.shown = o
        /\ Distinct(C.buffer) /\ LisHidden(C)
        /\ order = "top" =>
              \A k \in DOMAIN C.buffer :
                 C.buffer[k].of = S.current \/ InBuffer(S.buffer, C.buffer[k].of)
        /\ \A w \in (S.windows \cap Object) \ {o} : HasLi(C.buffer, w)
        /\ Bounded(C, IF S.current = None THEN 0 ELSE 0 + 1)
    BY <1>4, <1>5, <1>6, <2>1, ClosedStep
  <2> HIDE DEF C
  <2>3. /\ Q \in Page /\ Q.windows = S.windows /\ Q.editing = E /\ Q.shown = o
        /\ Q.buffer = C.buffer /\ Q.current = o
    BY <2>2, WithCurrent
  <2> HIDE DEF Q
  <2>4. Standing(Q) /\ CurrentShown(Q)
    BY <1>4, <2>2, <2>3 DEF Standing, CurrentShown
  <2>5. LisHidden(Q)
    <3> SUFFICES ASSUME order = "top", NEW k \in DOMAIN C.buffer
                 PROVE  C.buffer[k].of \in S.windows /\ C.buffer[k].of # o
      BY <2>3 DEF LisHidden
    <3>1. C.buffer[k].of \in S.windows /\ C.buffer[k].of \in Object
      BY <2>2, PageFields DEF LisHidden
    <3>2. C.buffer[k].of # o
      BY <1>0, <1>1, <1>4, <2>1, <2>2, <3>1
    <3> QED
      BY <3>1, <3>2
  <2>6. Found(Q, {})
    BY <2>2, <2>3 DEF Found
  <2>7. Bounded(Q, 1)
    <3>1. Len(C.buffer) \in Nat /\ Visible(C.buffer) \in Nat
      BY <2>2, PageFields
    <3> QED
      BY <1>0, <2>2, <2>3, <3>1 DEF Bounded
  <2>8. PageInv(Q)
    BY <1>0, <2>3, <2>4, <2>5, <2>6, <2>7 DEF PageInv
  <2> QED
    BY <1>2, <1>8, <2>3, <2>8 DEF E, Q
<1> QED
  BY <1>7, <1>8

\* Editors and titles do not matter to the buffer.
LEMMA SamePage ==
    ASSUME NEW P, PageInv(P), NEW Q \in Page, Q.windows = P.windows, Q.shown = P.shown,
           Q.buffer = P.buffer, Q.current = P.current
    PROVE  PageInv(Q)
  BY DEF PageInv, Standing, LisHidden, CurrentShown, Found, Bounded

\* A window is removed that is not the current object's, or is the one shown.
LEMMA ClosedWindowStep ==
    ASSUME NEW P, PageInv(P), NEW i, order = "top" => i # P.current
    PROVE  PageInv(Removed(P, {i}))
<1> DEFINE R == Removed(P, {i})
           n == IF P.current = None THEN 2 ELSE 1
<1>1. Standing(P) /\ LisHidden(P) /\ Found(P, {}) /\ Bounded(P, n) /\ n \in Nat /\ P \in Page
  BY DEF PageInv, Standing
<1>2. Standing(R) /\ LisHidden(R) /\ Found(R, {}) /\ Bounded(R, n)
  BY <1>1, RemovedStep
<1>3. R.current = P.current /\ R.shown = IF P.shown \in {i} THEN None ELSE P.shown
  <2>1. P \in Page
    BY <1>1
  <2> HIDE DEF n
  <2> QED
    BY <2>1, RemovedFields
<1> HIDE DEF R
<1>4. CurrentShown(R)
  BY <1>3 DEF PageInv, CurrentShown
<1> QED
  BY <1>2, <1>3, <1>4 DEF PageInv, R

LEMMA ClosedShownStep ==
    ASSUME NEW P, PageInv(P), NEW o \in Object, P.shown = o
    PROVE  PageInv([Removed(P, {o}) EXCEPT !.current = None])
<1> DEFINE R == Removed(P, {o})
           Q == [R EXCEPT !.current = None]
<1>0. None \notin Object /\ MaxObjects \in Nat
  BY ShellAssumption
<1>1. /\ Standing(P) /\ LisHidden(P) /\ Found(P, {}) /\ P \in Page
      /\ P.current = o /\ Bounded(P, 1)
  BY <1>0 DEF PageInv, Standing
<1>2. Standing(R) /\ LisHidden(R) /\ Found(R, {}) /\ Bounded(R, 1)
  BY <1>1, RemovedStep
<1>3. R \in Page /\ R.windows = P.windows \ {o} /\ R.current = o /\ R.shown = None
  <2>1. /\ R \in Page /\ R.windows = P.windows \ {o} /\ R.current = P.current
        /\ R.shown = IF P.shown \in {o} THEN None ELSE P.shown
    BY <1>1, RemovedFields
  <2> HIDE DEF R
  <2> QED
    BY <1>1, <2>1
<1> HIDE DEF R
<1>4. /\ Q \in Page /\ Q.windows = R.windows /\ Q.buffer = R.buffer /\ Q.shown = None
      /\ Q.current = None
  BY <1>3, WithCurrent
<1>5. /\ \A k \in DOMAIN R.buffer : R.buffer[k].of \in Object
      /\ Len(R.buffer) \in Nat /\ Visible(R.buffer) \in Nat
  BY <1>3, PageFields
<1> HIDE DEF Q
<1>6. Standing(Q) /\ CurrentShown(Q)
  BY <1>0, <1>2, <1>4 DEF Standing, CurrentShown
<1>7. LisHidden(Q)
  BY <1>0, <1>2, <1>4, <1>5 DEF LisHidden
<1>8. Found(Q, {})
  BY <1>2, <1>3, <1>4 DEF Found
<1>9. Bounded(Q, 2)
  BY <1>0, <1>2, <1>4, <1>5 DEF Bounded
<1> QED
  BY <1>4, <1>6, <1>7, <1>8, <1>9 DEF PageInv, Q, R

-----------------------------------------------------------------------------
(* The invariant *)

\* While parts are awaited there is one to come.
LoadOK ==
    loading = None \/ (loading \in Load /\ (loading.stage = "parts" => loading.parts > 0))

ControlOK ==
    order \in {"top", "keep"} /\ queue \in Seq(Item) /\ LoadOK /\ panel \in Panel

BufferInv == ControlOK /\ PageInv(page)

LEMMA RequestedLoad ==
    ASSUME NEW i \in Item
    PROVE  /\ Requested(i) \in Load /\ Requested(i).stage = "html"
           /\ Dead(Requested(i)) \in Load /\ Dead(Requested(i)).stage = "html"
<1>1. 0 \in 0..MaxParts
  BY ShellAssumption
<1>2. Requested(i) \in Load /\ Requested(i).stage = "html"
  BY <1>1 DEF Requested, Load
<1> QED
  BY <1>2 DEF Dead, Load

LEMMA DeadLoad ==
    ASSUME LoadOK, loading # None
    PROVE  /\ Dead(loading) \in Load
           /\ Dead(loading).stage = "parts" => Dead(loading).parts > 0
  BY DEF LoadOK, Dead, Load

LEMMA WithoutLoad ==
    ASSUME LoadOK, NEW i, loading' = Without(i)
    PROVE  LoadOK'
  BY DeadLoad DEF Without, LoadOK

LEMMA PanelFields ==
    ASSUME panel \in Panel
    PROVE  /\ panel.buttons \in Seq(Tool) /\ panel.active \in Tool \cup {None}
           /\ [panel EXCEPT !.active = None] \in Panel
           /\ \A b \in Seq(Tool), t \in Tool \cup {None} : [buttons |-> b, active |-> t] \in Panel
  BY DEF Panel

LEMMA QueueTail ==
    ASSUME queue \in Seq(Item), queue # <<>>
    PROVE  Tail(queue) \in Seq(Item)
  BY HeadTailProperties

LEMMA BufferInvInit == Init => BufferInv
<1> SUFFICES ASSUME Init
             PROVE  BufferInv
  OBVIOUS
<1>0. None \notin Object /\ MaxObjects \in Nat
  BY ShellAssumption
<1>1. /\ page.windows = {} /\ page.shown = None /\ page.buffer = <<>> /\ page.current = None
      /\ <<>> \in Seq(Li) /\ <<>> \in Seq(Item) /\ <<>> \in Seq(Tool)
      /\ Len(<<>>) = 0
  BY EmptySeq DEF Init
<1>2. page \in Page
  BY <1>1 DEF Init, Page
<1>3. DOMAIN page.buffer = {}
  BY <1>1
<1>4. VisibleFrom(<<>>, 1) = {}
  BY <1>1 DEF VisibleFrom
<1>5. Visible(<<>>) = 0
  BY <1>4, FS_EmptySet DEF Visible
<1>6. PageInv(page)
  BY <1>0, <1>1, <1>2, <1>3, <1>5
     DEF PageInv, Standing, LisHidden, CurrentShown, Found, Bounded, Distinct
<1>7. ControlOK
  BY <1>1 DEF Init, ControlOK, LoadOK, Panel
<1> QED
  BY <1>6, <1>7 DEF BufferInv

LEMMA StartKeeps ==
    ASSUME BufferInv, Start
    PROVE  BufferInv'
<1>0. /\ queue # <<>> => Tail(queue) \in Seq(Item)
      /\ order \in {"top", "keep"} /\ panel \in Panel /\ PageInv(page)
  BY QueueTail DEF BufferInv, ControlOK
<1>1. ASSUME NEW t \in Tool, StartTool(t)
      PROVE  BufferInv'
  <2>1. PageInv(Closed(Shown(page, t)))
    BY <1>0, ClickedStep
  <2>2. /\ order' = order /\ queue' = Tail(queue) /\ queue # <<>> /\ loading = None
        /\ page' = Closed(Shown(page, t))
        /\ \/ panel' = [buttons |-> panel.buttons, active |-> t] /\ loading' = loading
           \/ /\ panel' = [buttons |-> Append(panel.buttons, t), active |-> t]
              /\ loading' = Requested(t)
    BY <1>1 DEF StartTool, IsNext, Click
  <2>3. Append(panel.buttons, t) \in Seq(Tool) /\ panel.buttons \in Seq(Tool)
    BY <1>0, PanelFields, AppendProperties
  <2>4. panel' \in Panel
    BY <1>0, <2>2, <2>3, PanelFields
  <2>5. LoadOK'
    BY <2>2, RequestedLoad DEF LoadOK, Item
  <2>6. PageInv(page)'
    BY <2>1, <2>2 DEF PageInv, Standing, LisHidden, CurrentShown, Found, Bounded
  <2> QED
    BY <1>0, <2>2, <2>4, <2>5, <2>6 DEF BufferInv, ControlOK
<1>2. ASSUME NEW t \in Tool, StartForbidden(t)
      PROVE  BufferInv'
  <2>1. /\ order' = order /\ queue' = Tail(queue) /\ queue # <<>>
        /\ loading' = Dead(Requested(t)) /\ page' = page /\ panel' = panel
    BY <1>2 DEF StartForbidden, IsNext
  <2>2. LoadOK'
    BY <2>1, RequestedLoad DEF LoadOK, Item
  <2>3. PageInv(page)'
    BY <1>0, <2>1 DEF PageInv, Standing, LisHidden, CurrentShown, Found, Bounded
  <2> QED
    BY <1>0, <2>1, <2>2, <2>3 DEF BufferInv, ControlOK
<1>3. ASSUME NEW o \in Object, StartObject(o)
      PROVE  BufferInv'
  <2>1. /\ order' = order /\ queue' = Tail(queue) /\ queue # <<>>
        /\ page' = Opened(page, o) /\ panel' = [panel EXCEPT !.active = None]
        /\ loading' = Requested(o) \/ loading' = None
    BY <1>3 DEF StartObject, IsNext
  <2>2. LoadOK'
    BY <2>1, RequestedLoad DEF LoadOK, Item
  <2>3. PageInv(Opened(page, o))
    BY <1>0, OpenedStep
  <2>4. PageInv(page)'
    BY <2>1, <2>3 DEF PageInv, Standing, LisHidden, CurrentShown, Found, Bounded
  <2>5. panel' \in Panel
    BY <1>0, <2>1, PanelFields
  <2> QED
    BY <1>0, <2>1, <2>2, <2>4, <2>5 DEF BufferInv, ControlOK
<1> QED
  BY <1>1, <1>2, <1>3 DEF Start

\* A step that leaves the page's windows, lis, shown and current item alone.
LEMMA PageStays ==
    ASSUME BufferInv, order' = order, queue' \in Seq(Item), LoadOK', panel' \in Panel,
           page' \in Page, page'.windows = page.windows, page'.shown = page.shown,
           page'.buffer = page.buffer, page'.current = page.current
    PROVE  BufferInv'
<1>1. PageInv(page) /\ order \in {"top", "keep"}
  BY DEF BufferInv, ControlOK
<1>2. PageInv(page')
  BY <1>1, SamePage
<1>3. PageInv(page)'
  BY <1>2 DEF PageInv, Standing, LisHidden, CurrentShown, Found, Bounded
<1> QED
  BY <1>1, <1>3 DEF BufferInv, ControlOK

LEMMA PageBecomes ==
    ASSUME BufferInv, order' = order, queue' = queue, LoadOK', panel' \in Panel,
           PageInv(page')
    PROVE  BufferInv'
<1>1. PageInv(page)'
  BY DEF PageInv, Standing, LisHidden, CurrentShown, Found, Bounded
<1> QED
  BY <1>1 DEF BufferInv, ControlOK

LEMMA BoundPage ==
    ASSUME NEW P \in Page, P.shown # None, NEW o \in Object, NEW Q,
           Q = [P EXCEPT !.bound = @ \cup {<<P.shown, o>>}]
    PROVE  /\ Q \in Page /\ Q.windows = P.windows /\ Q.shown = P.shown
           /\ Q.buffer = P.buffer /\ Q.current = P.current
<1> DEFINE B == P.bound \cup {<<P.shown, o>>}
<1>1. B \in SUBSET (Item \X Object)
  BY PageFields
<1>2. Q = [P EXCEPT !.bound = B]
  OBVIOUS
<1> HIDE DEF B
<1> QED
  BY <1>1, <1>2 DEF Page

LEMMA EditedPage ==
    ASSUME NEW P \in Page, NEW E \in SUBSET Object
    PROVE  LET Q == [P EXCEPT !.editing = E]
           IN  /\ Q \in Page /\ Q.windows = P.windows /\ Q.shown = P.shown
               /\ Q.buffer = P.buffer /\ Q.current = P.current
  BY DEF Page

LEMMA FinishKeeps ==
    ASSUME BufferInv, loading # None, Finish, UNCHANGED <<order, queue, panel>>
    PROVE  BufferInv'
<1>1. page \in Page /\ queue' \in Seq(Item) /\ panel' \in Panel /\ LoadOK'
  BY DEF BufferInv, ControlOK, PageInv, Standing, Finish, LoadOK
<1>2. CASE page' = page
  BY <1>1, <1>2, PageStays
<1>3. CASE /\ loading.of \in Object /\ page.shown # None
           /\ page' = [page EXCEPT !.bound = @ \cup {<<page.shown, loading.of>>}]
  <2>1. /\ page' \in Page /\ page'.windows = page.windows /\ page'.shown = page.shown
        /\ page'.buffer = page.buffer /\ page'.current = page.current
    BY <1>1, <1>3, BoundPage
  <2> QED
    BY <1>1, <2>1, PageStays
<1> QED
  BY <1>2, <1>3 DEF Finish

LEMMA ReplyKeeps ==
    ASSUME BufferInv, Reply
    PROVE  BufferInv'
<1>0. queue \in Seq(Item) /\ panel \in Panel /\ LoadOK /\ page \in Page
  BY DEF BufferInv, ControlOK, PageInv, Standing
<1>1. ASSUME NEW n \in 0..MaxParts, Html(n)
      PROVE  BufferInv'
  <2>1. loading # None /\ UNCHANGED <<order, queue, panel>>
    BY <1>1 DEF Html
  <2>2. CASE Finish
    BY <2>1, <2>2, FinishKeeps
  <2>3. CASE n # 0 /\ loading' = [loading EXCEPT !.stage = "parts", !.parts = n] /\ page' = page
    <3>1. loading \in Load /\ n > 0
      BY <1>0, <2>1, <2>3, ShellAssumption DEF LoadOK
    <3>2. LoadOK'
      BY <2>3, <3>1 DEF LoadOK, Load
    <3> QED
      BY <1>0, <2>1, <2>3, <3>2, PageStays
  <2> QED
    BY <1>1, <2>2, <2>3 DEF Html
<1>2. ASSUME Part
      PROVE  BufferInv'
  <2>1. loading # None /\ UNCHANGED <<order, queue, panel>> /\ loading.stage = "parts"
    BY <1>2 DEF Part
  <2>2. CASE Finish
    BY <2>1, <2>2, FinishKeeps
  <2>3. CASE /\ loading.parts # 1
             /\ loading' = [loading EXCEPT !.parts = @ - 1] /\ page' = page
    <3>1. loading \in Load /\ loading.parts > 0
      BY <1>0, <2>1 DEF LoadOK
    <3>2. /\ loading.parts \in 0..MaxParts /\ MaxParts \in Nat
          /\ loading' = [loading EXCEPT !.parts = loading.parts - 1]
      BY <2>3, <3>1, ShellAssumption DEF Load
    <3>3. loading.parts - 1 \in 0..MaxParts /\ loading.parts - 1 > 0
      BY <2>3, <3>1, <3>2
    <3>4. loading' \in Load /\ loading'.parts = loading.parts - 1
      BY <3>1, <3>2, <3>3 DEF Load
    <3>5. LoadOK'
      BY <3>3, <3>4 DEF LoadOK
    <3> QED
      BY <1>0, <2>1, <2>3, <3>5, PageStays
  <2> QED
    BY <1>2, <2>2, <2>3 DEF Part
<1> QED
  BY <1>1, <1>2 DEF Reply

LEMMA UserKeeps ==
    ASSUME BufferInv, User
    PROVE  BufferInv'
<1>0. /\ order \in {"top", "keep"} /\ queue \in Seq(Item) /\ panel \in Panel /\ LoadOK
      /\ PageInv(page) /\ page \in Page
      /\ panel.buttons \in Seq(Tool) /\ panel.active \in Tool \cup {None}
  BY PanelFields DEF BufferInv, ControlOK, PageInv, Standing
<1>1. ASSUME NEW i \in Item, Ask(i)
      PROVE  BufferInv'
  <2>1. queue' \in Seq(Item)
    BY <1>0, <1>1, AppendProperties DEF Ask
  <2>2. LoadOK'
    BY <1>0, <1>1 DEF Ask, LoadOK
  <2> QED
    BY <1>0, <1>1, <2>1, <2>2, PageStays DEF Ask
<1>2. ASSUME NEW t \in Tool, ClickButton(t)
      PROVE  BufferInv'
  <2>1. /\ UNCHANGED <<order, queue, loading>> /\ page' = Closed(Shown(page, t))
        /\ panel' = [buttons |-> panel.buttons, active |-> t]
    BY <1>2 DEF ClickButton, Click
  <2>2. panel' \in Panel
    BY <1>0, <2>1, PanelFields
  <2>3. LoadOK'
    BY <1>0, <2>1 DEF LoadOK
  <2>4. PageInv(page')
    BY <1>0, <2>1, ClickedStep
  <2> QED
    BY <2>1, <2>2, <2>3, <2>4, PageBecomes
<1>3. ASSUME NEW t \in Tool, CloseTool(t)
      PROVE  BufferInv'
  <2> DEFINE others == Kept(panel.buttons, Tool \ {t})
  <2>0. others \in Seq(Tool)
    BY <1>0, KeptLemma
  <2> HIDE DEF others
  <2>1. loading' = Without(t) /\ order' = order /\ queue' = queue
    BY <1>3 DEF CloseTool
  <2>2. LoadOK'
    BY <1>0, <2>1, WithoutLoad
  <2>3. t # page.current
    BY <1>0, PageFields, ShellAssumption
  <2>4. CASE \E u \in Tool : /\ page' = Removed(Closed(Shown(page, u)), {t})
                             /\ panel' = [buttons |-> others, active |-> u]
    <3>1. PICK u \in Tool : /\ page' = Removed(Closed(Shown(page, u)), {t})
                            /\ panel' = [buttons |-> others, active |-> u]
      BY <2>4
    <3>2. panel' \in Panel
      BY <1>0, <2>0, <3>1, PanelFields
    <3> DEFINE C == Closed(Shown(page, u))
    <3>3. PageInv(C) /\ C.current = None
      BY <1>0, ClickedStep
    <3>4. t # None
      BY ShellAssumption
    <3> HIDE DEF C
    <3>5. PageInv(Removed(C, {t}))
      BY <3>3, <3>4, ClosedWindowStep
    <3> QED
      BY <2>1, <2>2, <3>1, <3>2, <3>5, PageBecomes DEF C
  <2>5. CASE \E a \in Tool \cup {None} : /\ page' = Removed(page, {t})
                                         /\ panel' = [buttons |-> others, active |-> a]
    <3>1. panel' \in Panel
      BY <1>0, <2>0, <2>5, PanelFields
    <3>2. PageInv(Removed(page, {t}))
      BY <1>0, <2>3, ClosedWindowStep
    <3> QED
      BY <2>1, <2>2, <2>5, <3>1, <3>2, PageBecomes
  <2>6. (IF panel.active = t THEN None ELSE panel.active) \in Tool \cup {None}
    BY <1>0
  <2> QED
    BY <1>3, <2>4, <2>5, <2>6 DEF CloseTool, others
<1>4. ASSUME NEW o \in Object, CloseShown(o)
      PROVE  BufferInv'
  <2>1. /\ page.shown = o /\ page' = [Removed(page, {o}) EXCEPT !.current = None]
        /\ loading' = Without(o) /\ UNCHANGED <<order, queue, panel>>
    BY <1>4 DEF CloseShown
  <2>2. LoadOK'
    BY <1>0, <2>1, WithoutLoad
  <2>3. PageInv(page')
    BY <1>0, <2>1, ClosedShownStep
  <2> QED
    BY <1>0, <2>1, <2>2, <2>3, PageBecomes
<1>5. ASSUME NEW o \in Object, CloseBuffered(o)
      PROVE  BufferInv'
  <2>1. /\ \E k \in DOMAIN page.buffer : page.buffer[k] = [of |-> o, hidden |-> FALSE]
        /\ page' = Removed(page, {o}) /\ loading' = Without(o)
        /\ UNCHANGED <<order, queue, panel>>
    BY <1>5 DEF CloseBuffered
  <2>2. LoadOK'
    BY <1>0, <2>1, WithoutLoad
  <2>3. InBuffer(page.buffer, o)
    <3>1. PICK k \in DOMAIN page.buffer : page.buffer[k] = [of |-> o, hidden |-> FALSE]
      BY <2>1
    <3>2. page.buffer[k].of = o
      BY <3>1
    <3> QED
      BY <3>2 DEF InBuffer
  <2>4. order = "top" => o # page.current
    BY <1>0, <2>3 DEF PageInv, LisHidden, InBuffer
  <2>5. PageInv(Removed(page, {o}))
    BY <1>0, <2>4, ClosedWindowStep
  <2> QED
    BY <1>0, <2>1, <2>2, <2>5, PageBecomes
<1>6. ASSUME NEW o \in Object, Refresh(o) \/ Edit(o) \/ EndEdit(o)
      PROVE  BufferInv'
  <2>1. PICK E \in SUBSET Object : page' = [page EXCEPT !.editing = E]
    <3>1. page.editing \ {o} \in SUBSET Object /\ page.editing \cup {o} \in SUBSET Object
      BY <1>0, PageFields
    <3>2. \/ page' = [page EXCEPT !.editing = page.editing \ {o}]
          \/ page' = [page EXCEPT !.editing = page.editing \cup {o}]
      BY <1>6 DEF Refresh, Edit, EndEdit
    <3> QED
      BY <3>1, <3>2
  <2>2. UNCHANGED <<order, queue, loading, panel>>
    BY <1>6 DEF Refresh, Edit, EndEdit
  <2>3. /\ page' \in Page /\ page'.windows = page.windows /\ page'.shown = page.shown
        /\ page'.buffer = page.buffer /\ page'.current = page.current
    BY <1>0, <2>1, EditedPage
  <2>4. LoadOK'
    BY <1>0, <2>2 DEF LoadOK
  <2> QED
    BY <1>0, <2>2, <2>3, <2>4, PageStays
<1> QED
  BY <1>1, <1>2, <1>3, <1>4, <1>5, <1>6 DEF User

LEMMA BufferInvStep == BufferInv /\ [Next]_vars => BufferInv'
<1> SUFFICES ASSUME BufferInv, [Next]_vars
             PROVE  BufferInv'
  OBVIOUS
<1>0. queue \in Seq(Item) /\ panel \in Panel /\ LoadOK /\ page \in Page
  BY DEF BufferInv, ControlOK, PageInv, Standing
<1>1. CASE Fail
  <2>1. loading # None /\ loading' = Dead(loading) /\ UNCHANGED <<order, queue, page, panel>>
    BY <1>1 DEF Fail
  <2>2. LoadOK'
    BY <1>0, <2>1, DeadLoad DEF LoadOK
  <2> QED
    BY <1>0, <2>1, <2>2, PageStays
<1>2. CASE UNCHANGED vars
  <2>1. LoadOK'
    BY <1>0, <1>2 DEF LoadOK, vars
  <2> QED
    BY <1>0, <1>2, <2>1, PageStays DEF vars
<1> QED
  BY <1>1, <1>2, UserKeeps, StartKeeps, ReplyKeeps DEF Next

LEMMA BufferInvAlways == Spec => []BufferInv
  BY BufferInvInit, BufferInvStep, PTL DEF Spec

-----------------------------------------------------------------------------
(* The theorems *)

\* The variables have their types; the count of the parts that a load waits for
\* does not run below zero.
THEOREM TypeCorrect == Spec => []TypeOK
<1>1. BufferInv => TypeOK
  BY DEF BufferInv, ControlOK, LoadOK, PageInv, Standing, TypeOK
<1> QED
  BY <1>1, BufferInvAlways, PTL

\* No object is lost behind the others: what is left goes to the buffer, in
\* either order of the buffer, and what the buffer is cut of is closed.
THEOREM ObjectsStay == Spec => []NothingLost
<1>1. BufferInv => NothingLost
  BY DEF BufferInv, PageInv, Found, HasLi, NothingLost
<1> QED
  BY <1>1, BufferInvAlways, PTL

\* With the default behaviour the buffer has each object at most once, has only
\* objects with a window, and not the current one, which is the one shown.
THEOREM BufferHoldsHidden == Spec => []BufferOfHidden
<1>1. BufferInv => BufferOfHidden
  BY DEF BufferInv, PageInv, Standing, LisHidden, CurrentShown, Distinct, BufferOfHidden
<1> QED
  BY <1>1, BufferInvAlways, PTL

\* The buffer, which is cut only when an object is opened and before the object
\* that is left is put in it, has a limit for every value of maxObjects.
THEOREM BufferHasLimit == Spec => []BufferBounded
<1>1. ASSUME BufferInv
      PROVE  BufferBounded
  <2>1. /\ page \in Page /\ MaxObjects \in Nat
        /\ Bounded(page, IF page.current = None THEN 2 ELSE 1)
    BY <1>1, ShellAssumption DEF BufferInv, PageInv, Standing
  <2>2. page.buffer \in Seq(Li) /\ Len(page.buffer) \in Nat /\ Visible(page.buffer) \in Nat
    BY <2>1, PageFields
  <2>3. CASE order # "top"
    BY <2>1, <2>2, <2>3 DEF Bounded, BufferBounded
  <2>4. CASE order = "top"
    <3>1. Len(page.buffer) <= MaxObjects + 3
      BY <2>1, <2>2, <2>4 DEF Bounded
    <3>2. Visible(page.buffer) <= Len(page.buffer)
      <4>1. /\ VisibleFrom(page.buffer, 1) \in SUBSET (1..Len(page.buffer))
            /\ IsFiniteSet(1..Len(page.buffer))
            /\ Cardinality(1..Len(page.buffer)) = Len(page.buffer)
        <5>1. 1 \in Int /\ Len(page.buffer) \in Int /\ Len(page.buffer) \in Nat
          BY <2>2
        <5>2. /\ IsFiniteSet(1..Len(page.buffer))
              /\ Cardinality(1..Len(page.buffer)) =
                    IF 1 > Len(page.buffer) THEN 0 ELSE Len(page.buffer) - 1 + 1
          BY <5>1, FS_Interval
        <5> QED
          BY <5>1, <5>2 DEF VisibleFrom
      <4> QED
        BY <4>1, FS_Subset DEF Visible
    <3> QED
      BY <2>1, <2>2, <2>4, <3>1, <3>2 DEF BufferBounded
  <2> QED
    BY <2>3, <2>4
<1> QED
  BY <1>1, BufferInvAlways, PTL

\* An object that the buffer has no place for, once the one that is opened is
\* taken out of it, was that far down in it before.
LEMMA OverflowWasDown ==
    ASSUME NEW P \in Page, NEW o, order = "top", NEW w \in Overflow(Taken(P, o).buffer)
    PROVE  \E k \in DOMAIN P.buffer : k > MaxObjects + 1 /\ P.buffer[k].of = w
<1> DEFINE b == P.buffer
           K == Kept(b, LisBut({o}))
<1>1. b \in Seq(Li) /\ DOMAIN b = 1..Len(b) /\ Len(b) \in Nat
  BY PageFields
<1>2. Taken(P, o).buffer = K
  BY TakenFields
<1>3. /\ K \in Seq(Li)
      /\ \A i \in DOMAIN K :
            K[i].of \notin {o} /\ \E j \in DOMAIN b : i <= j /\ K[i] = b[j]
  BY <1>1, KeptBuffer
<1> HIDE DEF K
<1>4. PICK i \in DOMAIN K : i > MaxObjects + 1 /\ K[i].of = w
  BY <1>2 DEF Overflow
<1>5. PICK j \in DOMAIN b : i <= j /\ K[i] = b[j]
  BY <1>3, <1>4
<1>6. DOMAIN K = 1..Len(K) /\ Len(K) \in Nat /\ MaxObjects \in Nat
  BY <1>3, LenProperties, ShellAssumption
<1>7. j > MaxObjects + 1
  BY <1>1, <1>4, <1>5, <1>6
<1> QED
  BY <1>4, <1>5, <1>7

\* With the default behaviour an item that is opened, or a tool that is gone to,
\* takes away no open editor: only the lis beyond the limit of the buffer go,
\* and a card is loaded anew only without an editor.
THEOREM EditorsStay == Spec => EditorsKept
<1> DEFINE Down(o) == \E k \in DOMAIN page.buffer :
                         k > MaxObjects + 1 /\ page.buffer[k].of = o
           Step == order = "top" /\ (Start \/ \E t \in Tool : ClickButton(t)) =>
                      \A o \in page.editing \ page'.editing : Down(o)
<1>1. ASSUME BufferInv, order = "top", Start \/ \E t \in Tool : ClickButton(t),
             NEW w \in page.editing \ page'.editing
      PROVE  Down(w)
  <2>0. PageInv(page) /\ page \in Page
    BY <1>1 DEF BufferInv, PageInv, Standing
  <2>1. ASSUME NEW t \in Tool, NEW b, Click(t, b)
        PROVE  FALSE
    <3>1. page'.editing = page.editing
      BY <2>0, <2>1, ClickedStep DEF Click
    <3> QED
      BY <1>1, <3>1
  <2>2. CASE \E t \in Tool : ClickButton(t)
    BY <2>1, <2>2 DEF ClickButton
  <2>3. CASE \E t \in Tool : StartTool(t)
    BY <2>1, <2>3 DEF StartTool
  <2>4. CASE \E t \in Tool : StartForbidden(t)
    BY <1>1, <2>4 DEF StartForbidden
  <2>5. CASE \E o \in Object : StartObject(o)
    <3>1. PICK o \in Object : page' = Opened(page, o)
      BY <2>5 DEF StartObject
    <3>2. page'.editing = page.editing \ Overflow(Taken(page, o).buffer)
      BY <2>0, <3>1, OpenedStep
    <3>3. w \in Overflow(Taken(page, o).buffer)
      BY <1>1, <3>2
    <3> QED
      BY <1>1, <2>0, <3>3, OverflowWasDown
  <2> QED
    BY <1>1, <2>2, <2>3, <2>4, <2>5 DEF Start
<1>2. BufferInv => [Step]_vars
  BY <1>1
<1>3. EditorsKept <=> [][Step]_vars
  BY DEF EditorsKept
<1> QED
  BY <1>2, <1>3, BufferInvAlways, PTL

=============================================================================
