---------------------------- MODULE ListTheorems ----------------------------
(* What removing elements and putting them in front makes of a list.         *)
EXTENDS Lists, FiniteSetTheorems, SequenceTheorems, TLAPS

\* Where an element is in what is kept of a list.
Rank(I, i) == Cardinality({j \in I : j <= i})

\* The places in a list, counted from the front.
LEMMA Ranks ==
    ASSUME NEW m \in Nat, NEW I, I \subseteq 1..m
    PROVE  /\ IsFiniteSet(I) /\ Cardinality(I) \in Nat /\ Cardinality(I) <= m
           /\ \A i \in I : Rank(I, i) \in 1..Cardinality(I)
           /\ \A i, j \in I : Rank(I, i) = Rank(I, j) => i = j
           /\ \A n \in 1..Cardinality(I) : \E i \in I : Rank(I, i) = n
           /\ I # 1..m => Cardinality(I) < m
<1>1. IsFiniteSet(1..m) /\ Cardinality(1..m) = m
  BY FS_Interval
<1>2. IsFiniteSet(I) /\ Cardinality(I) \in Nat /\ Cardinality(I) <= m
  BY <1>1, FS_Subset, FS_CardinalityType
<1>2a. I # 1..m => Cardinality(I) < m
  <2>1. Cardinality(I) = m => I = 1..m
    BY <1>1, FS_Subset
  <2> QED
    BY <1>2, <2>1
<1> DEFINE Upto(i) == {j \in I : j <= i}
<1>3. ASSUME NEW i \in I
      PROVE  IsFiniteSet(Upto(i)) /\ Cardinality(Upto(i)) \in 1..Cardinality(I)
  <2>1. Upto(i) \in SUBSET I /\ i \in Upto(i)
    BY <1>3
  <2>2. IsFiniteSet(Upto(i)) /\ Cardinality(Upto(i)) <= Cardinality(I)
    BY <1>2, <2>1, FS_Subset
  <2>3. Cardinality(Upto(i)) \in Nat /\ Cardinality(Upto(i)) # 0
    BY <2>1, <2>2, FS_CardinalityType, FS_EmptySet
  <2> QED
    BY <1>2, <2>2, <2>3
<1>4. ASSUME NEW i \in I, NEW j \in I, i < j
      PROVE  Cardinality(Upto(i)) # Cardinality(Upto(j))
  <2>0. \A k \in I : k \in Int
    OBVIOUS
  <2>1. Upto(i) \in SUBSET Upto(j) /\ j \in Upto(j) /\ j \notin Upto(i)
    <3>1. \A k \in I : k <= i => k <= j
      BY <1>4, <2>0
    <3>2. j \in Upto(j) /\ j \notin Upto(i)
      BY <1>4, <2>0
    <3> QED
      BY <3>1, <3>2
  <2> QED
    BY <1>3, <2>1, FS_Subset
<1>5. \A i, j \in I : Cardinality(Upto(i)) = Cardinality(Upto(j)) => i = j
  BY <1>4
<1> DEFINE f == [i \in I |-> Cardinality(Upto(i))]
<1>6. f \in Injection(I, 1..Cardinality(I))
  BY <1>3, <1>5 DEF Injection, IsInjective
<1>7. IsFiniteSet(1..Cardinality(I)) /\ Cardinality(1..Cardinality(I)) = Cardinality(I)
  BY <1>2, FS_Interval
<1>8. f \in Surjection(I, 1..Cardinality(I))
  BY <1>6, <1>7, FS_Injection
<1>9. \A n \in 1..Cardinality(I) : \E i \in I : Cardinality(Upto(i)) = n
  BY <1>8 DEF Surjection
<1> QED
  BY <1>2, <1>3, <1>5, <1>9, <1>2a DEF Rank

\* What is kept of a list has what the list has of S, each as often and no
\* more; it is shorter if something is not kept.
LEMMA Keeps ==
    ASSUME NEW T, NEW s \in Seq(T), NEW S
    PROVE  /\ Keeping(s, S) \in Seq(T)
           /\ Range(Keeping(s, S)) = Range(s) \cap S
           /\ IsInjective(s) => IsInjective(Keeping(s, S))
           /\ Len(Keeping(s, S)) <= Len(s)
           /\ \A i \in DOMAIN s : s[i] \notin S => Len(Keeping(s, S)) < Len(s)
<1> DEFINE I == {i \in DOMAIN s : s[i] \in S}
           N == Cardinality(I)
           at(n) == CHOOSE i \in I : Rank(I, i) = n
           t == [n \in 1..N |-> s[at(n)]]
<1>1. Len(s) \in Nat /\ DOMAIN s = 1..Len(s) /\ \A i \in DOMAIN s : s[i] \in T
  BY LenProperties
<1>2. I \subseteq 1..Len(s)
  BY <1>1
<1>3. /\ N \in Nat /\ N <= Len(s)
      /\ \A i \in I : Rank(I, i) \in 1..N
      /\ \A i, j \in I : Rank(I, i) = Rank(I, j) => i = j
      /\ \A n \in 1..N : \E i \in I : Rank(I, i) = n
      /\ I # 1..Len(s) => N < Len(s)
  <2> HIDE DEF I
  <2> QED
    BY <1>1, <1>2, Ranks
<1>4. Keeping(s, S) = t
  BY DEF Keeping, Rank
<1>5. \A n \in 1..N : at(n) \in I /\ Rank(I, at(n)) = n
  <2> HIDE DEF I
  <2> QED
    BY <1>3
<1>6. \A i \in I : Rank(I, i) \in 1..N /\ at(Rank(I, i)) = i
  <2> HIDE DEF I
  <2> QED
    BY <1>3, <1>5
<1> HIDE DEF at, N
<1>7. t \in Seq(T) /\ Len(t) = N /\ DOMAIN t = 1..N
  <2>1. \A n \in 1..N : s[at(n)] \in T
    BY <1>1, <1>5
  <2>2. t \in [1..N -> T]
    BY <2>1
  <2> HIDE DEF t
  <2> QED
    BY <1>3, <2>2
<1>8. Range(t) = Range(s) \cap S
  <2>1. ASSUME NEW x \in Range(t)
        PROVE  x \in Range(s) \cap S
    BY <1>5, <1>7, <2>1 DEF Range
  <2>2. ASSUME NEW x \in Range(s) \cap S
        PROVE  x \in Range(t)
    <3>1. PICK i \in I : x = s[i]
      BY <2>2 DEF Range
    <3> QED
      BY <1>6, <1>7, <3>1 DEF Range
  <2> QED
    BY <2>1, <2>2
<1>9. IsInjective(s) => IsInjective(t)
  <2>1. SUFFICES ASSUME IsInjective(s), NEW m \in 1..N, NEW n \in 1..N, t[m] = t[n]
                 PROVE  m = n
    BY <1>7 DEF IsInjective
  <2>2. at(m) \in DOMAIN s /\ at(n) \in DOMAIN s /\ s[at(m)] = s[at(n)]
    BY <1>5, <2>1
  <2>3. at(m) = at(n)
    BY <2>1, <2>2 DEF IsInjective
  <2> QED
    BY <1>5, <2>3
<1>10. ASSUME NEW i \in DOMAIN s, s[i] \notin S
       PROVE  N < Len(s)
  BY <1>1, <1>3, <1>10
<1> QED
  BY <1>3, <1>4, <1>7, <1>8, <1>9, <1>10

\* The order of the places is that of what is kept.
LEMMA RankOrder ==
    ASSUME NEW m \in Nat, NEW I, I \subseteq 1..m
    PROVE  /\ \A i, j \in I : i < j => Rank(I, i) < Rank(I, j)
           /\ \A i \in I : i + 1 \in I => Rank(I, i + 1) = Rank(I, i) + 1
<1> DEFINE Upto(i) == {j \in I : j <= i}
<1>1. /\ \A i \in I : i \in Int
      /\ IsFiniteSet(I) /\ Cardinality(I) \in Nat
      /\ \A i \in I : Rank(I, i) \in 1..Cardinality(I)
      /\ \A i, j \in I : Rank(I, i) = Rank(I, j) => i = j
  <2>1. \A i \in I : i \in Int
    OBVIOUS
  <2> QED
    BY <2>1, Ranks
<1>2. \A i \in I : IsFiniteSet(Upto(i))
  <2>1. \A i \in I : Upto(i) \in SUBSET I
    OBVIOUS
  <2> QED
    BY <1>1, <2>1, FS_Subset
<1>3. ASSUME NEW i \in I, NEW j \in I, i < j
      PROVE  Rank(I, i) < Rank(I, j)
  <2>1. Upto(i) \in SUBSET Upto(j)
    <3>1. \A k \in I : k <= i => k <= j
      BY <1>1, <1>3
    <3> QED
      BY <3>1
  <2>2. Cardinality(Upto(i)) <= Cardinality(Upto(j))
    BY <1>2, <2>1, FS_Subset
  <2>3. Rank(I, i) <= Rank(I, j)
    BY <2>2 DEF Rank
  <2>4. Rank(I, i) # Rank(I, j)
    BY <1>1, <1>3
  <2>5. Rank(I, i) \in Int /\ Rank(I, j) \in Int
    BY <1>1
  <2> QED
    BY <2>3, <2>4, <2>5
<1>4. ASSUME NEW i \in I, i + 1 \in I
      PROVE  Rank(I, i + 1) = Rank(I, i) + 1
  <2>1. Upto(i + 1) = Upto(i) \cup {i + 1} /\ i + 1 \notin Upto(i)
    <3>1. \A k \in I : k <= i + 1 <=> k <= i \/ k = i + 1
      BY <1>1, <1>4
    <3>2. ~(i + 1 <= i)
      BY <1>1
    <3> QED
      BY <1>4, <3>1, <3>2
  <2>2. Cardinality(Upto(i) \cup {i + 1}) = Cardinality(Upto(i)) + 1
    BY <1>2, <2>1, FS_AddElement
  <2> QED
    BY <2>1, <2>2 DEF Rank
<1> QED
  BY <1>3, <1>4

\* Where the elements of what is kept were: in the same order, and neighbours
\* that are both kept stay neighbours.
LEMMA KeepsPlaces ==
    ASSUME NEW T, NEW s \in Seq(T), NEW S
    PROVE  \E at \in [DOMAIN Keeping(s, S) -> DOMAIN s] :
             /\ \A n \in DOMAIN Keeping(s, S) : Keeping(s, S)[n] = s[at[n]]
             /\ \A m, n \in DOMAIN Keeping(s, S) : m < n => at[m] < at[n]
             /\ \A n \in DOMAIN Keeping(s, S) :
                  at[n] + 1 \in DOMAIN s /\ s[at[n] + 1] \in S =>
                    /\ n + 1 \in DOMAIN Keeping(s, S)
                    /\ Keeping(s, S)[n + 1] = s[at[n] + 1]
             /\ s # << >> /\ s[1] \in S =>
                  1 \in DOMAIN Keeping(s, S) /\ Keeping(s, S)[1] = s[1]
<1> DEFINE I == {i \in DOMAIN s : s[i] \in S}
           N == Cardinality(I)
           at == [n \in 1..N |-> CHOOSE i \in I : Rank(I, i) = n]
<1>1. Len(s) \in Nat /\ DOMAIN s = 1..Len(s) /\ I \subseteq 1..Len(s)
  BY LenProperties
<1>2. /\ N \in Nat
      /\ \A i \in I : Rank(I, i) \in 1..N
      /\ \A i, j \in I : Rank(I, i) = Rank(I, j) => i = j
      /\ \A n \in 1..N : \E i \in I : Rank(I, i) = n
      /\ \A i, j \in I : i < j => Rank(I, i) < Rank(I, j)
      /\ \A i \in I : i + 1 \in I => Rank(I, i + 1) = Rank(I, i) + 1
  <2> HIDE DEF I
  <2> QED
    BY <1>1, Ranks, RankOrder
<1>3. /\ DOMAIN Keeping(s, S) = 1..N
      /\ \A n \in 1..N : Keeping(s, S)[n] = s[at[n]]
  BY DEF Keeping, Rank
<1>4. at \in [1..N -> I] /\ \A n \in 1..N : Rank(I, at[n]) = n
  <2> HIDE DEF I
  <2> QED
    BY <1>2
<1>5. I \subseteq DOMAIN s /\ \A i \in DOMAIN s : s[i] \in S => i \in I
  OBVIOUS
<1> HIDE DEF at, N, I
<1>6. \A m, n \in 1..N : m < n => at[m] < at[n]
  <2> SUFFICES ASSUME NEW m \in 1..N, NEW n \in 1..N, m < n, ~(at[m] < at[n])
               PROVE  FALSE
    OBVIOUS
  <2>1. at[m] \in I /\ at[n] \in I /\ Rank(I, at[m]) = m /\ Rank(I, at[n]) = n
    BY <1>4
  <2>2. at[m] \in Int /\ at[n] \in Int
    <3>1. \A i \in 1..Len(s) : i \in Int
      BY <1>1
    <3> QED
      BY <1>1, <2>1, <3>1
  <2>3. m \in Int /\ n \in Int
    OBVIOUS
  <2>4. CASE at[m] = at[n]
    BY <2>1, <2>3, <2>4
  <2>5. CASE at[n] < at[m]
    <3>1. n < m
      BY <1>2, <2>1, <2>5
    <3> QED
      BY <2>3, <3>1
  <2> QED
    BY <2>2, <2>4, <2>5
<1>7. ASSUME NEW n \in 1..N, at[n] + 1 \in DOMAIN s, s[at[n] + 1] \in S
      PROVE  n + 1 \in 1..N /\ Keeping(s, S)[n + 1] = s[at[n] + 1]
  <2>1. at[n] \in I /\ at[n] + 1 \in I
    BY <1>4, <1>5, <1>7
  <2>2. Rank(I, at[n] + 1) = n + 1
    BY <1>2, <1>4, <2>1
  <2>3. n + 1 \in 1..N
    BY <1>2, <2>1, <2>2
  <2>4. at[n + 1] = at[n] + 1
    BY <1>2, <1>4, <2>1, <2>2, <2>3
  <2> QED
    BY <1>3, <2>3, <2>4
<1>8. ASSUME s # << >>, s[1] \in S
      PROVE  1 \in 1..N /\ Keeping(s, S)[1] = s[1]
  <2>1. 1 \in DOMAIN s
    BY <1>1, <1>8, EmptySeq
  <2>2. 1 \in I /\ Rank(I, 1) \in 1..N
    BY <1>2, <1>5, <1>8, <2>1
  <2>3. 1 \in 1..N
    BY <1>2, <2>2
  <2>4. at[1] \in I /\ at[1] \in 1..Len(s) /\ Rank(I, at[1]) = 1
    BY <1>1, <1>4, <2>3
  <2>5. ~(1 < at[1])
    <3>1. 1 < at[1] => Rank(I, 1) < Rank(I, at[1])
      BY <1>2, <2>2, <2>4
    <3> QED
      BY <1>2, <2>2, <2>4, <3>1
  <2>6. at[1] = 1
    BY <1>1, <2>4, <2>5
  <2> QED
    BY <1>3, <2>3, <2>6
<1>9. at \in [DOMAIN Keeping(s, S) -> DOMAIN s]
  BY <1>3, <1>4, <1>5
<1> QED
  BY <1>3, <1>6, <1>7, <1>8, <1>9

\* What is left behind the front of a list.
LEMMA Rest ==
    ASSUME NEW T, NEW s \in Seq(T), s # << >>
    PROVE  /\ Tail(s) \in Seq(T) /\ Len(Tail(s)) = Len(s) - 1
           /\ \A i \in DOMAIN Tail(s) : i + 1 \in DOMAIN s /\ Tail(s)[i] = s[i + 1]
           /\ \A i \in DOMAIN s : i # 1 => i - 1 \in DOMAIN Tail(s)
           /\ Range(Tail(s)) \subseteq Range(s)
           /\ Range(s) \subseteq {s[1]} \cup Range(Tail(s))
           /\ s[1] \in Range(s) /\ 1 \in DOMAIN s
<1>1. Len(s) \in Nat /\ DOMAIN s = 1..Len(s) /\ Len(s) # 0
  BY LenProperties, EmptySeq
<1>2. /\ Tail(s) \in Seq(T) /\ Len(Tail(s)) = Len(s) - 1
      /\ \A i \in 1..Len(s) - 1 : Tail(s)[i] = s[i + 1]
  BY HeadTailProperties
<1>3. DOMAIN Tail(s) = 1..Len(s) - 1
  BY <1>2, LenProperties
<1>4. \A i \in DOMAIN Tail(s) : i + 1 \in DOMAIN s /\ Tail(s)[i] = s[i + 1]
  BY <1>1, <1>2, <1>3
<1>5. \A i \in DOMAIN s : i # 1 => i - 1 \in DOMAIN Tail(s) /\ (i - 1) + 1 = i
  BY <1>1, <1>3
<1>6. 1 \in DOMAIN s
  BY <1>1
<1>7. Range(Tail(s)) \subseteq Range(s)
  BY <1>4 DEF Range
<1>8. Range(s) \subseteq {s[1]} \cup Range(Tail(s))
  <2> SUFFICES ASSUME NEW i \in DOMAIN s, i # 1
               PROVE  s[i] \in Range(Tail(s))
    BY DEF Range
  <2>1. i - 1 \in DOMAIN Tail(s) /\ Tail(s)[i - 1] = s[i]
    BY <1>4, <1>5
  <2> QED
    BY <2>1 DEF Range
<1> QED
  BY <1>2, <1>4, <1>5, <1>6, <1>7, <1>8 DEF Range

\* What is put in front of the list: it gets one longer.
LEMMA InFront ==
    ASSUME NEW T, NEW s \in Seq(T), NEW k \in T, IsInjective(s), k \notin Range(s)
    PROVE  /\ <<k>> \o s \in Seq(T) /\ Len(<<k>> \o s) = Len(s) + 1
           /\ IsInjective(<<k>> \o s) /\ Range(<<k>> \o s) = {k} \cup Range(s)
<1> DEFINE t == <<k>> \o s
<1>1. <<k>> \in Seq(T) /\ Len(<<k>>) = 1 /\ <<k>>[1] = k
  OBVIOUS
<1>2. Len(s) \in Nat /\ DOMAIN s = 1..Len(s)
  BY LenProperties
<1>3. /\ t \in Seq(T) /\ Len(t) = Len(s) + 1
      /\ t[1] = k /\ \A i \in 2..Len(s) + 1 : t[i] = s[i - 1]
  <2>1. /\ t \in Seq(T) /\ Len(t) = 1 + Len(s)
        /\ \A i \in 1..1 + Len(s) : t[i] = IF i <= 1 THEN <<k>>[i] ELSE s[i - 1]
    BY <1>1, ConcatProperties
  <2> HIDE DEF t
  <2> QED
    BY <1>1, <1>2, <2>1
<1> HIDE DEF t
<1>4. DOMAIN t = 1..Len(s) + 1
  BY <1>3, LenProperties
<1>5. \A i \in 2..Len(s) + 1 : i - 1 \in DOMAIN s
  BY <1>2
<1>6. IsInjective(t)
  <2>1. SUFFICES ASSUME NEW i \in DOMAIN t, NEW j \in DOMAIN t, i < j
                 PROVE  t[i] # t[j]
    BY <1>2, <1>4 DEF IsInjective
  <2>2. j \in 2..Len(s) + 1 /\ t[j] = s[j - 1] /\ j - 1 \in DOMAIN s
    BY <1>2, <1>3, <1>4, <1>5, <2>1
  <2>3. CASE i = 1
    BY <1>3, <2>2, <2>3 DEF Range
  <2>4. CASE i # 1
    <3>1. i \in 2..Len(s) + 1 /\ i - 1 # j - 1
      BY <1>2, <1>4, <2>1, <2>4
    <3> QED
      BY <1>3, <1>5, <2>2, <3>1 DEF IsInjective
  <2> QED
    BY <2>3, <2>4
<1>7. Range(t) = {k} \cup Range(s)
  <2>1. \A i \in DOMAIN t : t[i] \in {k} \cup Range(s)
    BY <1>2, <1>3, <1>4, <1>5 DEF Range
  <2>2. \A i \in DOMAIN s : i + 1 \in DOMAIN t /\ t[i + 1] = s[i]
    BY <1>2, <1>3, <1>4
  <2>3. 1 \in DOMAIN t
    BY <1>2, <1>4
  <2> QED
    BY <1>3, <2>1, <2>2, <2>3 DEF Range
<1> QED
  BY <1>3, <1>6, <1>7 DEF t

\* A list without repetitions is as long as the set of its elements is large.
LEMMA Distinct ==
    ASSUME NEW T, NEW s \in Seq(T), IsInjective(s)
    PROVE  IsFiniteSet(Range(s)) /\ Cardinality(Range(s)) = Len(s)
<1>1. Len(s) \in Nat /\ DOMAIN s = 1..Len(s) /\ s \in [1..Len(s) -> T]
  BY LenProperties
<1>2. IsFiniteSet(1..Len(s)) /\ Cardinality(1..Len(s)) = Len(s)
  BY <1>1, FS_Interval
<1>3. s \in Bijection(1..Len(s), Range(s))
  <2>1. s \in [1..Len(s) -> Range(s)]
    BY <1>1 DEF Range
  <2>2. s \in Injection(1..Len(s), Range(s))
    BY <1>1, <2>1 DEF Injection, IsInjective
  <2>3. s \in Surjection(1..Len(s), Range(s))
    BY <1>1, <2>1 DEF Surjection, Range
  <2> QED
    BY <2>2, <2>3 DEF Bijection
<1>4. ExistsBijection(1..Len(s), Range(s))
  BY <1>3 DEF ExistsBijection
<1> QED
  BY <1>2, <1>4, FS_Bijection

\* The first elements of a list.
LEMMA Firsts ==
    ASSUME NEW T, NEW s \in Seq(T), IsInjective(s), NEW n \in 0..Len(s)
    PROVE  /\ SubSeq(s, 1, n) \in Seq(T) /\ Len(SubSeq(s, 1, n)) = n
           /\ IsInjective(SubSeq(s, 1, n))
           /\ Range(SubSeq(s, 1, n)) \subseteq Range(s)
<1>1. Len(s) \in Nat /\ DOMAIN s = 1..Len(s) /\ \A i \in DOMAIN s : s[i] \in T
  BY LenProperties
<1>2. n \in Int /\ \A i \in 1..n : i \in DOMAIN s /\ s[i] \in T
  BY <1>1
<1>3. PICK a : a = SubSeq(s, 1, n)
  OBVIOUS
<1>4. a \in Seq(T) /\ Len(a) = n /\ \A i \in 1..n : a[i] = s[i]
  <2>1. 1 \in Int /\ \A i \in 1..n : s[i] \in T
    BY <1>2
  <2>2. /\ a \in Seq(T) /\ Len(a) = IF 1 <= n THEN n - 1 + 1 ELSE 0
        /\ \A i \in 1..(n - 1 + 1) : a[i] = s[1 + i - 1]
    BY <1>2, <1>3, <2>1, SubSeqProperties
  <2>3. \A i \in 1..n : i \in 1..(n - 1 + 1) /\ 1 + i - 1 = i
    BY <1>2
  <2> QED BY <1>2, <2>2, <2>3
<1>5. DOMAIN a = 1..n
  BY <1>4, LenProperties
<1>6. \A i \in DOMAIN a : i \in DOMAIN s /\ a[i] = s[i]
  BY <1>2, <1>4, <1>5
<1>7. Range(a) \subseteq Range(s) /\ IsInjective(a)
  BY <1>6 DEF Range, IsInjective
<1> QED BY <1>3, <1>4, <1>7

\* Two lists of different elements.
LEMMA Joins ==
    ASSUME NEW T, NEW s \in Seq(T), NEW t \in Seq(T), IsInjective(s), IsInjective(t),
           Range(s) \cap Range(t) = {}
    PROVE  /\ s \o t \in Seq(T) /\ Len(s \o t) = Len(s) + Len(t)
           /\ IsInjective(s \o t) /\ Range(s \o t) = Range(s) \cup Range(t)
<1>1. /\ s \o t \in Seq(T) /\ Len(s \o t) = Len(s) + Len(t)
      /\ \A i \in 1..(Len(s) + Len(t)) :
           (s \o t)[i] = IF i <= Len(s) THEN s[i] ELSE t[i - Len(s)]
  BY ConcatProperties
<1>2. /\ Len(s) \in Nat /\ Len(t) \in Nat
      /\ DOMAIN s = 1..Len(s) /\ DOMAIN t = 1..Len(t)
      /\ DOMAIN (s \o t) = 1..(Len(s) + Len(t))
  BY <1>1, LenProperties
<1> DEFINE u == s \o t
<1>3. \A i \in DOMAIN u : \/ i \in DOMAIN s /\ u[i] = s[i]
                          \/ i - Len(s) \in DOMAIN t /\ u[i] = t[i - Len(s)]
  BY <1>1, <1>2
<1>4. /\ \A i \in DOMAIN s : i \in DOMAIN u /\ u[i] = s[i]
      /\ \A i \in DOMAIN t : i + Len(s) \in DOMAIN u /\ u[i + Len(s)] = t[i]
  BY <1>1, <1>2
<1>5. Range(u) \subseteq Range(s) \cup Range(t)
  BY <1>3 DEF Range
<1>6. Range(s) \subseteq Range(u) /\ Range(t) \subseteq Range(u)
  BY <1>4 DEF Range
<1>7. IsInjective(u)
  <2> SUFFICES ASSUME NEW i \in DOMAIN u, NEW j \in DOMAIN u, u[i] = u[j]
               PROVE  i = j
    BY DEF IsInjective
  <2>1. CASE i \in DOMAIN s /\ j \in DOMAIN s
    BY <1>4, <2>1 DEF IsInjective
  <2>2. CASE i \notin DOMAIN s /\ j \notin DOMAIN s
    <3>1. i - Len(s) = j - Len(s)
      BY <1>3, <2>2 DEF IsInjective
    <3> QED BY <1>2, <3>1
  <2>3. \A x \in DOMAIN s, y \in DOMAIN t : s[x] # t[y]
    BY DEF Range
  <2>4. ~(i \in DOMAIN s /\ j \notin DOMAIN s) /\ ~(i \notin DOMAIN s /\ j \in DOMAIN s)
    BY <1>3, <1>4, <2>3
  <2> QED BY <2>1, <2>2, <2>3, <2>4
<1> QED BY <1>1, <1>5, <1>6, <1>7
=============================================================================
