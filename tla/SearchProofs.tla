---------------------------- MODULE SearchProofs ----------------------------
(***************************************************************************)
(* Theorems about Answering: what a search finds, for any notes, chunks,   *)
(* distances and similarities, and any limits.                             *)
(***************************************************************************)
EXTENDS Answering, FiniteSetTheorems, TLAPS

-----------------------------------------------------------------------------
(* Order                                                                   *)

\* R is a strict total order of S.
StrictOrder(S, R) ==
    /\ \A x \in S : <<x, x>> \notin R
    /\ \A x, y, z \in S : <<x, y>> \in R /\ <<y, z>> \in R => <<x, z>> \in R
    /\ \A x, y \in S : x = y \/ <<x, y>> \in R \/ <<y, x>> \in R

\* f lists the members of S along R.
Orders(f, S, R) ==
    /\ Cardinality(S) \in Nat
    /\ f \in [1..Cardinality(S) -> S]
    /\ \A x \in S : \E i \in 1..Cardinality(S) : f[i] = x
    /\ \A i, j \in 1..Cardinality(S) : i < j <=> <<f[i], f[j]>> \in R

\* The members that come before x.
Below(S, R, x) == {y \in S : <<y, x>> \in R}

\* The listing of S by ranks.
Listing(S, rank) == [i \in 1..Cardinality(S) |-> CHOOSE x \in S : rank[x] = i - 1]

\* A set is listed by how many members come before each.
LEMMA Ranked ==
  ASSUME NEW S, IsFiniteSet(S), NEW R, StrictOrder(S, R),
         NEW rank, rank = [x \in S |-> Cardinality(Below(S, R, x))]
  PROVE  Orders(Listing(S, rank), S, R)
  <1> DEFINE n == Cardinality(S)
             f == Listing(S, rank)
  <1>1. n \in Nat
    BY FS_CardinalityType
  <1>2. ASSUME NEW x \in S
        PROVE  /\ IsFiniteSet(Below(S, R, x)) /\ rank[x] \in 0..(n - 1)
    <2>1. Below(S, R, x) \in SUBSET (S \ {x})
      BY DEF Below, StrictOrder
    <2>2. IsFiniteSet(S \ {x}) /\ Cardinality(S \ {x}) = n - 1
      BY FS_RemoveElement
    <2>3. /\ IsFiniteSet(Below(S, R, x))
          /\ Cardinality(Below(S, R, x)) <= n - 1
      BY <2>1, <2>2, FS_Subset
    <2>4. Cardinality(Below(S, R, x)) \in Nat
      BY <2>3, FS_CardinalityType
    <2> QED
      BY <1>1, <2>3, <2>4
  <1>3. ASSUME NEW x \in S, NEW y \in S, <<x, y>> \in R
        PROVE  rank[x] < rank[y]
    <2>1. Below(S, R, x) \in SUBSET Below(S, R, y)
      BY <1>3 DEF Below, StrictOrder
    <2>2. x \in Below(S, R, y) /\ x \notin Below(S, R, x)
      BY <1>3 DEF Below, StrictOrder
    <2>3. Cardinality(Below(S, R, x)) <= Cardinality(Below(S, R, y))
      BY <1>2, <2>1, FS_Subset
    <2>4. Cardinality(Below(S, R, x)) # Cardinality(Below(S, R, y))
      BY <1>2, <2>1, <2>2, FS_Subset
    <2> QED
      BY <1>1, <1>2, <2>3, <2>4
  <1>4. \A x, y \in S : rank[x] = rank[y] => x = y
    <2> SUFFICES ASSUME NEW x \in S, NEW y \in S, x # y PROVE rank[x] # rank[y]
      OBVIOUS
    <2>1. <<x, y>> \in R \/ <<y, x>> \in R
      BY DEF StrictOrder
    <2> QED
      BY <1>1, <1>2, <1>3, <2>1
  <1>5. \A i \in 0..(n - 1) : \E x \in S : rank[x] = i
    <2>1. rank \in Injection(S, 0..(n - 1))
      <3>1. rank \in [S -> 0..(n - 1)]
        BY <1>2
      <3> QED
        BY <1>4, <3>1 DEF Injection, IsInjective
    <2>2. IsFiniteSet(0..(n - 1)) /\ Cardinality(0..(n - 1)) = n
      BY <1>1, FS_Interval
    <2>3. rank \in Surjection(S, 0..(n - 1))
      BY <2>1, <2>2, FS_Injection
    <2> QED
      BY <2>3 DEF Surjection
  <1>6. \A i \in 1..n : f[i] \in S /\ rank[f[i]] = i - 1
    <2> SUFFICES ASSUME NEW i \in 1..n PROVE f[i] \in S /\ rank[f[i]] = i - 1
      OBVIOUS
    <2>1. i - 1 \in 0..(n - 1)
      BY <1>1
    <2>2. \E x \in S : rank[x] = i - 1
      BY <1>5, <2>1
    <2> QED
      BY <2>2 DEF Listing
  <1>7. f \in [1..n -> S]
    BY <1>6 DEF Listing
  <1> HIDE DEF f
  <1>8. ASSUME NEW x \in S PROVE \E i \in 1..n : f[i] = x
    <2>1. rank[x] + 1 \in 1..n /\ (rank[x] + 1) - 1 = rank[x]
      BY <1>1, <1>2
    <2>2. f[rank[x] + 1] = x
      BY <1>4, <1>6, <2>1
    <2> QED
      BY <2>1, <2>2
  <1>9. ASSUME NEW i \in 1..n, NEW j \in 1..n PROVE i < j <=> <<f[i], f[j]>> \in R
    <2>1. f[i] \in S /\ f[j] \in S /\ rank[f[i]] = i - 1 /\ rank[f[j]] = j - 1
      BY <1>6
    <2>2. <<f[i], f[j]>> \in R => i < j
      BY <1>1, <1>3, <2>1
    <2>3. <<f[j], f[i]>> \in R => j < i
      BY <1>1, <1>3, <2>1
    <2>4. f[i] = f[j] => i = j
      BY <1>1, <2>1
    <2>5. f[i] = f[j] \/ <<f[i], f[j]>> \in R \/ <<f[j], f[i]>> \in R
      BY <2>1 DEF StrictOrder
    <2> QED
      BY <1>1, <2>2, <2>3, <2>4, <2>5
  <1> QED
    BY <1>1, <1>7, <1>8, <1>9 DEF Orders, f

\* Its members are listed once each.
LEMMA OrdersOnce ==
  ASSUME NEW S, NEW R, StrictOrder(S, R), NEW f, Orders(f, S, R)
  PROVE  \A i, j \in 1..Cardinality(S) : f[i] = f[j] => i = j
  <1> SUFFICES ASSUME NEW i \in 1..Cardinality(S), NEW j \in 1..Cardinality(S),
                      f[i] = f[j]
               PROVE  i = j
    OBVIOUS
  <1>1. f[i] \in S /\ ~(i < j) /\ ~(j < i)
    BY DEF StrictOrder, Orders
  <1> QED
    BY <1>1 DEF Orders

-----------------------------------------------------------------------------
(* Lists                                                                   *)

\* The indices of a list of length n.
LEMMA Interval ==
  ASSUME NEW n \in Nat
  PROVE  IsFiniteSet(1..n) /\ Cardinality(1..n) = n
  <1>1. /\ IsFiniteSet(1..n)
        /\ Cardinality(1..n) = IF 1 > n THEN 0 ELSE n - 1 + 1
    BY FS_Interval
  <1> QED
    BY <1>1

\* What the entries of a list at some indices are: they keep their order.
LEMMA EntriesKeepOrder ==
  ASSUME NEW X, NEW list \in Seq(X), NEW I \in SUBSET (DOMAIN list)
  PROVE  \E at \in [1..Cardinality(I) -> I] :
            /\ Cardinality(I) \in 0..Len(list)
            /\ \A i \in I : \E k \in 1..Cardinality(I) : at[k] = i
            /\ \A k, l \in 1..Cardinality(I) : k < l <=> at[k] < at[l]
            /\ Entries(list, I) = [k \in 1..Cardinality(I) |-> list[at[k]]]
  <1> DEFINE R == {p \in I \X I : p[1] < p[2]}
             rank == [x \in I |-> Cardinality({y \in I : y < x})]
             at == Listing(I, rank)
  <1>1. /\ IsFiniteSet(1..Len(list)) /\ Cardinality(1..Len(list)) = Len(list)
        /\ I \in SUBSET (1..Len(list))
    <2>1. Len(list) \in Nat /\ DOMAIN list = 1..Len(list)
      OBVIOUS
    <2> QED
      BY <2>1, Interval
  <1>2. IsFiniteSet(I) /\ Cardinality(I) \in 0..Len(list)
    BY <1>1, FS_Subset, FS_CardinalityType
  <1>3. StrictOrder(I, R)
    BY <1>1 DEF StrictOrder
  <1>4. rank = [x \in I |-> Cardinality(Below(I, R, x))]
    <2>1. \A x \in I : {y \in I : y < x} = Below(I, R, x)
      BY DEF Below
    <2> QED
      BY <2>1
  <1>5. Orders(at, I, R)
    <2> HIDE DEF R, rank
    <2> QED
      BY <1>2, <1>3, <1>4, Ranked
  <1>6. Arranged(I, <) = at
    BY DEF Arranged, Listing
  <1>7. Entries(list, I) = [k \in DOMAIN at |-> list[at[k]]]
    BY <1>6 DEF Entries
  <1>8. DOMAIN at = 1..Cardinality(I)
    BY DEF Listing
  <1> HIDE DEF at
  <1>9. /\ at \in [1..Cardinality(I) -> I]
        /\ \A i \in I : \E k \in 1..Cardinality(I) : at[k] = i
        /\ \A k, l \in 1..Cardinality(I) : k < l <=> at[k] < at[l]
    BY <1>5 DEF Orders
  <1> QED
    BY <1>2, <1>7, <1>8, <1>9

\* What a scored entry consists of.
LEMMA ScoredEntry ==
  ASSUME NEW list \in Seq(Scored), NEW i \in 1..Len(list)
  PROVE  list[i] \in Scored /\ list[i].chunk \in Chunk /\ list[i].score \in Nat
  <1>1. list[i] \in Scored
    OBVIOUS
  <1> QED
    BY <1>1 DEF Scored

\* The entry i comes before j by descending score.
Precedes(list, i, j) ==
    list[i].score > list[j].score \/ (list[i].score = list[j].score /\ i < j)

\* No entry comes before itself.
LEMMA NotItself ==
  ASSUME NEW list \in Seq(Scored), NEW i \in 1..Len(list)
  PROVE  ~Precedes(list, i, i)
  <1>1. list[i].score \in Nat /\ i \in Int
    BY ScoredEntry
  <1> DEFINE v == list[i].score
  <1>2. ~(v > v) /\ ~(i < i)
    <2> HIDE DEF v
    <2>1. v \in Nat
      BY <1>1 DEF v
    <2> QED
      BY <1>1, <2>1
  <1> QED
    BY <1>2 DEF Precedes

\* Descending arranges all entries so.
LEMMA DescendingOrder ==
  ASSUME NEW list \in Seq(Scored)
  PROVE  \E at \in [1..Len(list) -> 1..Len(list)] :
            /\ \A i \in 1..Len(list) : \E k \in 1..Len(list) : at[k] = i
            /\ \A k, l \in 1..Len(list) : k < l <=> Precedes(list, at[k], at[l])
            /\ Descending(list) = [k \in 1..Len(list) |-> list[at[k]]]
  <1> DEFINE I == 1..Len(list)
             R == {p \in I \X I : Precedes(list, p[1], p[2])}
             Before(i, j) == \/ list[i].score > list[j].score
                             \/ list[i].score = list[j].score /\ i < j
             rank == [x \in I |-> Cardinality({y \in I : Before(y, x)})]
             at == Listing(I, rank)
  <1>1. Len(list) \in Nat /\ DOMAIN list = I
    OBVIOUS
  <1>2. IsFiniteSet(I) /\ Cardinality(I) = Len(list)
    BY <1>1, Interval
  <1>3. \A i \in I : list[i].score \in Nat
    BY ScoredEntry
  <1>4. StrictOrder(I, R)
    <2>1. \A x \in I : <<x, x>> \notin R
      BY <1>3 DEF Precedes
    <2>2. ASSUME NEW x \in I, NEW y \in I, NEW z \in I, <<x, y>> \in R, <<y, z>> \in R
          PROVE  <<x, z>> \in R
      BY <1>1, <1>3, <2>2 DEF Precedes
    <2>3. ASSUME NEW x \in I, NEW y \in I
          PROVE  x = y \/ <<x, y>> \in R \/ <<y, x>> \in R
      BY <1>1, <1>3 DEF Precedes
    <2> QED
      BY <2>1, <2>2, <2>3 DEF StrictOrder
  <1>5. rank = [x \in I |-> Cardinality(Below(I, R, x))]
    <2>1. \A x \in I : {y \in I : Before(y, x)} = Below(I, R, x)
      BY DEF Below, Precedes
    <2> QED
      BY <2>1
  <1>6. Orders(at, I, R)
    <2> HIDE DEF R, rank, I
    <2> QED
      BY <1>2, <1>4, <1>5, Ranked
  <1>7. Descending(list) = [k \in DOMAIN at |-> list[at[k]]]
    BY <1>1 DEF Descending, Arranged, Listing
  <1>8. DOMAIN at = 1..Len(list)
    BY <1>2 DEF Listing
  <1> HIDE DEF at
  <1>9. /\ at \in [1..Len(list) -> I]
        /\ \A i \in I : \E k \in 1..Len(list) : at[k] = i
        /\ \A k, l \in 1..Len(list) : k < l <=> Precedes(list, at[k], at[l])
    BY <1>2, <1>6 DEF Orders
  <1> QED
    BY <1>7, <1>8, <1>9

\* The first k entries of a list.
LEMMA TopIs ==
  ASSUME NEW X, NEW list \in Seq(X), NEW k \in Nat
  PROVE  /\ Top(list, k) \in Seq(X)
         /\ Len(Top(list, k)) = IF Len(list) < k THEN Len(list) ELSE k
         /\ Len(Top(list, k)) \in Nat
         /\ \A i \in 1..Len(Top(list, k)) : i \in 1..Len(list) /\ Top(list, k)[i] = list[i]
  BY DEF Top

\* A list that is short enough is not cut.
LEMMA TopWhole ==
  ASSUME NEW X, NEW list \in Seq(X), NEW k \in Nat, Len(list) <= k
  PROVE  Top(list, k) = list
  <1> DEFINE T == Top(list, k)
             n == Len(list)
  <1>1. /\ T \in Seq(X) /\ Len(T) = (IF n < k THEN n ELSE k) /\ n \in Nat
        /\ \A i \in 1..Len(T) : T[i] = list[i]
    BY TopIs
  <1>2. /\ list \in [1..n -> X]
    OBVIOUS
  <1> HIDE DEF T, n
  <1>3. Len(T) = n
    BY <1>1 DEF n
  <1>4. T \in [1..n -> X]
    BY <1>1, <1>3
  <1> QED
    BY <1>1, <1>2, <1>3, <1>4 DEF T

\* No chunk has two entries.
Distinct(list) == \A i, j \in DOMAIN list : list[i].chunk = list[j].chunk => i = j

\* Of a list without repetition a chunk set has as many members as the list.
LEMMA DistinctCount ==
  ASSUME NEW list \in Seq(Scored), Distinct(list)
  PROVE  IsFiniteSet(ChunksOf(list)) /\ Cardinality(ChunksOf(list)) = Len(list)
  <1> DEFINE I == 1..Len(list)
             f == [i \in I |-> list[i].chunk]
  <1>1. Len(list) \in Nat /\ DOMAIN list = I
    OBVIOUS
  <1>2. IsFiniteSet(I) /\ Cardinality(I) = Len(list)
    BY <1>1, Interval
  <1>3. f \in Bijection(I, ChunksOf(list))
    <2>1. \A i \in I : list[i].chunk \in ChunksOf(list)
      BY <1>1 DEF ChunksOf, ToSet
    <2>2. f \in [I -> ChunksOf(list)]
      BY <2>1
    <2>3. \A c \in ChunksOf(list) : \E i \in I : f[i] = c
      BY <1>1 DEF ChunksOf, ToSet
    <2>4. \A i, j \in I : f[i] = f[j] => i = j
      BY <1>1 DEF Distinct
    <2> HIDE DEF f, I
    <2> QED
      BY <2>2, <2>3, <2>4 DEF Bijection, Injection, Surjection, IsInjective
  <1> QED
    BY <1>2, <1>3, FS_Bijection DEF ExistsBijection

\* What is chosen: entries that pass, the best topK of them, and none of these is
\* passed over for one that comes after it.
LEMMA ChosenIs ==
  ASSUME NEW r, r.scores \in Seq(Scored), r.topK \in Nat, Distinct(r.scores)
  PROVE  /\ Chosen(r) \in Seq(Scored) /\ Len(Chosen(r)) <= r.topK /\ Distinct(Chosen(r))
         /\ Len(Chosen(r)) < r.topK =>
               \A i \in DOMAIN r.scores : Passes(r, r.scores[i].chunk) =>
                   r.scores[i].chunk \in ChunksOf(Chosen(r))
         /\ \A l \in DOMAIN Chosen(r) : \E j \in DOMAIN r.scores :
               /\ Chosen(r)[l] = r.scores[j]
               /\ \A i \in DOMAIN r.scores :
                     Precedes(r.scores, i, j) /\ Passes(r, r.scores[i].chunk) =>
                         \E k \in 1..(l - 1) : Chosen(r)[k] = r.scores[i]
  <1> DEFINE s == r.scores
             N == Len(s)
             D == Descending(s)
             I == {i \in DOMAIN D : Passes(r, D[i].chunk)}
             M == Cardinality(I)
             E == Entries(D, I)
             T == Top(E, r.topK)
  <1>1. N \in Nat /\ DOMAIN s = 1..N
    OBVIOUS
  <1>2. PICK a \in [1..N -> 1..N] :
            /\ \A i \in 1..N : \E k \in 1..N : a[k] = i
            /\ \A k, l \in 1..N : k < l <=> Precedes(s, a[k], a[l])
            /\ D = [k \in 1..N |-> s[a[k]]]
    BY DescendingOrder
  <1>3. D \in Seq(Scored) /\ Len(D) = N /\ DOMAIN D = 1..N
    <2>1. \A k \in 1..N : s[a[k]] \in Scored
      BY <1>1, <1>2, ScoredEntry
    <2> HIDE DEF D
    <2> QED
      BY <1>1, <1>2, <2>1
  <1>4. I \in SUBSET (DOMAIN D)
    OBVIOUS
  <1> HIDE DEF D, I, N
  <1>5. PICK b \in [1..M -> I] :
            /\ M \in 0..Len(D)
            /\ \A i \in I : \E k \in 1..M : b[k] = i
            /\ \A k, l \in 1..M : k < l <=> b[k] < b[l]
            /\ E = [k \in 1..M |-> D[b[k]]]
    BY <1>3, <1>4, EntriesKeepOrder
  <1> HIDE DEF M, E
  <1>6. E \in Seq(Scored) /\ Len(E) = M /\ M \in Nat
    <2>1. \A k \in 1..M : D[b[k]] \in Scored
      BY <1>3, <1>4, <1>5
    <2>2. M \in Nat
      BY <1>1, <1>3, <1>5
    <2> QED
      BY <1>5, <2>1, <2>2
  <1>7. /\ T \in Seq(Scored) /\ Len(T) = (IF M < r.topK THEN M ELSE r.topK)
        /\ Len(T) \in Nat
        /\ \A k \in 1..Len(T) : k \in 1..M /\ T[k] = E[k]
    BY <1>6, TopIs
  <1>8. T = Chosen(r)
    BY DEF T, E, I, D, Chosen, Relevant
  <1> HIDE DEF T
  <1> DEFINE at == [k \in 1..M |-> a[b[k]]]
  <1>9. /\ \A k \in 1..M : at[k] \in 1..N /\ E[k] = s[at[k]] /\ Passes(r, E[k].chunk)
        /\ \A k, l \in 1..M : k < l <=> Precedes(s, at[k], at[l])
        /\ \A i \in 1..N : Passes(r, s[i].chunk) => \E k \in 1..M : at[k] = i
    <2>1. ASSUME NEW k \in 1..M
          PROVE  at[k] \in 1..N /\ E[k] = s[at[k]] /\ Passes(r, E[k].chunk)
      <3>1. b[k] \in I /\ b[k] \in 1..N
        BY <1>3, <1>4, <1>5
      <3> QED
        BY <1>2, <1>5, <3>1 DEF I
    <2>2. ASSUME NEW k \in 1..M, NEW l \in 1..M
          PROVE  k < l <=> Precedes(s, at[k], at[l])
      <3>1. b[k] \in 1..N /\ b[l] \in 1..N
        BY <1>3, <1>4, <1>5
      <3> QED
        BY <1>2, <1>5, <3>1
    <2>3. ASSUME NEW i \in 1..N, Passes(r, s[i].chunk)
          PROVE  \E k \in 1..M : at[k] = i
      <3>1. PICK j \in 1..N : a[j] = i
        BY <1>2
      <3>2. D[j] = s[i]
        BY <1>2, <3>1
      <3>3. j \in I
        BY <1>3, <2>3, <3>2 DEF I
      <3> QED
        BY <1>5, <3>1, <3>3
    <2> QED
      BY <2>1, <2>2, <2>3
  <1> HIDE DEF at
  <1>10. DOMAIN T = 1..Len(T)
    BY <1>7
  <1>11. Distinct(T)
    <2> SUFFICES ASSUME NEW k \in 1..Len(T), NEW l \in 1..Len(T), T[k].chunk = T[l].chunk
                 PROVE  k = l
      BY <1>10 DEF Distinct
    <2>1. k \in 1..M /\ l \in 1..M /\ T[k] = s[at[k]] /\ T[l] = s[at[l]]
      BY <1>7, <1>9
    <2>2. at[k] \in 1..N /\ at[l] \in 1..N
      BY <1>9, <2>1
    <2>3. at[k] = at[l]
      BY <1>1, <2>1, <2>2 DEF Distinct
    <2>4. ~(k < l) /\ ~(l < k)
      <3>1. ~Precedes(s, at[k], at[k])
        BY <2>2, NotItself DEF N
      <3> QED
        BY <1>9, <2>1, <2>3, <3>1
    <2> QED
      BY <1>6, <2>1, <2>4
  <1>12. ASSUME Len(T) < r.topK, NEW i \in DOMAIN s, Passes(r, s[i].chunk)
         PROVE  s[i].chunk \in ChunksOf(T)
    <2>1. Len(T) = M
      BY <1>6, <1>7, <1>12
    <2>2. PICK k \in 1..M : at[k] = i
      BY <1>1, <1>9, <1>12
    <2>3. k \in DOMAIN T /\ T[k] = s[i]
      BY <1>7, <1>9, <1>10, <2>1, <2>2
    <2> QED
      BY <2>3 DEF ChunksOf, ToSet
  <1>13. ASSUME NEW l \in DOMAIN T
         PROVE  \E j \in DOMAIN s :
                   /\ T[l] = s[j]
                   /\ \A i \in DOMAIN s :
                         Precedes(s, i, j) /\ Passes(r, s[i].chunk) =>
                             \E k \in 1..(l - 1) : T[k] = s[i]
    <2>1. l \in 1..M /\ T[l] = s[at[l]] /\ at[l] \in DOMAIN s
      BY <1>1, <1>7, <1>9, <1>10
    <2>2. ASSUME NEW i \in DOMAIN s, Precedes(s, i, at[l]), Passes(r, s[i].chunk)
          PROVE  \E k \in 1..(l - 1) : T[k] = s[i]
      <3>1. PICK k \in 1..M : at[k] = i
        BY <1>1, <1>9, <2>2
      <3>2. k < l
        BY <1>9, <2>1, <2>2, <3>1
      <3>3. k \in 1..(l - 1) /\ k \in 1..Len(T)
        BY <1>6, <1>7, <1>10, <2>1, <3>1, <3>2
      <3>4. T[k] = s[i]
        BY <1>7, <1>9, <3>1, <3>3
      <3> QED
        BY <3>3, <3>4
    <2> QED
      BY <2>1, <2>2
  <1> QED
    BY <1>6, <1>7, <1>8, <1>11, <1>12, <1>13

\* Those picked chunks that are still there.
LEMMA PresentIs ==
  ASSUME NEW list \in Seq(Scored)
  PROVE  /\ Present(list) \in Seq(Scored)
         /\ ChunksOf(list) \cap Index \subseteq ChunksOf(Present(list))
  <1> DEFINE I == {i \in DOMAIN list : list[i].chunk \in Index}
             E == Entries(list, I)
  <1>1. I \in SUBSET (DOMAIN list) /\ DOMAIN list = 1..Len(list)
    OBVIOUS
  <1>2. Present(list) = E
    BY DEF Present
  <1> HIDE DEF I
  <1>3. PICK at \in [1..Cardinality(I) -> I] :
            /\ Cardinality(I) \in 0..Len(list)
            /\ \A i \in I : \E k \in 1..Cardinality(I) : at[k] = i
            /\ \A k, l \in 1..Cardinality(I) : k < l <=> at[k] < at[l]
            /\ E = [k \in 1..Cardinality(I) |-> list[at[k]]]
    BY <1>1, EntriesKeepOrder
  <1> HIDE DEF E
  <1>4. E \in Seq(Scored)
    <2>1. \A i \in I : list[i] \in Scored
      BY <1>1, ScoredEntry
    <2>2. Cardinality(I) \in Nat
      BY <1>3
    <2> QED
      BY <1>3, <2>1, <2>2
  <1>5. ASSUME NEW c \in ChunksOf(list), c \in Index
        PROVE  c \in ChunksOf(E)
    <2>1. PICK i \in DOMAIN list : list[i].chunk = c
      BY DEF ChunksOf, ToSet
    <2>2. i \in I
      BY <1>5, <2>1 DEF I
    <2>3. PICK k \in 1..Cardinality(I) : at[k] = i
      BY <1>3, <2>2
    <2>4. k \in DOMAIN E /\ E[k] = list[i]
      BY <1>3, <2>3
    <2> QED
      BY <2>1, <2>4 DEF ChunksOf, ToSet
  <1> QED
    BY <1>2, <1>4, <1>5

-----------------------------------------------------------------------------
(* The index                                                               *)

\* Notes and their versions.
NotesOK ==
    /\ body \in [Note -> Body \cup {NoBody}]
    /\ changes \in 0..Changes
    /\ version \in [Note -> 0..changes]

\* Note and place identify a chunk of S.
Keyed(S) == \A c, d \in S : c.note = d.note /\ c.ord = d.ord => c = d

\* The rows of a note.
LEMMA RowsAre ==
  ASSUME NotesOK, NEW n \in Note
  PROVE  /\ Rows(n) \subseteq Chunk /\ IsFiniteSet(Rows(n)) /\ Keyed(Rows(n))
         /\ \A c \in Rows(n) : c.note = n
  <1>1. CASE body[n] = NoBody
    BY <1>1, FS_EmptySet DEF Rows, Keyed
  <1>2. CASE body[n] # NoBody
    <2> DEFINE list == Chunks[body[n]]
               I == 1..Len(list)
               row(i) == [note |-> n, version |-> version[n], ord |-> i, text |-> list[i]]
               f == [i \in I |-> row(i)]
    <2>1. list \in Seq(Text) /\ Len(list) \in Nat /\ DOMAIN list = I
      BY <1>2, SearchAssumption DEF SearchAssumption, NotesOK
    <2>2. Rows(n) = {row(i) : i \in I}
      BY <1>2, <2>1 DEF Rows
    <2>3. \A i \in I : row(i) \in Chunk
      <3>1. version[n] \in 0..Changes
        BY SearchAssumption DEF NotesOK, SearchAssumption
      <3>2. \A i \in I : list[i] \in Text /\ i \in Nat \ {0}
        BY <2>1
      <3> HIDE DEF list, I
      <3> QED
        BY <3>1, <3>2 DEF Chunk
    <2>4. \A i \in I : row(i).note = n /\ row(i).ord = i
      OBVIOUS
    <2>5. IsFiniteSet(Rows(n))
      <3>1. IsFiniteSet(I)
        BY <2>1, Interval
      <3>2. f \in Surjection(I, Rows(n))
        BY <2>2 DEF Surjection
      <3> QED
        BY <3>1, <3>2, FS_Surjection
    <2> HIDE DEF row, I
    <2> QED
      BY <2>2, <2>3, <2>4, <2>5 DEF Keyed
  <1> QED
    BY <1>1, <1>2

\* The rows of all.
LEMMA IndexIs ==
  ASSUME NotesOK
  PROVE  Index \subseteq Chunk /\ IsFiniteSet(Index) /\ Keyed(Index)
  <1> DEFINE f == [n \in Note |-> Rows(n)]
             All == {Rows(n) : n \in Note}
  <1>1. IsFiniteSet(All)
    <2>1. f \in Surjection(Note, All)
      BY DEF Surjection
    <2>2. IsFiniteSet(Note)
      BY SearchAssumption DEF SearchAssumption
    <2> HIDE DEF f, All
    <2> QED
      BY <2>1, <2>2, FS_Surjection
  <1>2. \A T \in All : IsFiniteSet(T)
    BY RowsAre
  <1>3. IsFiniteSet(Index)
    BY <1>1, <1>2, FS_UNION DEF Index
  <1>4. Index \subseteq Chunk
    BY RowsAre DEF Index
  <1>5. ASSUME NEW c \in Index, NEW d \in Index, c.note = d.note, c.ord = d.ord
        PROVE  c = d
    <2>1. PICK n \in Note : c \in Rows(n)
      BY DEF Index
    <2>2. PICK m \in Note : d \in Rows(m)
      BY DEF Index
    <2>3. c.note = n /\ d.note = m
      BY <2>1, <2>2, RowsAre
    <2>4. Keyed(Rows(n))
      BY RowsAre
    <2> QED
      BY <1>5, <2>1, <2>2, <2>3, <2>4 DEF Keyed
  <1> QED
    BY <1>3, <1>4, <1>5 DEF Keyed

\* A list of at most k members of S, each once, and of all when there is room.
Lists(list, S, k) ==
    /\ list \in Seq(S) /\ IsInjective(list)
    /\ Len(list) <= k
    /\ Len(list) < k => S \subseteq ToSet(list)

\* The first k of an order are such a list.
LEMMA TopOfOrder ==
  ASSUME NEW S, NEW R, StrictOrder(S, R), NEW f, Orders(f, S, R), NEW k \in Nat
  PROVE  Lists(Top(f, k), S, k)
  <1> DEFINE n == Cardinality(S)
             T == Top(f, k)
  <1>1. n \in Nat /\ f \in [1..n -> S]
    BY DEF Orders
  <1>2. f \in Seq(S) /\ Len(f) = n
    BY <1>1
  <1>3. /\ T \in Seq(S) /\ Len(T) = (IF n < k THEN n ELSE k)
        /\ \A i \in 1..Len(T) : i \in 1..n /\ T[i] = f[i]
    BY <1>2, TopIs
  <1>4. \A i, j \in 1..n : f[i] = f[j] => i = j
    BY OrdersOnce
  <1> HIDE DEF n, T
  <1>5. DOMAIN T = 1..Len(T)
    BY <1>3
  <1>6. IsInjective(T)
    BY <1>3, <1>4, <1>5 DEF IsInjective
  <1>7. ASSUME Len(T) < k, NEW x \in S PROVE x \in ToSet(T)
    <2>1. PICK i \in 1..n : f[i] = x
      BY DEF Orders, n
    <2>2. i \in DOMAIN T
      BY <1>1, <1>3, <1>5, <1>7
    <2> QED
      BY <1>3, <1>5, <2>1, <2>2 DEF ToSet
  <1> QED
    BY <1>1, <1>3, <1>6, <1>7 DEF Lists, T

\* How many rows come before one that is ordered by a key, and then as they lie.
Preceding(S, key, scan, x) ==
    {y \in S : key[y] < key[x] \/ (key[y] = key[x] /\ Lies(scan, y, x))}

\* The first k rows in the order of a key are such a list, however they lie.
LEMMA KeyLists ==
  ASSUME NEW S \in SUBSET Chunk, IsFiniteSet(S), Keyed(S), NEW k \in Nat,
         NEW scan \in Scans, NEW key \in [S -> Int]
  PROVE  Lists(Top(Listing(S, [x \in S |-> Cardinality(Preceding(S, key, scan, x))]), k), S, k)
  <1> DEFINE Comes(c, d) == key[c] < key[d] \/ (key[c] = key[d] /\ Lies(scan, c, d))
             R == {p \in S \X S : Comes(p[1], p[2])}
             rank == [x \in S |-> Cardinality(Preceding(S, key, scan, x))]
             at == Listing(S, rank)
  <1>1. /\ \A c \in S : key[c] \in Int /\ c.note \in Note /\ c.ord \in Nat
        /\ \A n \in Note : scan[n] \in Int
        /\ \A n, m \in Note : scan[n] = scan[m] => n = m
    <2>1. \A c \in S : c.note \in Note /\ c.ord \in Nat
      BY DEF Chunk
    <2>2. /\ scan \in [Note -> 1..Cardinality(Note)]
          /\ \A n, m \in Note : scan[n] = scan[m] => n = m
      BY DEF Scans, IsInjective
    <2>3. Cardinality(Note) \in Nat
      BY FS_CardinalityType, SearchAssumption DEF SearchAssumption
    <2> QED
      BY <2>1, <2>2, <2>3
  <1>2. StrictOrder(S, R)
    <2>1. ASSUME NEW x \in S PROVE ~Comes(x, x)
      BY <1>1 DEF Lies
    <2>2. ASSUME NEW x \in S, NEW y \in S, NEW z \in S, Comes(x, y), Comes(y, z)
          PROVE  Comes(x, z)
      <3> DEFINE sx == scan[x.note]
                 sy == scan[y.note]
                 sz == scan[z.note]
      <3>1. /\ key[x] \in Int /\ key[y] \in Int /\ key[z] \in Int
            /\ sx \in Int /\ sy \in Int /\ sz \in Int
            /\ x.ord \in Nat /\ y.ord \in Nat /\ z.ord \in Nat
            /\ x.note = y.note => sx = sy
            /\ y.note = z.note => sy = sz
        BY <1>1
      <3>2. /\ \/ key[x] < key[y]
               \/ key[x] = key[y] /\ (sx < sy \/ (x.note = y.note /\ x.ord < y.ord))
            /\ \/ key[y] < key[z]
               \/ key[y] = key[z] /\ (sy < sz \/ (y.note = z.note /\ y.ord < z.ord))
        BY <2>2 DEF Lies
      <3>3. \/ key[x] < key[z]
            \/ key[x] = key[z] /\ (sx < sz \/ (x.note = z.note /\ x.ord < z.ord))
        <4> HIDE DEF sx, sy, sz
        <4> QED
          BY <3>1, <3>2
      <3> QED
        BY <3>3 DEF Lies
    <2>3. ASSUME NEW x \in S, NEW y \in S, x # y
          PROVE  Comes(x, y) \/ Comes(y, x)
      <3>1. x.note # y.note \/ x.ord # y.ord
        BY <2>3 DEF Keyed
      <3> QED
        BY <1>1, <3>1 DEF Lies
    <2> HIDE DEF Comes
    <2> QED
      BY <2>1, <2>2, <2>3 DEF StrictOrder
  <1>3. rank = [x \in S |-> Cardinality(Below(S, R, x))]
    <2>1. \A x \in S : Preceding(S, key, scan, x) = Below(S, R, x)
      BY DEF Below, Preceding
    <2> QED
      BY <2>1
  <1> HIDE DEF R, rank
  <1>4. Orders(at, S, R)
    BY <1>2, <1>3, Ranked
  <1> HIDE DEF at
  <1>5. Lists(Top(at, k), S, k)
    BY <1>2, <1>4, TopOfOrder
  <1> QED
    BY <1>5 DEF at, rank

\* The vector list.
LEMMA DistanceLists ==
  ASSUME NEW S \in SUBSET Chunk, IsFiniteSet(S), Keyed(S), NEW k \in Nat,
         NEW list \in ByDistance(S, k)
  PROVE  Lists(list, S, k)
  <1> DEFINE key == [c \in S |-> Dist[c.text]]
  <1>1. PICK scan \in Scans :
           list = LET Comes(c, d) == \/ Dist[c.text] < Dist[d.text]
                                     \/ Dist[c.text] = Dist[d.text] /\ Lies(scan, c, d)
                  IN Top(Arranged(S, Comes), k)
    BY DEF ByDistance
  <1> DEFINE rank == [x \in S |-> Cardinality({y \in S :
                        \/ Dist[y.text] < Dist[x.text]
                        \/ Dist[y.text] = Dist[x.text] /\ Lies(scan, y, x)})]
  <1>2. key \in [S -> Int]
    BY SearchAssumption DEF SearchAssumption, Chunk
  <1>3. \A x \in S : {y \in S : \/ Dist[y.text] < Dist[x.text]
                                \/ Dist[y.text] = Dist[x.text] /\ Lies(scan, y, x)}
                     = Preceding(S, key, scan, x)
    BY DEF Preceding
  <1>4. list = Top(Listing(S, rank), k)
    BY <1>1 DEF Arranged, Listing
  <1>5. rank = [x \in S |-> Cardinality(Preceding(S, key, scan, x))]
    BY <1>3
  <1> HIDE DEF key, rank
  <1> QED
    BY <1>2, <1>4, <1>5, KeyLists

\* The text list: the key is the similarity, descending.
LEMMA SimilarityLists ==
  ASSUME NEW S \in SUBSET Chunk, IsFiniteSet(S), Keyed(S), NEW k \in Nat,
         NEW list \in BySimilarity(S, k)
  PROVE  Lists(list, S, k)
  <1> DEFINE key == [c \in S |-> 0 - Sim[c.text]]
  <1>1. PICK scan \in Scans :
           list = LET Comes(c, d) == \/ Sim[c.text] > Sim[d.text]
                                     \/ Sim[c.text] = Sim[d.text] /\ Lies(scan, c, d)
                  IN Top(Arranged(S, Comes), k)
    BY DEF BySimilarity
  <1> DEFINE rank == [x \in S |-> Cardinality({y \in S :
                        \/ Sim[y.text] > Sim[x.text]
                        \/ Sim[y.text] = Sim[x.text] /\ Lies(scan, y, x)})]
  <1>2. \A c \in S : Sim[c.text] \in Nat
    BY SearchAssumption DEF SearchAssumption, Chunk
  <1>3. key \in [S -> Int]
    BY <1>2
  <1>4. \A x \in S : {y \in S : \/ Sim[y.text] > Sim[x.text]
                                \/ Sim[y.text] = Sim[x.text] /\ Lies(scan, y, x)}
                     = Preceding(S, key, scan, x)
    <2>1. \A x, y \in S : /\ key[y] < key[x] <=> Sim[y.text] > Sim[x.text]
                          /\ key[y] = key[x] <=> Sim[y.text] = Sim[x.text]
      BY <1>2
    <2> HIDE DEF key
    <2> QED
      BY <2>1 DEF Preceding
  <1>5. list = Top(Listing(S, rank), k)
    BY <1>1 DEF Arranged, Listing
  <1>6. rank = [x \in S |-> Cardinality(Preceding(S, key, scan, x))]
    BY <1>4
  <1> HIDE DEF key, rank
  <1> QED
    BY <1>3, <1>5, <1>6, KeyLists

-----------------------------------------------------------------------------
(* Rank fusion                                                             *)

\* A smaller divisor gives no smaller quotient.
LEMMA Quotients ==
  ASSUME NEW a \in Nat, NEW x \in Nat \ {0}, NEW y \in Nat \ {0}, x <= y
  PROVE  a \div x \in Nat /\ a \div y \in Nat /\ a \div y <= a \div x
  <1> DEFINE p == a \div x
             q == a \div y
  <1>1. /\ p \in Int /\ p >= 0 /\ a < x * (p + 1)
        /\ q \in Int /\ q >= 0 /\ y * q <= a
    OBVIOUS
  <1> HIDE DEF p, q
  <1>2. x * q <= y * q
    BY <1>1
  <1>3. x * q < x * (p + 1)
    BY <1>1, <1>2
  <1>4. q < p + 1
    BY <1>1, <1>3
  <1> QED
    BY <1>1, <1>4 DEF p, q

\* The place of a chunk in a list that has it.
LEMMA PlaceIs ==
  ASSUME NEW X, NEW list \in Seq(X), NEW c \in ToSet(list)
  PROVE  /\ Place(list, c) \in 1..Len(list) /\ list[Place(list, c)] = c
         /\ IsInjective(list) => \A i \in 1..Len(list) : list[i] = c => i = Place(list, c)
  <1>1. DOMAIN list = 1..Len(list)
    OBVIOUS
  <1>2. \E i \in DOMAIN list : list[i] = c
    BY DEF ToSet
  <1>3. Place(list, c) \in DOMAIN list /\ list[Place(list, c)] = c
    BY <1>2 DEF Place
  <1> QED
    BY <1>1, <1>3 DEF IsInjective

\* What a list gives to a score.
LEMMA ShareIs ==
  ASSUME NEW X, NEW list \in Seq(X), NEW c
  PROVE  Share(list, c) \in Nat
  <1>1. RrfK \in Nat /\ Scale \in Nat
    BY SearchAssumption DEF SearchAssumption
  <1>2. CASE c \in ToSet(list)
    <2> DEFINE i == Place(list, c)
    <2>1. i \in Nat \ {0}
      BY <1>2, PlaceIs
    <2> HIDE DEF i
    <2>2. RrfK + i \in Nat \ {0} /\ RrfK + i <= RrfK + i
      BY <1>1, <2>1
    <2>3. Scale \div (RrfK + i) \in Nat
      BY <1>1, <2>2, Quotients
    <2> QED
      BY <1>2, <2>3 DEF Share, i
  <1>3. CASE c \notin ToSet(list)
    BY <1>3 DEF Share
  <1> QED
    BY <1>2, <1>3

\* A list gives more to a chunk that is ahead in it.
LEMMA ShareOrder ==
  ASSUME NEW X, NEW list \in Seq(X), IsInjective(list), NEW c, NEW d, Ahead(list, c, d)
  PROVE  /\ Share(list, d) <= Share(list, c)
         /\ d \in ToSet(list) => c \in ToSet(list) /\ Place(list, c) < Place(list, d)
  <1>1. Share(list, c) \in Nat
    BY ShareIs
  <1>2. CASE d \notin ToSet(list)
    BY <1>1, <1>2 DEF Share
  <1>3. CASE d \in ToSet(list)
    <2>1. PICK i, j \in 1..Len(list) : list[i] = c /\ list[j] = d /\ i < j
      BY <1>3 DEF Ahead
    <2>2. c \in ToSet(list)
      BY <2>1 DEF ToSet
    <2>3. i = Place(list, c) /\ j = Place(list, d)
      BY <1>3, <2>1, <2>2, PlaceIs
    <2>4. Scale \div (RrfK + j) <= Scale \div (RrfK + i)
      <3>1. RrfK \in Nat /\ Scale \in Nat
        BY SearchAssumption DEF SearchAssumption
      <3>2. RrfK + i \in Nat \ {0} /\ RrfK + j \in Nat \ {0} /\ RrfK + i <= RrfK + j
        BY <2>1, <3>1
      <3> QED
        BY <3>1, <3>2, Quotients
    <2> QED
      BY <1>3, <2>1, <2>2, <2>3, <2>4 DEF Share
  <1> QED
    BY <1>2, <1>3

\* No two chunks came up at once.
LEMMA CameIs ==
  ASSUME NEW vec \in Seq(Chunk), NEW big \in Seq(Chunk),
         NEW c \in ToSet(vec) \cup ToSet(big), NEW d \in ToSet(vec) \cup ToSet(big)
  PROVE  /\ Came(vec, big, c) \in Nat /\ Came(vec, big, d) \in Nat
         /\ Came(vec, big, c) = Came(vec, big, d) => c = d
  <1> DEFINE n == Len(vec)
             i(x) == Place(vec, x)
             j(x) == Place(big, x)
  <1>1. n \in Nat
    OBVIOUS
  <1>2. ASSUME NEW x \in ToSet(vec) PROVE i(x) \in 1..n /\ vec[i(x)] = x
    BY PlaceIs
  <1>3. ASSUME NEW x \in ToSet(big) PROVE j(x) \in Nat \ {0} /\ big[j(x)] = x
    BY PlaceIs
  <1>4. \A x : Came(vec, big, x) = IF x \in ToSet(vec) THEN i(x) ELSE n + j(x)
    BY DEF Came
  <1> HIDE DEF n, i, j
  <1> QED
    BY <1>1, <1>2, <1>3, <1>4

\* The members of a list.
LEMMA FiniteList ==
  ASSUME NEW X, NEW list \in Seq(X)
  PROVE  IsFiniteSet(ToSet(list)) /\ ToSet(list) \subseteq X
  <1>1. Len(list) \in Nat /\ list \in [1..Len(list) -> X] /\ DOMAIN list = 1..Len(list)
    OBVIOUS
  <1>2. list \in Surjection(1..Len(list), ToSet(list))
    BY <1>1 DEF Surjection, ToSet
  <1>3. IsFiniteSet(1..Len(list))
    BY <1>1, Interval
  <1>4. IsFiniteSet(ToSet(list))
    BY <1>2, <1>3, FS_Surjection
  <1> QED
    BY <1>1, <1>4 DEF ToSet

\* F has the chunks of both lists, once each, by their scores.
Fusion(F, vec, big, score) ==
    LET U == ToSet(vec) \cup ToSet(big) IN
    /\ F \in Seq(Scored) /\ Len(F) = Cardinality(U) /\ Distinct(F)
    /\ \A i \in DOMAIN F : F[i].chunk \in U /\ F[i].score = score[F[i].chunk]
    /\ \A c \in U : \E i \in DOMAIN F : F[i].chunk = c
    /\ \A i, j \in DOMAIN F :
          LET c == F[i].chunk
              d == F[j].chunk
          IN ( \/ score[c] > score[d]
               \/ score[c] = score[d] /\ Came(vec, big, c) < Came(vec, big, d) )
             => i < j

\* The fused list is such a list.
LEMMA FusedIs ==
  ASSUME NEW vec \in Seq(Chunk), NEW big \in Seq(Chunk),
         NEW score \in [ToSet(vec) \cup ToSet(big) -> Nat]
  PROVE  Fusion(Fused(vec, big, score), vec, big, score)
  <1> DEFINE U == ToSet(vec) \cup ToSet(big)
             F == Fused(vec, big, score)
             Before(c, d) == \/ score[c] > score[d]
                             \/ score[c] = score[d] /\ Came(vec, big, c) < Came(vec, big, d)
             R == {p \in U \X U : Before(p[1], p[2])}
             rank == [x \in U |-> Cardinality({y \in U : Before(y, x)})]
             at == Listing(U, rank)
             n == Cardinality(U)
  <1>1. IsFiniteSet(U) /\ U \subseteq Chunk /\ n \in Nat
    BY FiniteList, FS_Union, FS_CardinalityType
  <1>2. StrictOrder(U, R)
    <2>1. \A x \in U : score[x] \in Nat /\ Came(vec, big, x) \in Nat
      BY CameIs
    <2>2. ASSUME NEW x \in U PROVE ~Before(x, x)
      <3> HIDE DEF U
      <3>1. score[x] \in Nat /\ Came(vec, big, x) \in Nat
        BY <2>1
      <3> QED
        BY <3>1
    <2>3. ASSUME NEW x \in U, NEW y \in U, NEW z \in U, Before(x, y), Before(y, z)
          PROVE  Before(x, z)
      <3> HIDE DEF U
      <3> QED
        BY <2>1, <2>3
    <2>4. ASSUME NEW x \in U, NEW y \in U, x # y PROVE Before(x, y) \/ Before(y, x)
      <3>1. Came(vec, big, x) # Came(vec, big, y)
        BY <2>4, CameIs
      <3> HIDE DEF U
      <3> QED
        BY <2>1, <3>1
    <2> HIDE DEF Before, U
    <2> QED
      BY <2>2, <2>3, <2>4 DEF StrictOrder
  <1>3. rank = [x \in U |-> Cardinality(Below(U, R, x))]
    <2>1. \A x \in U : {y \in U : Before(y, x)} = Below(U, R, x)
      BY DEF Below
    <2> HIDE DEF U, Before
    <2> QED
      BY <2>1
  <1>4. F = [i \in DOMAIN at |-> [chunk |-> at[i], score |-> score[at[i]]]]
    BY DEF Fused, Arranged, Listing
  <1>5. Orders(at, U, R)
    <2> HIDE DEF R, rank, U
    <2> QED
      BY <1>1, <1>2, <1>3, Ranked
  <1> HIDE DEF at, F, U
  <1>6. /\ at \in [1..n -> U]
        /\ \A c \in U : \E i \in 1..n : at[i] = c
        /\ \A i, j \in 1..n : i < j <=> <<at[i], at[j]>> \in R
    BY <1>5 DEF Orders
  <1>7. /\ DOMAIN F = 1..n
        /\ \A i \in 1..n : F[i].chunk = at[i] /\ F[i].score = score[at[i]]
    BY <1>4, <1>6
  <1>8. F \in Seq(Scored) /\ Len(F) = n
    <2>1. \A i \in 1..n : at[i] \in Chunk /\ score[at[i]] \in Nat
      BY <1>1, <1>6 DEF U
    <2>2. \A i \in 1..n : [chunk |-> at[i], score |-> score[at[i]]] \in Scored
      BY <2>1 DEF Scored
    <2>3. F \in [1..n -> Scored]
      BY <1>4, <1>6, <2>2
    <2> QED
      BY <1>1, <2>3
  <1>9. Distinct(F)
    <2>1. \A i, j \in 1..n : at[i] = at[j] => i = j
      BY <1>2, <1>5, OrdersOnce
    <2> QED
      BY <1>7, <2>1 DEF Distinct
  <1>10. \A i, j \in 1..n : Before(at[i], at[j]) => i < j
    <2> SUFFICES ASSUME NEW i \in 1..n, NEW j \in 1..n, Before(at[i], at[j]) PROVE i < j
      OBVIOUS
    <2>1. at[i] \in U /\ at[j] \in U
      BY <1>6
    <2> HIDE DEF Before
    <2>2. <<at[i], at[j]>> \in R
      BY <2>1
    <2> QED
      BY <1>6, <2>2
  <1>11. \A i \in DOMAIN F : F[i].chunk \in U /\ F[i].score = score[F[i].chunk]
    BY <1>6, <1>7
  <1>12. \A c \in U : \E i \in DOMAIN F : F[i].chunk = c
    BY <1>6, <1>7
  <1>13. \A i, j \in DOMAIN F : Before(F[i].chunk, F[j].chunk) => i < j
    <2> HIDE DEF Before
    <2> QED
      BY <1>7, <1>10
  <1> QED
    BY <1>8, <1>9, <1>11, <1>12, <1>13 DEF U, F, Fusion

\* Before a chunk that no link has lifted comes, with no smaller score, each chunk
\* that both lists have ahead of it.
Agrees(list, vec, big, graph) ==
    \A j \in DOMAIN list :
        LET d == list[j].chunk IN
        d \notin graph =>
            \A c \in (ToSet(vec) \cup ToSet(big)) \ {d} :
                Ahead(vec, c, d) /\ Ahead(big, c, d) =>
                    \E i \in 1..(j - 1) : list[i].chunk = c /\ list[i].score >= list[j].score

\* The sum over the two lists agrees with them.
LEMMA RrfIs ==
  ASSUME NEW vec \in Seq(Chunk), NEW big \in Seq(Chunk), IsInjective(vec), IsInjective(big)
  PROVE  LET F == Rrf(vec, big)
         IN /\ F \in Seq(Scored) /\ Distinct(F)
            /\ Len(F) = Cardinality(ToSet(vec) \cup ToSet(big))
            /\ ToSet(vec) \cup ToSet(big) \subseteq ChunksOf(F)
            /\ Agrees(F, vec, big, {})
  <1> DEFINE U == ToSet(vec) \cup ToSet(big)
             score == [c \in U |-> Share(vec, c) + Share(big, c)]
             F == Rrf(vec, big)
  <1>1. \A c : Share(vec, c) \in Nat /\ Share(big, c) \in Nat
    BY ShareIs
  <1>2. score \in [U -> Nat]
    BY <1>1
  <1>3. F = Fused(vec, big, score)
    BY DEF Rrf
  <1> HIDE DEF F
  <1>4. /\ F \in Seq(Scored) /\ Len(F) = Cardinality(U) /\ Distinct(F)
        /\ \A i \in DOMAIN F : F[i].chunk \in U /\ F[i].score = score[F[i].chunk]
        /\ \A c \in U : \E i \in DOMAIN F : F[i].chunk = c
        /\ \A i, j \in DOMAIN F :
              ( \/ score[F[i].chunk] > score[F[j].chunk]
                \/ /\ score[F[i].chunk] = score[F[j].chunk]
                   /\ Came(vec, big, F[i].chunk) < Came(vec, big, F[j].chunk) )
                 => i < j
    <2>1. Fusion(F, vec, big, score)
      BY <1>2, <1>3, FusedIs
    <2> QED
      BY <2>1 DEF Fusion
  <1>5. U \subseteq ChunksOf(F)
    BY <1>4 DEF ChunksOf, ToSet
  <1>6. ASSUME NEW j \in DOMAIN F, NEW c \in U \ {F[j].chunk},
               Ahead(vec, c, F[j].chunk), Ahead(big, c, F[j].chunk)
        PROVE  \E i \in 1..(j - 1) : F[i].chunk = c /\ F[i].score >= F[j].score
    <2> DEFINE d == F[j].chunk
    <2>1. d \in U
      BY <1>4
    <2>2. PICK i \in DOMAIN F : F[i].chunk = c
      BY <1>4
    <2>3. /\ Share(vec, d) <= Share(vec, c) /\ Share(big, d) <= Share(big, c)
          /\ d \in ToSet(vec) => c \in ToSet(vec) /\ Place(vec, c) < Place(vec, d)
          /\ d \in ToSet(big) => c \in ToSet(big) /\ Place(big, c) < Place(big, d)
      BY <1>6, ShareOrder
    <2>4. score[d] \in Nat /\ score[c] \in Nat /\ score[d] <= score[c]
      BY <1>1, <2>1, <2>3
    <2>5. Came(vec, big, c) < Came(vec, big, d)
      <3> DEFINE n == Len(vec)
      <3>1. n \in Nat
        OBVIOUS
      <3>2. ASSUME NEW x \in ToSet(vec) PROVE Place(vec, x) \in 1..n
        BY PlaceIs
      <3>3. ASSUME NEW x \in ToSet(big) PROVE Place(big, x) \in Nat \ {0}
        BY PlaceIs
      <3>4. CASE d \in ToSet(vec)
        BY <2>3, <3>4 DEF Came
      <3>5. CASE d \notin ToSet(vec)
        <4>1. d \in ToSet(big) /\ c \in ToSet(big) /\ Place(big, c) < Place(big, d)
          BY <2>1, <2>3, <3>5
        <4>2. Came(vec, big, d) = n + Place(big, d)
          BY <3>5 DEF Came
        <4>3. CASE c \in ToSet(vec)
          <5>1. Came(vec, big, c) = Place(vec, c) /\ Place(vec, c) \in 1..n
            BY <3>2, <4>3 DEF Came
          <5>2. Place(big, d) \in Nat \ {0}
            BY <3>3, <4>1
          <5> HIDE DEF n
          <5> QED
            BY <3>1, <4>2, <5>1, <5>2
        <4>4. CASE c \notin ToSet(vec)
          <5>1. Came(vec, big, c) = n + Place(big, c)
            BY <4>4 DEF Came
          <5>2. Place(big, d) \in Nat \ {0} /\ Place(big, c) \in Nat \ {0}
            BY <3>3, <4>1
          <5> HIDE DEF n
          <5> QED
            BY <3>1, <4>1, <4>2, <5>1, <5>2
        <4> QED
          BY <4>3, <4>4
      <3> QED
        BY <3>4, <3>5
    <2> HIDE DEF score
    <2>6. i < j
      <3>1. score[c] > score[d] \/ score[c] = score[d]
        BY <2>4
      <3> QED
        BY <1>4, <2>2, <2>5, <3>1
    <2>7. F[i].score >= F[j].score
      BY <1>4, <2>2, <2>4
    <2>8. i \in 1..(j - 1)
      BY <1>4, <2>6
    <2> QED
      BY <2>2, <2>7, <2>8
  <1>7. Agrees(F, vec, big, {})
    BY <1>6 DEF Agrees
  <1> QED
    BY <1>4, <1>5, <1>7 DEF F, U

\* Cutting a list keeps its agreement.
LEMMA TopAgrees ==
  ASSUME NEW list \in Seq(Scored), NEW vec, NEW big, NEW graph, NEW k \in Nat,
         Agrees(list, vec, big, graph), Distinct(list)
  PROVE  Agrees(Top(list, k), vec, big, graph) /\ Distinct(Top(list, k))
  <1> DEFINE T == Top(list, k)
  <1>1. /\ T \in Seq(Scored) /\ Len(T) \in Nat
        /\ \A i \in 1..Len(T) : i \in 1..Len(list) /\ T[i] = list[i]
    BY TopIs
  <1>2. DOMAIN T = 1..Len(T) /\ DOMAIN list = 1..Len(list)
    BY <1>1
  <1> HIDE DEF T
  <1>3. Distinct(T)
    BY <1>1, <1>2 DEF Distinct
  <1>4. ASSUME NEW j \in DOMAIN T, T[j].chunk \notin graph,
               NEW c \in (ToSet(vec) \cup ToSet(big)) \ {T[j].chunk},
               Ahead(vec, c, T[j].chunk), Ahead(big, c, T[j].chunk)
        PROVE  \E i \in 1..(j - 1) : T[i].chunk = c /\ T[i].score >= T[j].score
    <2>1. j \in DOMAIN list /\ T[j] = list[j]
      BY <1>1, <1>2
    <2>2. PICK i \in 1..(j - 1) : list[i].chunk = c /\ list[i].score >= list[j].score
      BY <1>4, <2>1 DEF Agrees
    <2>3. i \in 1..Len(T)
      BY <1>1, <1>2
    <2> QED
      BY <1>1, <2>1, <2>2, <2>3
  <1> QED
    BY <1>3, <1>4 DEF Agrees, T

\* So does a bonus for a chunk that a link leads to.
LEMMA RaisedIs ==
  ASSUME NEW list \in Seq(Scored), NEW vec, NEW big, NEW graph, NEW e \in Chunk,
         Agrees(list, vec, big, graph), Distinct(list)
  PROVE  LET T == Raised(list, e)
         IN /\ T \in Seq(Scored) /\ Distinct(T) /\ ChunksOf(list) \subseteq ChunksOf(T)
            /\ Agrees(T, vec, big, graph \cup {e})
  <1> DEFINE T == Raised(list, e)
  <1>1. Bonus \in Nat
    <2>1. RrfK + 1 \in Nat \ {0} /\ RrfK + 1 <= RrfK + 1 /\ Scale \in Nat
      BY SearchAssumption DEF SearchAssumption
    <2> QED
      BY <2>1, Quotients DEF Bonus
  <1>2. Len(list) \in Nat /\ DOMAIN list = 1..Len(list)
    OBVIOUS
  <1>3. \A i \in DOMAIN list : list[i].score \in Nat /\ list[i].chunk \in Chunk
    BY <1>2, ScoredEntry
  <1>4. /\ T \in Seq(Scored) /\ DOMAIN T = 1..Len(T) /\ Len(T) \in Nat
        /\ Len(list) <= Len(T)
        /\ \A i \in DOMAIN list : /\ T[i].chunk = list[i].chunk
                                  /\ T[i].score >= list[i].score
                                  /\ list[i].chunk # e => T[i].score = list[i].score
        /\ \A i \in DOMAIN T \ DOMAIN list : T[i].chunk = e /\ e \notin ChunksOf(list)
        /\ Len(T) <= Len(list) + 1
    <2>1. CASE e \in ChunksOf(list)
      <3> DEFINE up(i) == [list[i] EXCEPT !.score = @ + Bonus]
      <3>1. T = [i \in DOMAIN list |-> IF list[i].chunk = e THEN up(i) ELSE list[i]]
        BY <2>1 DEF Raised
      <3>2. ASSUME NEW i \in DOMAIN list
            PROVE  /\ up(i) \in Scored /\ list[i] \in Scored
                   /\ up(i).chunk = list[i].chunk /\ up(i).score >= list[i].score
        <4>1. list[i] \in Scored
          BY <1>2, ScoredEntry
        <4>2. up(i).chunk = list[i].chunk /\ up(i).score = list[i].score + Bonus
          BY <4>1 DEF Scored
        <4>3. up(i) \in Scored
          BY <1>1, <4>1 DEF Scored
        <4> HIDE DEF up
        <4> QED
          BY <1>1, <1>3, <4>1, <4>2, <4>3
      <3> HIDE DEF T, up
      <3>3. \A i \in DOMAIN list : list[i].score >= list[i].score
        BY <1>3
      <3>4. T \in [1..Len(list) -> Scored]
        BY <1>2, <3>1, <3>2
      <3>5. T \in Seq(Scored) /\ Len(T) = Len(list) /\ DOMAIN T = DOMAIN list
        BY <1>2, <3>4
      <3> QED
        BY <1>2, <3>1, <3>2, <3>3, <3>5
    <2>2. CASE e \notin ChunksOf(list)
      <3> DEFINE x == [chunk |-> e, score |-> Bonus]
      <3>1. T = Append(list, x) /\ x \in Scored /\ x.chunk = e
        BY <1>1, <2>2 DEF Raised, Scored
      <3> HIDE DEF T, x
      <3>2. /\ T \in Seq(Scored) /\ Len(T) = Len(list) + 1 /\ DOMAIN T = 1..(Len(list) + 1)
            /\ T[Len(list) + 1] = x
            /\ \A i \in DOMAIN list : T[i] = list[i]
        BY <1>2, <3>1
      <3>3. \A i \in DOMAIN list : list[i].score >= list[i].score
        BY <1>3
      <3> QED
        BY <1>2, <2>2, <3>1, <3>2, <3>3
    <2> QED
      BY <2>1, <2>2
  <1> HIDE DEF T
  <1>5. \A i \in DOMAIN list : list[i].chunk \in ChunksOf(list)
    BY DEF ChunksOf, ToSet
  <1>6. Distinct(T)
    <2> SUFFICES ASSUME NEW i \in DOMAIN T, NEW j \in DOMAIN T, T[i].chunk = T[j].chunk
                 PROVE  i = j
      BY DEF Distinct
    <2>1. CASE i \in DOMAIN list /\ j \in DOMAIN list
      BY <1>4, <2>1 DEF Distinct
    <2>2. CASE i \notin DOMAIN list /\ j \notin DOMAIN list
      BY <1>2, <1>4, <2>2
    <2>3. CASE ~(i \in DOMAIN list <=> j \in DOMAIN list)
      BY <1>4, <1>5, <2>3
    <2> QED
      BY <2>1, <2>2, <2>3
  <1>7. ChunksOf(list) \subseteq ChunksOf(T)
    <2> SUFFICES ASSUME NEW i \in DOMAIN list PROVE list[i].chunk \in ChunksOf(T)
      BY DEF ChunksOf, ToSet
    <2>1. i \in DOMAIN T /\ T[i].chunk = list[i].chunk
      BY <1>2, <1>4
    <2> QED
      BY <2>1 DEF ChunksOf, ToSet
  <1>8. ASSUME NEW j \in DOMAIN T, T[j].chunk \notin graph \cup {e},
               NEW c \in (ToSet(vec) \cup ToSet(big)) \ {T[j].chunk},
               Ahead(vec, c, T[j].chunk), Ahead(big, c, T[j].chunk)
        PROVE  \E i \in 1..(j - 1) : T[i].chunk = c /\ T[i].score >= T[j].score
    <2>1. j \in DOMAIN list /\ T[j].chunk = list[j].chunk /\ T[j].score = list[j].score
      BY <1>4, <1>8
    <2>2. PICK i \in 1..(j - 1) : list[i].chunk = c /\ list[i].score >= list[j].score
      BY <1>8, <2>1 DEF Agrees
    <2>3. i \in DOMAIN list
      BY <1>2, <2>1
    <2>4. /\ T[i].chunk = c /\ T[i].score >= list[i].score
      BY <1>4, <2>2, <2>3
    <2>5. T[i].score \in Nat
      BY <1>2, <1>4, <2>3, ScoredEntry
    <2>6. T[i].score >= T[j].score
      BY <1>3, <2>1, <2>2, <2>3, <2>4, <2>5
    <2> QED
      BY <2>4, <2>6
  <1>9. Agrees(T, vec, big, graph \cup {e})
    BY <1>8 DEF Agrees
  <1> QED
    BY <1>4, <1>6, <1>7, <1>9 DEF T

-----------------------------------------------------------------------------
(* The invariant                                                           *)

\* The pool was not cut.
Fits(r) == Cardinality(ToSet(r.vec) \cup ToSet(r.big)) <= Candidates

\* AgreementKept for one search.
Kept(r) ==
    \A j \in DOMAIN r.top :
        LET d == r.top[j].chunk IN
        d \notin r.graph =>
            \A c \in (ToSet(r.vec) \cup ToSet(r.big)) \ {d} :
                ( /\ Ahead(r.vec, c, d) /\ Ahead(r.big, c, d)
                  /\ ~r.gate \/ Matches(r, c) )
                => \E i \in 1..(j - 1) : r.top[i].chunk = c

\* Stages after each of the lists.
PastVec == {"bigm", "expand", "nearest", "meta", "found"}
PastBig == PastVec \ {"bigm"}

\* What has been there all the time is in each list that had room, goes from the
\* lists to the pool, from the pool to what is picked, and from there to the hits.
Covers(r) ==
    /\ r.at \in PastVec /\ Len(r.vec) < Candidates => r.steady \subseteq ToSet(r.vec)
    /\ r.at \in PastBig /\ Len(r.big) < Candidates => Similar(r.steady) \subseteq ToSet(r.big)
    /\ r.at \in {"expand", "nearest"} /\ Fits(r) =>
          ToSet(r.vec) \cup ToSet(r.big) \subseteq ChunksOf(r.scores)
    /\ r.at \in {"meta", "found"} /\ Fits(r) /\ Len(r.top) < r.topK =>
          {c \in ToSet(r.vec) \cup ToSet(r.big) : Passes(r, c)} \subseteq ChunksOf(r.top)
    /\ r.at = "found" => r.steady \cap ChunksOf(r.top) \subseteq ChunksOf(r.hits)

\* What is known of a search.
Good(r) ==
    /\ r \in Runs
    /\ IsInjective(r.vec) /\ IsInjective(r.big)
    /\ Distinct(r.scores) /\ Distinct(r.top)
    /\ Len(r.top) <= r.topK
    /\ r.at \notin {"meta", "found"} => r.top = <<>>
    /\ r.at \notin {"expand", "nearest"} => r.scores = <<>>
    /\ Agrees(r.scores, r.vec, r.big, r.graph)
    /\ Kept(r)
    /\ Covers(r)

\* The other variables.
RestOK ==
    /\ stored \in SUBSET Search
    /\ cited \in [Search -> SUBSET Note]
    /\ view \in [Search -> [at : {"none", "messages", "both"}, whole : BOOLEAN,
                             sources : SUBSET Note]]

IInv ==
    /\ NotesOK /\ RestOK
    /\ run \in [Search -> Runs]
    /\ \A s \in Search : Good(run[s]) /\ run[s].steady \subseteq Index

-----------------------------------------------------------------------------
(* Steps of one search                                                     *)

\* The fields of a search.
FieldNames == {"at", "gate", "topK", "vec", "big", "scores", "near", "graph", "top",
               "hits", "shown", "citing", "steady"}

Fields(r) == r = [f \in FieldNames |-> r[f]]

\* Their types.
Typed(r) ==
    /\ r.at \in {"idle"} \cup Stages \cup Over
    /\ r.gate \in BOOLEAN /\ r.topK \in Nat
    /\ r.vec \in Seq(Chunk) /\ r.big \in Seq(Chunk) /\ r.scores \in Seq(Scored)
    /\ r.near \in SUBSET Note /\ r.graph \in SUBSET Chunk
    /\ r.top \in Seq(Scored) /\ r.hits \in Seq(Scored)
    /\ r.shown \in SUBSET [note : Note, score : Nat]
    /\ r.citing \in SUBSET Note /\ r.steady \in SUBSET Chunk

\* A search has these fields with these types.
LEMMA RunTyped ==
  ASSUME NEW r \in Runs
  PROVE  Fields(r) /\ Typed(r)
  <1>1. Fields(r)
    BY DEF Runs, Fields, FieldNames
  <1>2. Typed(r)
    BY DEF Runs, Typed
  <1> QED
    BY <1>1, <1>2

\* And what has them is one.
LEMMA TypedRun ==
  ASSUME NEW r, Fields(r), Typed(r)
  PROVE  r \in Runs
  <1>1. r = [at |-> r.at, gate |-> r.gate, topK |-> r.topK, vec |-> r.vec, big |-> r.big,
             scores |-> r.scores, near |-> r.near, graph |-> r.graph, top |-> r.top,
             hits |-> r.hits, shown |-> r.shown, citing |-> r.citing, steady |-> r.steady]
    BY DEF Fields, FieldNames
  <1> QED
    BY <1>1 DEF Runs, Typed

\* A search that is not under way.
LEMMA IdleGood == Good(Idle)
  <1>1. /\ Idle.at = "idle" /\ Idle.vec = <<>> /\ Idle.big = <<>> /\ Idle.scores = <<>>
        /\ Idle.top = <<>> /\ Idle.topK = 0 /\ Idle.graph = {} /\ Idle \in Runs
    BY DEF Idle, Runs
  <1> QED
    BY <1>1 DEF Good, IsInjective, Distinct, Agrees, Kept, Covers, PastVec, PastBig

\* A search that has no lists yet, or none any more.
LEMMA BareGood ==
  ASSUME NEW r \in Runs, r.vec = <<>>, r.big = <<>>, r.scores = <<>>, r.top = <<>>,
         r.at \notin PastVec
  PROVE  Good(r)
  <1>1. r.topK \in Nat
    BY DEF Runs
  <1>2. Len(r.top) <= r.topK
    BY <1>1
  <1> QED
    BY <1>2 DEF Good, IsInjective, Distinct, Agrees, Kept, Covers, PastVec, PastBig

\* VectorSearch.
LEMMA VectorGood ==
  ASSUME NEW r, Good(r), r.at = "vector", NEW I \in SUBSET Chunk, r.steady \subseteq I,
         NEW vec, Lists(vec, I, Candidates)
  PROVE  LET r2 == [r EXCEPT !.at = "bigm", !.vec = vec]
         IN Good(r2) /\ r2.steady = r.steady
  <1> DEFINE r2 == [r EXCEPT !.at = "bigm", !.vec = vec]
  <1>1. Fields(r) /\ Typed(r)
    BY RunTyped DEF Good
  <1>2. /\ Fields(r2) /\ r2.at = "bigm" /\ r2.gate = r.gate /\ r2.topK = r.topK
        /\ r2.vec = vec /\ r2.big = r.big /\ r2.scores = r.scores /\ r2.near = r.near
        /\ r2.graph = r.graph /\ r2.top = r.top /\ r2.hits = r.hits
        /\ r2.shown = r.shown /\ r2.citing = r.citing /\ r2.steady = r.steady
    BY <1>1 DEF Fields, FieldNames
  <1> HIDE DEF r2
  <1>3. vec \in Seq(Chunk) /\ IsInjective(vec)
    BY DEF Lists
  <1>4. r2 \in Runs
    <2>1. Typed(r2)
      BY <1>1, <1>2, <1>3 DEF Typed, Stages
    <2> QED
      BY <1>2, <2>1, TypedRun
  <1>5. r.top = <<>>
    BY DEF Good
  <1>6. Kept(r2)
    BY <1>2, <1>5 DEF Kept
  <1>7. r.scores = <<>>
    BY DEF Good
  <1>8. Agrees(r2.scores, r2.vec, r2.big, r2.graph)
    BY <1>2, <1>7 DEF Agrees
  <1>9. Covers(r2)
    BY <1>2 DEF Covers, PastVec, PastBig, Lists
  <1>10. Good(r2)
    BY <1>2, <1>3, <1>4, <1>5, <1>6, <1>8, <1>9 DEF Good
  <1> QED
    BY <1>2, <1>10 DEF r2

\* BigmSearch.
LEMMA BigmGood ==
  ASSUME NEW r, Good(r), r.at = "bigm", NEW I \in SUBSET Chunk, r.steady \subseteq I,
         NEW big, Lists(big, Similar(I), Candidates)
  PROVE  LET r2 == [r EXCEPT !.big = big, !.scores = Top(Rrf(r.vec, big), Candidates),
                      !.at = IF r.vec = <<>> /\ big = <<>> THEN "found" ELSE "expand"]
         IN Good(r2) /\ r2.steady = r.steady
  <1> DEFINE none == r.vec = <<>> /\ big = <<>>
             F == Rrf(r.vec, big)
             T == Top(F, Candidates)
             r2 == [r EXCEPT !.big = big, !.scores = T,
                             !.at = IF none THEN "found" ELSE "expand"]
  <1>1. Fields(r) /\ Typed(r)
    BY RunTyped DEF Good
  <1>2. /\ Fields(r2) /\ r2.at = (IF none THEN "found" ELSE "expand")
        /\ r2.gate = r.gate /\ r2.topK = r.topK
        /\ r2.vec = r.vec /\ r2.big = big /\ r2.scores = T /\ r2.near = r.near
        /\ r2.graph = r.graph /\ r2.top = r.top /\ r2.hits = r.hits
        /\ r2.shown = r.shown /\ r2.citing = r.citing /\ r2.steady = r.steady
    BY <1>1 DEF Fields, FieldNames
  <1> HIDE DEF r2
  <1>3. /\ r.vec \in Seq(Chunk) /\ IsInjective(r.vec)
        /\ big \in Seq(Chunk) /\ IsInjective(big)
    <2>1. big \in Seq(Similar(I)) /\ Similar(I) \subseteq Chunk
      BY DEF Lists, Similar
    <2> QED
      BY <1>1, <2>1 DEF Good, Typed, Lists
  <1>4. Candidates \in Nat \ {0}
    BY SearchAssumption DEF SearchAssumption
  <1>5. /\ F \in Seq(Scored) /\ Distinct(F)
        /\ Len(F) = Cardinality(ToSet(r.vec) \cup ToSet(big))
        /\ ToSet(r.vec) \cup ToSet(big) \subseteq ChunksOf(F)
        /\ Agrees(F, r.vec, big, {})
    BY <1>3, RrfIs
  <1> HIDE DEF F
  <1>6. Agrees(F, r.vec, big, r.graph)
    BY <1>5 DEF Agrees
  <1>7. /\ T \in Seq(Scored) /\ Agrees(T, r.vec, big, r.graph) /\ Distinct(T)
        /\ Len(F) <= Candidates => T = F
    <2>1. /\ T \in Seq(Scored) /\ Len(T) = (IF Len(F) < Candidates THEN Len(F) ELSE Candidates)
          /\ \A i \in 1..Len(T) : i \in 1..Len(F) /\ T[i] = F[i]
      BY <1>4, <1>5, TopIs
    <2>2. Agrees(T, r.vec, big, r.graph) /\ Distinct(T)
      BY <1>4, <1>5, <1>6, TopAgrees
    <2>3. Len(F) <= Candidates => T = F
      BY <1>4, <1>5, TopWhole
    <2> QED
      BY <2>1, <2>2, <2>3
  <1>8. none => T = <<>>
    <2> SUFFICES ASSUME none PROVE T = <<>>
      OBVIOUS
    <2>1. ToSet(r.vec) \cup ToSet(big) = {}
      BY DEF ToSet
    <2>2. Len(F) = 0
      BY <1>5, <2>1, FS_EmptySet
    <2>3. F = <<>>
      BY <1>5, <2>2
    <2> QED
      BY <1>4, <1>7, <2>2, <2>3
  <1> HIDE DEF T, none
  <1>9. r2 \in Runs
    <2>1. Typed(r2)
      BY <1>1, <1>2, <1>3, <1>7 DEF Typed, Stages
    <2> QED
      BY <1>2, <2>1, TypedRun
  <1>10. r.top = <<>>
    BY DEF Good
  <1>11. Kept(r2)
    BY <1>2, <1>10 DEF Kept
  <1>12. Covers(r2)
    <2>1. Len(r.vec) < Candidates => r.steady \subseteq ToSet(r.vec)
      BY DEF Good, Covers, PastVec
    <2>2. Len(big) < Candidates => Similar(r.steady) \subseteq ToSet(big)
      BY DEF Lists, Similar
    <2>3. Fits(r2) => ToSet(r.vec) \cup ToSet(big) \subseteq ChunksOf(T)
      BY <1>2, <1>5, <1>7 DEF Fits
    <2>4. r2.at = "found" => ToSet(r.vec) \cup ToSet(big) = {} /\ ChunksOf(r.top) = {}
      BY <1>2, <1>10 DEF none, ToSet, ChunksOf
    <2>5. r2.at \in {"found", "expand"}
      BY <1>2
    <2> QED
      BY <1>2, <2>1, <2>2, <2>3, <2>4, <2>5 DEF Covers
  <1>13. Good(r2)
    <2>1. Len(r2.top) <= r2.topK /\ Distinct(r2.top)
      BY <1>2 DEF Good
    <2>2. r2.at \notin {"expand", "nearest"} => r2.scores = <<>>
      BY <1>2, <1>8
    <2> QED
      BY <1>2, <1>3, <1>7, <1>9, <1>10, <1>11, <1>12, <2>1, <2>2 DEF Good
  <1> QED
    BY <1>2, <1>13 DEF r2, T, F, none

\* Neighbours.
LEMMA NeighboursGood ==
  ASSUME NEW r, Good(r), r.at = "expand", NEW near \in SUBSET Note
  PROVE  LET r2 == [r EXCEPT !.at = "nearest", !.near = near]
         IN Good(r2) /\ r2.steady = r.steady
  <1> DEFINE r2 == [r EXCEPT !.at = "nearest", !.near = near]
  <1>1. Fields(r) /\ Typed(r)
    BY RunTyped DEF Good
  <1>2. /\ Fields(r2) /\ r2.at = "nearest" /\ r2.gate = r.gate /\ r2.topK = r.topK
        /\ r2.vec = r.vec /\ r2.big = r.big /\ r2.scores = r.scores /\ r2.near = near
        /\ r2.graph = r.graph /\ r2.top = r.top /\ r2.hits = r.hits
        /\ r2.shown = r.shown /\ r2.citing = r.citing /\ r2.steady = r.steady
    BY <1>1 DEF Fields, FieldNames
  <1> HIDE DEF r2
  <1>3. r2 \in Runs
    <2>1. Typed(r2)
      BY <1>1, <1>2 DEF Typed, Stages
    <2> QED
      BY <1>2, <2>1, TypedRun
  <1>4. Kept(r2)
    BY <1>2 DEF Good, Kept
  <1>5. Covers(r2)
    BY <1>2 DEF Good, Covers, PastVec, PastBig, Fits
  <1>6. Good(r2)
    BY <1>2, <1>3, <1>4, <1>5 DEF Good
  <1> QED
    BY <1>2, <1>6 DEF r2

\* Nearest, of a neighbour without rows.
LEMMA SkippedGood ==
  ASSUME NEW r, Good(r), r.at = "nearest", NEW n
  PROVE  LET r2 == [r EXCEPT !.near = @ \ {n}]
         IN Good(r2) /\ r2.steady = r.steady
  <1> DEFINE r2 == [r EXCEPT !.near = @ \ {n}]
  <1>1. Fields(r) /\ Typed(r)
    BY RunTyped DEF Good
  <1>2. /\ Fields(r2) /\ r2.at = r.at /\ r2.gate = r.gate /\ r2.topK = r.topK
        /\ r2.vec = r.vec /\ r2.big = r.big /\ r2.scores = r.scores
        /\ r2.near = r.near \ {n}
        /\ r2.graph = r.graph /\ r2.top = r.top /\ r2.hits = r.hits
        /\ r2.shown = r.shown /\ r2.citing = r.citing /\ r2.steady = r.steady
    BY <1>1 DEF Fields, FieldNames
  <1> HIDE DEF r2
  <1>3. r2 \in Runs
    <2>1. Typed(r2)
      BY <1>1, <1>2 DEF Typed
    <2> QED
      BY <1>2, <2>1, TypedRun
  <1>4. Kept(r2)
    BY <1>2 DEF Good, Kept
  <1>5. Covers(r2)
    BY <1>2 DEF Good, Covers, Fits
  <1>6. Good(r2)
    BY <1>2, <1>3, <1>4, <1>5 DEF Good
  <1> QED
    BY <1>2, <1>6 DEF r2

\* Nearest, of one with rows.
LEMMA NearestGood ==
  ASSUME NEW r, Good(r), r.at = "nearest", NEW n, NEW c \in Chunk
  PROVE  LET r2 == [r EXCEPT !.near = @ \ {n}, !.graph = @ \cup {c}, !.scores = Raised(@, c)]
         IN Good(r2) /\ r2.steady = r.steady
  <1> DEFINE T == Raised(r.scores, c)
             r2 == [r EXCEPT !.near = @ \ {n}, !.graph = @ \cup {c}, !.scores = Raised(@, c)]
  <1>1. Fields(r) /\ Typed(r)
    BY RunTyped DEF Good
  <1>2. /\ Fields(r2) /\ r2.at = r.at /\ r2.gate = r.gate /\ r2.topK = r.topK
        /\ r2.vec = r.vec /\ r2.big = r.big /\ r2.scores = T
        /\ r2.near = r.near \ {n}
        /\ r2.graph = r.graph \cup {c} /\ r2.top = r.top /\ r2.hits = r.hits
        /\ r2.shown = r.shown /\ r2.citing = r.citing /\ r2.steady = r.steady
    BY <1>1 DEF Fields, FieldNames
  <1> HIDE DEF r2
  <1>3. /\ T \in Seq(Scored) /\ Distinct(T) /\ ChunksOf(r.scores) \subseteq ChunksOf(T)
        /\ Agrees(T, r.vec, r.big, r.graph \cup {c})
    BY <1>1, RaisedIs DEF Good, Typed
  <1> HIDE DEF T
  <1>4. r2 \in Runs
    <2>1. Typed(r2)
      BY <1>1, <1>2, <1>3 DEF Typed
    <2> QED
      BY <1>2, <2>1, TypedRun
  <1>5. r.top = <<>>
    BY DEF Good
  <1>6. Kept(r2)
    BY <1>2, <1>5 DEF Kept
  <1>7. Covers(r2)
    BY <1>2, <1>3 DEF Good, Covers, Fits
  <1>8. Good(r2)
    BY <1>2, <1>3, <1>4, <1>5, <1>6, <1>7 DEF Good
  <1> QED
    BY <1>2, <1>8 DEF r2

\* Pick.
LEMMA PickGood ==
  ASSUME NEW r, Good(r), r.at = "nearest"
  PROVE  LET top == Chosen(r)
             r2 == [r EXCEPT !.top = top, !.scores = <<>>,
                             !.at = IF top = <<>> THEN "found" ELSE "meta"]
         IN Good(r2) /\ r2.steady = r.steady
  <1> DEFINE T == Chosen(r)
             r2 == [r EXCEPT !.top = T, !.scores = <<>>,
                             !.at = IF T = <<>> THEN "found" ELSE "meta"]
  <1>1. Fields(r) /\ Typed(r)
    BY RunTyped DEF Good
  <1>2. /\ Fields(r2) /\ r2.at = (IF T = <<>> THEN "found" ELSE "meta")
        /\ r2.gate = r.gate /\ r2.topK = r.topK
        /\ r2.vec = r.vec /\ r2.big = r.big /\ r2.scores = <<>> /\ r2.near = r.near
        /\ r2.graph = r.graph /\ r2.top = T /\ r2.hits = r.hits
        /\ r2.shown = r.shown /\ r2.citing = r.citing /\ r2.steady = r.steady
    BY <1>1 DEF Fields, FieldNames
  <1> HIDE DEF r2
  <1>3. r.scores \in Seq(Scored) /\ r.topK \in Nat /\ Distinct(r.scores)
    BY <1>1 DEF Good, Typed
  <1>4. /\ T \in Seq(Scored) /\ Len(T) <= r.topK /\ Distinct(T)
        /\ Len(T) < r.topK =>
              \A i \in DOMAIN r.scores : Passes(r, r.scores[i].chunk) =>
                  r.scores[i].chunk \in ChunksOf(T)
        /\ \A l \in DOMAIN T : \E j \in DOMAIN r.scores :
              /\ T[l] = r.scores[j]
              /\ \A i \in DOMAIN r.scores :
                    Precedes(r.scores, i, j) /\ Passes(r, r.scores[i].chunk) =>
                        \E k \in 1..(l - 1) : T[k] = r.scores[i]
    BY <1>3, ChosenIs
  <1> HIDE DEF T
  <1>5. r2 \in Runs
    <2>1. Typed(r2)
      BY <1>1, <1>2, <1>4 DEF Typed, Stages
    <2> QED
      BY <1>2, <2>1, TypedRun
  <1>6. \A c : Passes(r2, c) <=> Passes(r, c)
    BY <1>2 DEF Passes, Matches
  <1>7. ASSUME NEW l \in DOMAIN T, T[l].chunk \notin r.graph,
               NEW c \in (ToSet(r.vec) \cup ToSet(r.big)) \ {T[l].chunk},
               Ahead(r.vec, c, T[l].chunk), Ahead(r.big, c, T[l].chunk),
               ~r.gate \/ Matches(r, c)
        PROVE  \E k \in 1..(l - 1) : T[k].chunk = c
    <2>1. PICK j \in DOMAIN r.scores :
              /\ T[l] = r.scores[j]
              /\ \A i \in DOMAIN r.scores :
                    Precedes(r.scores, i, j) /\ Passes(r, r.scores[i].chunk) =>
                        \E k \in 1..(l - 1) : T[k] = r.scores[i]
      BY <1>4
    <2>2. PICK i \in 1..(j - 1) :
              r.scores[i].chunk = c /\ r.scores[i].score >= r.scores[j].score
      BY <1>7, <2>1 DEF Good, Agrees
    <2>3. i \in DOMAIN r.scores /\ j \in 1..Len(r.scores) /\ i < j
      BY <1>3, <2>1, <2>2
    <2>4. r.scores[i].score \in Nat /\ r.scores[j].score \in Nat
      BY <1>3, <2>3, ScoredEntry
    <2>5. Precedes(r.scores, i, j)
      BY <2>2, <2>3, <2>4 DEF Precedes
    <2>6. Passes(r, r.scores[i].chunk)
      BY <1>7, <2>2 DEF Passes
    <2> QED
      BY <2>1, <2>2, <2>3, <2>5, <2>6
  <1>8. Kept(r2)
    <2>1. \A c : Matches(r2, c) <=> Matches(r, c)
      BY <1>2 DEF Matches
    <2> QED
      BY <1>2, <1>7, <2>1 DEF Kept
  <1>9. ASSUME Fits(r), Len(T) < r.topK, NEW c \in ToSet(r.vec) \cup ToSet(r.big), Passes(r, c)
        PROVE  c \in ChunksOf(T)
    <2>1. c \in ChunksOf(r.scores)
      BY <1>9 DEF Good, Covers
    <2>2. PICK i \in DOMAIN r.scores : r.scores[i].chunk = c
      BY <2>1 DEF ChunksOf, ToSet
    <2> QED
      BY <1>4, <1>9, <2>2
  <1>10. Covers(r2)
    <2>1. Fits(r2) <=> Fits(r)
      BY <1>2 DEF Fits
    <2>2. r2.at = "found" => ChunksOf(r2.top) = {}
      BY <1>2 DEF ChunksOf, ToSet
    <2>3. r2.at \in {"found", "meta"}
      BY <1>2
    <2>4. /\ Len(r.vec) < Candidates => r.steady \subseteq ToSet(r.vec)
          /\ Len(r.big) < Candidates => Similar(r.steady) \subseteq ToSet(r.big)
      BY DEF Good, Covers, PastVec, PastBig
    <2> QED
      BY <1>2, <1>6, <1>9, <2>1, <2>2, <2>3, <2>4 DEF Covers
  <1>11. Good(r2)
    <2>1. Agrees(r2.scores, r2.vec, r2.big, r2.graph) /\ Distinct(r2.scores)
      BY <1>2 DEF Agrees, Distinct
    <2>2. r2.at \in {"found", "meta"}
      BY <1>2
    <2> QED
      BY <1>2, <1>4, <1>5, <1>8, <1>10, <2>1, <2>2 DEF Good
  <1> QED
    BY <1>2, <1>11 DEF r2, T

\* LoadMeta.
LEMMA MetaGood ==
  ASSUME NEW r, Good(r), r.at = "meta", r.steady \subseteq Index
  PROVE  LET r2 == [r EXCEPT !.at = "found", !.hits = Present(r.top)]
         IN Good(r2) /\ r2.steady = r.steady
  <1> DEFINE hits == Present(r.top)
             r2 == [r EXCEPT !.at = "found", !.hits = hits]
  <1>1. Fields(r) /\ Typed(r)
    BY RunTyped DEF Good
  <1>2. /\ Fields(r2) /\ r2.at = "found" /\ r2.gate = r.gate /\ r2.topK = r.topK
        /\ r2.vec = r.vec /\ r2.big = r.big /\ r2.scores = r.scores /\ r2.near = r.near
        /\ r2.graph = r.graph /\ r2.top = r.top /\ r2.hits = hits
        /\ r2.shown = r.shown /\ r2.citing = r.citing /\ r2.steady = r.steady
    BY <1>1 DEF Fields, FieldNames
  <1> HIDE DEF r2
  <1>3. hits \in Seq(Scored) /\ ChunksOf(r.top) \cap Index \subseteq ChunksOf(hits)
    BY <1>1, PresentIs DEF Typed
  <1> HIDE DEF hits
  <1>4. r2 \in Runs
    <2>1. Typed(r2)
      BY <1>1, <1>2, <1>3 DEF Typed, Stages
    <2> QED
      BY <1>2, <2>1, TypedRun
  <1>5. \A c : Passes(r2, c) <=> Passes(r, c)
    BY <1>2 DEF Passes, Matches
  <1>6. Kept(r2)
    BY <1>2 DEF Good, Kept, Matches
  <1>7. Covers(r2)
    <2>1. Fits(r2) <=> Fits(r)
      BY <1>2 DEF Fits
    <2>2. /\ Len(r.vec) < Candidates => r.steady \subseteq ToSet(r.vec)
          /\ Len(r.big) < Candidates => Similar(r.steady) \subseteq ToSet(r.big)
          /\ Fits(r) /\ Len(r.top) < r.topK =>
                {c \in ToSet(r.vec) \cup ToSet(r.big) : Passes(r, c)} \subseteq ChunksOf(r.top)
      BY DEF Good, Covers, PastVec, PastBig
    <2> QED
      BY <1>2, <1>3, <1>5, <2>1, <2>2 DEF Covers
  <1>8. Good(r2)
    BY <1>2, <1>4, <1>6, <1>7 DEF Good
  <1> QED
    BY <1>2, <1>8 DEF r2, hits

\* A note that changes: what is no longer there is forgotten.
LEMMA ForgetGood ==
  ASSUME NEW r, Good(r), NEW gone
  PROVE  LET r2 == [r EXCEPT !.steady = @ \ gone]
         IN Good(r2) /\ r2.steady = r.steady \ gone
  <1> DEFINE r2 == [r EXCEPT !.steady = @ \ gone]
  <1>1. Fields(r) /\ Typed(r)
    BY RunTyped DEF Good
  <1>2. /\ Fields(r2) /\ r2.at = r.at /\ r2.gate = r.gate /\ r2.topK = r.topK
        /\ r2.vec = r.vec /\ r2.big = r.big /\ r2.scores = r.scores /\ r2.near = r.near
        /\ r2.graph = r.graph /\ r2.top = r.top /\ r2.hits = r.hits
        /\ r2.shown = r.shown /\ r2.citing = r.citing /\ r2.steady = r.steady \ gone
    BY <1>1 DEF Fields, FieldNames
  <1> HIDE DEF r2
  <1>3. r2 \in Runs
    <2>1. Typed(r2)
      BY <1>1, <1>2 DEF Typed
    <2> QED
      BY <1>2, <2>1, TypedRun
  <1>4. \A c : Passes(r2, c) <=> Passes(r, c)
    BY <1>2 DEF Passes, Matches
  <1>5. Kept(r2)
    BY <1>2 DEF Good, Kept, Matches
  <1>6. Covers(r2)
    BY <1>2, <1>4 DEF Good, Covers, Fits, Similar
  <1>7. Good(r2)
    BY <1>2, <1>3, <1>5, <1>6 DEF Good
  <1> QED
    BY <1>2, <1>7 DEF r2

-----------------------------------------------------------------------------
(* The steps of the system                                                 *)

\* Of some scores there is a best one.
LEMMA MaxIs ==
  ASSUME NEW S \in SUBSET Nat, IsFiniteSet(S), S # {}
  PROVE  Max(S) \in S
  <1> DEFINE R == {p \in S \X S : p[1] < p[2]}
             rank == [x \in S |-> Cardinality(Below(S, R, x))]
             f == Listing(S, rank)
             n == Cardinality(S)
  <1>1. StrictOrder(S, R)
    BY DEF StrictOrder
  <1>2. Orders(f, S, R)
    <2> HIDE DEF R
    <2> QED
      BY <1>1, Ranked
  <1> HIDE DEF f
  <1>3. n \in Nat \ {0}
    BY FS_EmptySet, FS_CardinalityType
  <1>4. /\ f \in [1..n -> S] /\ n \in 1..n
        /\ \A x \in S : \E i \in 1..n : f[i] = x
        /\ \A i, j \in 1..n : i < j <=> <<f[i], f[j]>> \in R
    BY <1>2, <1>3 DEF Orders
  <1> HIDE DEF n
  <1>5. ASSUME NEW y \in S PROVE f[n] >= y
    <2>1. PICK i \in 1..n : f[i] = y
      BY <1>4
    <2>2. i < n => f[i] < f[n]
      BY <1>4
    <2>3. i = n \/ i < n
      BY <1>3, <1>4
    <2>4. f[n] \in Nat /\ y \in Nat
      BY <1>4
    <2> QED
      BY <2>1, <2>2, <2>3, <2>4
  <1> QED
    BY <1>4, <1>5 DEF Max

\* The sources are notes with one score each.
LEMMA DedupedIs ==
  ASSUME NEW hits \in Seq(Scored)
  PROVE  Deduped(hits) \subseteq [note : Note, score : Nat]
  <1> DEFINE scores(n) == {x.score : x \in {y \in ToSet(hits) : y.chunk.note = n}}
             entry(n) == [note |-> n, score |-> Max(scores(n))]
             notes == {x.chunk.note : x \in ToSet(hits)}
  <1>1. Deduped(hits) = {entry(n) : n \in notes}
    BY DEF Deduped
  <1>2. IsFiniteSet(ToSet(hits)) /\ ToSet(hits) \subseteq Scored
    BY FiniteList
  <1>3. ASSUME NEW n \in notes PROVE entry(n) \in [note : Note, score : Nat]
    <2>1. PICK x \in ToSet(hits) : x.chunk.note = n
      OBVIOUS
    <2>2. n \in Note
      BY <1>2, <2>1 DEF Scored, Chunk
    <2>3. scores(n) \subseteq Nat /\ x.score \in scores(n)
      BY <1>2, <2>1 DEF Scored
    <2>4. IsFiniteSet(scores(n))
      <3> DEFINE S == {y \in ToSet(hits) : y.chunk.note = n}
                 f == [y \in S |-> y.score]
      <3>1. IsFiniteSet(S)
        BY <1>2, FS_Subset
      <3>2. f \in Surjection(S, scores(n))
        BY DEF Surjection
      <3> QED
        BY <3>1, <3>2, FS_Surjection
    <2>5. Max(scores(n)) \in Nat
      BY <2>3, <2>4, MaxIs
    <2> HIDE DEF scores
    <2> QED
      BY <2>2, <2>5
  <1> HIDE DEF entry, notes
  <1> QED
    BY <1>1, <1>3

\* Initially there are no searches.
LEMMA InitIInv == Init => IInv
  <1> SUFFICES ASSUME Init PROVE IInv
    OBVIOUS
  <1>1. NotesOK
    BY SearchAssumption DEF Init, NotesOK, SearchAssumption
  <1>2. RestOK
    BY DEF Init, RestOK, NotRead
  <1>3. Good(Idle) /\ Idle.steady = {} /\ Idle \in Runs
    BY IdleGood DEF Good, Idle
  <1>4. run = [s \in Search |-> Idle]
    BY DEF Init
  <1> QED
    BY <1>1, <1>2, <1>3, <1>4 DEF IInv

\* A step that changes one search only, and no note.
LEMMA OneRun ==
  ASSUME IInv, NEW s \in Search, NEW r, Set(s, r), Good(r), r.steady \subseteq Index,
         UNCHANGED <<body, version, changes>>, RestOK'
  PROVE  IInv'
  <1>1. r \in Runs
    BY DEF Good
  <1>2. /\ run' \in [Search -> Runs]
        /\ run'[s] = r /\ \A t \in Search : t # s => run'[t] = run[t]
    BY <1>1 DEF IInv, Set
  <1>3. NotesOK' /\ Index' = Index
    BY DEF IInv, NotesOK, Index, Rows
  <1>4. ASSUME NEW t \in Search PROVE Good(run'[t]) /\ run'[t].steady \subseteq Index'
    BY <1>2, <1>3 DEF IInv
  <1>5. ASSUME NEW t \in Search PROVE Good(run[t])' /\ (run[t].steady \subseteq Index)'
    BY <1>4 DEF Good, Kept, Covers, Distinct, Agrees, Fits
  <1> QED
    BY <1>2, <1>3, <1>5 DEF IInv

\* top_k is a limit.
LEMMA ClampIs ==
  ASSUME NEW limit \in Limits
  PROVE  Clamp(limit) \in Nat
  <1>1. limit \in Int /\ DefaultLimit \in Nat /\ McpTopKLimit \in Nat
    BY SearchAssumption DEF SearchAssumption
  <1> QED
    BY <1>1 DEF Clamp

\* The steps of a search up to its sources.
LEMMA FindStep ==
  ASSUME IInv, NEW s \in Search, Find(s)
  PROVE  IInv'
  <1> DEFINE r == run[s]
  <1>1. Good(r) /\ r.steady \subseteq Index /\ NotesOK
    BY DEF IInv
  <1>2. Fields(r) /\ Typed(r)
    BY <1>1, RunTyped DEF Good
  <1>3. Index \subseteq Chunk /\ IsFiniteSet(Index) /\ Keyed(Index)
    BY <1>1, IndexIs
  <1>4. UNCHANGED <<body, version, changes>> /\ RestOK'
    BY DEF Find, Ask, VectorSearch, BigmSearch, Neighbours, Nearest, Pick, LoadMeta,
           Sources, IInv, RestOK
  <1>5. Candidates \in Nat /\ TopK \in Nat
    BY SearchAssumption DEF SearchAssumption
  <1>6. CASE Ask(s)
    <2>1. ASSUME NEW r2, Set(s, r2), Fields(r2), Typed(r2), r2.at = "vector",
                 r2.vec = <<>>, r2.big = <<>>, r2.scores = <<>>, r2.top = <<>>,
                 r2.steady = Index
          PROVE  IInv'
      <3>1. Good(r2)
        BY <2>1, TypedRun, BareGood DEF PastVec
      <3> QED
        BY <1>4, <2>1, <3>1, OneRun
    <2>2. CASE Set(s, [Idle EXCEPT !.at = "vector", !.topK = TopK, !.steady = Index])
      <3> DEFINE r2 == [Idle EXCEPT !.at = "vector", !.topK = TopK, !.steady = Index]
      <3>1. /\ Fields(r2) /\ r2.vec = <<>> /\ r2.big = <<>> /\ r2.scores = <<>>
            /\ r2.top = <<>> /\ r2.at = "vector" /\ r2.steady = Index
        BY DEF Idle, Fields, FieldNames
      <3>2. Typed(r2)
        BY <1>3, <1>5, <3>1 DEF Idle, Typed, Stages
      <3>3. Set(s, r2)
        BY <2>2
      <3> HIDE DEF r2
      <3> QED
        BY <2>1, <3>1, <3>2, <3>3
    <2>3. ASSUME NEW limit \in Limits,
                 Set(s, [Idle EXCEPT !.at = "vector", !.gate = FALSE, !.topK = Clamp(limit),
                                     !.steady = Index])
          PROVE  IInv'
      <3> DEFINE k == Clamp(limit)
                 r2 == [Idle EXCEPT !.at = "vector", !.gate = FALSE, !.topK = k,
                                    !.steady = Index]
      <3>1. Set(s, r2) /\ k \in Nat
        BY <2>3, ClampIs
      <3> HIDE DEF k
      <3>2. /\ Fields(r2) /\ r2.vec = <<>> /\ r2.big = <<>> /\ r2.scores = <<>>
            /\ r2.top = <<>> /\ r2.at = "vector" /\ r2.steady = Index
        BY DEF Idle, Fields, FieldNames
      <3>3. Typed(r2)
        BY <1>3, <3>1, <3>2 DEF Idle, Typed, Stages
      <3> HIDE DEF r2
      <3> QED
        BY <2>1, <3>1, <3>2, <3>3
    <2> QED
      BY <1>6, <2>2, <2>3 DEF Ask
  <1>7. CASE VectorSearch(s)
    <2>1. PICK vec \in ByDistance(Index, Candidates) :
              Set(s, [r EXCEPT !.at = "bigm", !.vec = vec])
      BY <1>7 DEF VectorSearch
    <2>2. Lists(vec, Index, Candidates)
      BY <1>3, <1>5, DistanceLists
    <2>3. r.at = "vector"
      BY <1>7 DEF VectorSearch
    <2> DEFINE r2 == [r EXCEPT !.at = "bigm", !.vec = vec]
    <2>4. Good(r2) /\ r2.steady = r.steady
      BY <1>1, <1>3, <2>2, <2>3, VectorGood
    <2>5. Set(s, r2)
      BY <2>1
    <2> HIDE DEF r2
    <2> QED
      BY <1>1, <1>4, <2>4, <2>5, OneRun
  <1>8. CASE BigmSearch(s)
    <2>1. PICK big \in BySimilarity(Similar(Index), Candidates) :
              Set(s, [r EXCEPT !.big = big, !.scores = Top(Rrf(r.vec, big), Candidates),
                        !.at = IF r.vec = <<>> /\ big = <<>> THEN "found" ELSE "expand"])
      BY <1>8 DEF BigmSearch
    <2>2. /\ Similar(Index) \in SUBSET Chunk /\ IsFiniteSet(Similar(Index))
          /\ Keyed(Similar(Index))
      <3>1. Similar(Index) \in SUBSET Index
        BY DEF Similar
      <3> QED
        BY <1>3, <3>1, FS_Subset DEF Keyed
    <2>3. Lists(big, Similar(Index), Candidates)
      BY <1>5, <2>2, SimilarityLists
    <2>4. r.at = "bigm"
      BY <1>8 DEF BigmSearch
    <2> DEFINE r2 == [r EXCEPT !.big = big, !.scores = Top(Rrf(r.vec, big), Candidates),
                        !.at = IF r.vec = <<>> /\ big = <<>> THEN "found" ELSE "expand"]
    <2>5. Good(r2) /\ r2.steady = r.steady
      BY <1>1, <1>3, <2>3, <2>4, BigmGood
    <2>6. Set(s, r2)
      BY <2>1
    <2> HIDE DEF r2
    <2> QED
      BY <1>1, <1>4, <2>5, <2>6, OneRun
  <1>9. CASE Neighbours(s)
    <2> DEFINE near == LinkedFrom({c.note : c \in ChunksOf(r.scores)})
               r2 == [r EXCEPT !.at = "nearest", !.near = near]
    <2>1. Set(s, r2) /\ r.at = "expand" /\ near \in SUBSET Note
      BY <1>9 DEF Neighbours, LinkedFrom
    <2> HIDE DEF near
    <2>2. Good(r2) /\ r2.steady = r.steady
      BY <1>1, <2>1, NeighboursGood
    <2> HIDE DEF r2
    <2> QED
      BY <1>1, <1>4, <2>1, <2>2, OneRun
  <1>10. CASE Nearest(s)
    <2>1. r.at = "nearest"
      BY <1>10 DEF Nearest
    <2>2. ASSUME NEW n, Set(s, [r EXCEPT !.near = @ \ {n}])
          PROVE  IInv'
      <3> DEFINE r2 == [r EXCEPT !.near = @ \ {n}]
      <3>1. Good(r2) /\ r2.steady = r.steady
        BY <1>1, <2>1, SkippedGood
      <3>2. Set(s, r2)
        BY <2>2
      <3> HIDE DEF r2
      <3> QED
        BY <1>1, <1>4, <3>1, <3>2, OneRun
    <2>3. ASSUME NEW n, NEW c \in Chunk,
                 Set(s, [r EXCEPT !.near = @ \ {n}, !.graph = @ \cup {c},
                                  !.scores = Raised(@, c)])
          PROVE  IInv'
      <3> DEFINE r2 == [r EXCEPT !.near = @ \ {n}, !.graph = @ \cup {c},
                                 !.scores = Raised(@, c)]
      <3>1. Good(r2) /\ r2.steady = r.steady
        BY <1>1, <2>1, NearestGood
      <3>2. Set(s, r2)
        BY <2>3
      <3> HIDE DEF r2
      <3> QED
        BY <1>1, <1>4, <3>1, <3>2, OneRun
    <2>4. PICK n \in r.near :
              \/ Set(s, [r EXCEPT !.near = @ \ {n}])
              \/ \E c \in NearestOf(n) :
                    Set(s, [r EXCEPT !.near = @ \ {n}, !.graph = @ \cup {c},
                                     !.scores = Raised(@, c)])
      BY <1>10 DEF Nearest
    <2>5. NearestOf(n) \subseteq Chunk
      BY <1>1, <1>2, RowsAre DEF NearestOf, Typed
    <2> QED
      BY <2>2, <2>3, <2>4, <2>5
  <1>11. CASE Pick(s)
    <2> DEFINE top == Chosen(r)
               r2 == [r EXCEPT !.top = top, !.scores = <<>>,
                               !.at = IF top = <<>> THEN "found" ELSE "meta"]
    <2>1. Set(s, r2) /\ r.at = "nearest"
      BY <1>11 DEF Pick
    <2>2. Good(r2) /\ r2.steady = r.steady
      BY <1>1, <2>1, PickGood
    <2> HIDE DEF r2
    <2> QED
      BY <1>1, <1>4, <2>1, <2>2, OneRun
  <1>12. CASE LoadMeta(s)
    <2> DEFINE r2 == [r EXCEPT !.at = "found", !.hits = Present(r.top)]
    <2>1. Set(s, r2) /\ r.at = "meta"
      BY <1>12 DEF LoadMeta
    <2>2. Good(r2) /\ r2.steady = r.steady
      BY <1>1, <2>1, MetaGood
    <2> HIDE DEF r2
    <2> QED
      BY <1>1, <1>4, <2>1, <2>2, OneRun
  <1>13. CASE Sources(s)
    <2> DEFINE shown == Deduped(r.hits)
               r2 == [Idle EXCEPT !.at = IF r.gate THEN "answer" ELSE "results",
                                  !.hits = r.hits, !.shown = shown]
    <2>1. Set(s, r2)
      BY <1>13 DEF Sources
    <2>2. r.hits \in Seq(Scored) /\ shown \subseteq [note : Note, score : Nat]
      BY <1>2, DedupedIs DEF Typed
    <2> HIDE DEF shown
    <2>3. /\ r2.vec = <<>> /\ r2.big = <<>> /\ r2.scores = <<>> /\ r2.top = <<>>
          /\ r2.at \in {"answer", "results"} /\ r2.steady = {}
      BY DEF Idle
    <2>4. r2 \in Runs
      <3>1. Fields(r2)
        BY DEF Idle, Fields, FieldNames
      <3>2. Typed(r2)
        BY <2>2, <2>3 DEF Idle, Typed, Stages, Over
      <3> HIDE DEF r2
      <3> QED
        BY <3>1, <3>2, TypedRun
    <2> HIDE DEF r2
    <2>5. Good(r2)
      BY <2>3, <2>4, BareGood DEF PastVec
    <2> QED
      BY <1>4, <2>1, <2>3, <2>5, OneRun
  <1> QED
    BY <1>6, <1>7, <1>8, <1>9, <1>10, <1>11, <1>12, <1>13 DEF Find

\* Saving an answer, citing and failing leave the lists alone, or drop them.
LEMMA AnswerStep ==
  ASSUME IInv, NEW s \in Search, SaveAnswer(s) \/ Cite(s) \/ CommitCitations(s) \/ Fail(s)
  PROVE  IInv'
  <1> DEFINE r == run[s]
  <1>1. Good(r) /\ r.steady \subseteq Index /\ RestOK
    BY DEF IInv
  <1>2. Fields(r) /\ Typed(r)
    BY <1>1, RunTyped DEF Good
  <1>3. UNCHANGED <<body, version, changes>>
    BY DEF SaveAnswer, Cite, CommitCitations, Fail
  <1>4. RestOK'
    <2>1. stored' \in SUBSET Search /\ view' = view
      BY <1>1 DEF SaveAnswer, Cite, CommitCitations, Fail, RestOK
    <2>2. cited' = cited \/ cited' = [cited EXCEPT ![s] = r.citing]
      BY DEF SaveAnswer, Cite, CommitCitations, Fail
    <2>3. r.citing \in SUBSET Note
      BY <1>2 DEF Typed
    <2>4. cited' \in [Search -> SUBSET Note]
      BY <1>1, <2>2, <2>3 DEF RestOK
    <2> QED
      BY <1>1, <2>1, <2>4 DEF RestOK
  <1>5. ASSUME NEW citing \in SUBSET Note, r.at \in {"answer", "cite"},
               NEW r2, Set(s, r2), Fields(r2), r2.at = "cite", r2.gate = r.gate,
               r2.topK = r.topK, r2.vec = r.vec, r2.big = r.big, r2.scores = r.scores,
               r2.near = r.near, r2.graph = r.graph, r2.top = r.top, r2.hits = r.hits,
               r2.shown = r.shown, r2.citing = citing, r2.steady = r.steady
        PROVE  IInv'
    <2>1. Typed(r2)
      BY <1>2, <1>5 DEF Typed, Stages
    <2>2. r2 \in Runs
      BY <1>5, <2>1, TypedRun
    <2>3. Kept(r2) /\ Covers(r2)
      <3>1. r.top = <<>>
        BY <1>1, <1>5 DEF Good
      <3> QED
        BY <1>5, <3>1 DEF Kept, Covers, PastVec, PastBig
    <2>4. Good(r2)
      BY <1>1, <1>5, <2>2, <2>3 DEF Good
    <2> QED
      BY <1>1, <1>3, <1>4, <1>5, <2>4, OneRun
  <1>6. ASSUME NEW outcome \in Over, End(s, outcome)
        PROVE  IInv'
    <2> DEFINE r2 == [Idle EXCEPT !.at = outcome, !.shown = r.shown]
    <2>1. /\ Set(s, r2) /\ Fields(r2) /\ r2.at = outcome /\ r2.shown = r.shown
          /\ r2.vec = <<>> /\ r2.big = <<>> /\ r2.scores = <<>> /\ r2.top = <<>>
          /\ r2.steady = {}
      BY <1>6 DEF End, Idle, Fields, FieldNames
    <2>2. Typed(r2)
      BY <1>2, <2>1 DEF Idle, Typed, Over
    <2> HIDE DEF r2
    <2>3. Good(r2)
      BY <2>1, <2>2, TypedRun, BareGood DEF PastVec, Over
    <2> QED
      BY <1>3, <1>4, <2>1, <2>3, OneRun
  <1>7. CASE SaveAnswer(s)
    <2> DEFINE r2 == [r EXCEPT !.at = "cite"]
    <2>1. Set(s, r2) /\ r.at = "answer" /\ r.citing \in SUBSET Note
      BY <1>2, <1>7 DEF SaveAnswer, Goto, Typed
    <2>2. /\ Fields(r2) /\ r2.at = "cite" /\ r2.gate = r.gate
          /\ r2.topK = r.topK /\ r2.vec = r.vec /\ r2.big = r.big /\ r2.scores = r.scores
          /\ r2.near = r.near /\ r2.graph = r.graph /\ r2.top = r.top /\ r2.hits = r.hits
          /\ r2.shown = r.shown /\ r2.citing = r.citing /\ r2.steady = r.steady
      BY <1>2 DEF Fields, FieldNames
    <2> HIDE DEF r2
    <2> QED
      BY <1>5, <2>1, <2>2
  <1>8. CASE Cite(s)
    <2>1. PICK n \in Note : IF body[n] # NoBody
                            THEN Set(s, [r EXCEPT !.citing = @ \cup {n}])
                            ELSE End(s, "failed")
      BY <1>8 DEF Cite
    <2>2. CASE Set(s, [r EXCEPT !.citing = @ \cup {n}])
      <3> DEFINE r2 == [r EXCEPT !.citing = @ \cup {n}]
      <3>1. Set(s, r2) /\ r.at = "cite" /\ r.citing \cup {n} \in SUBSET Note
        BY <1>2, <1>8, <2>2 DEF Cite, Typed
      <3>2. /\ Fields(r2) /\ r2.at = r.at /\ r2.gate = r.gate
            /\ r2.topK = r.topK /\ r2.vec = r.vec /\ r2.big = r.big
            /\ r2.scores = r.scores /\ r2.near = r.near /\ r2.graph = r.graph
            /\ r2.top = r.top /\ r2.hits = r.hits /\ r2.shown = r.shown
            /\ r2.citing = r.citing \cup {n} /\ r2.steady = r.steady
        BY <1>2 DEF Fields, FieldNames
      <3> HIDE DEF r2
      <3> QED
        BY <1>5, <3>1, <3>2
    <2>3. CASE End(s, "failed")
      BY <1>6, <2>3 DEF Over
    <2> QED
      BY <2>1, <2>2, <2>3
  <1>9. CASE CommitCitations(s) \/ Fail(s)
    BY <1>6, <1>9 DEF CommitCitations, Fail, Over
  <1> QED
    BY <1>7, <1>8, <1>9

\* Reading a conversation does not touch any search.
LEMMA ReadStep ==
  ASSUME IInv, NEW s \in Search, ReadMessages(s) \/ ReadCitations(s)
  PROVE  IInv'
  <1>1. UNCHANGED <<body, version, changes, run, stored, cited>>
    BY DEF ReadMessages, ReadCitations
  <1>2. view' \in [Search -> [at : {"none", "messages", "both"}, whole : BOOLEAN,
                               sources : SUBSET Note]]
    <2>1. view[s] \in [at : {"none", "messages", "both"}, whole : BOOLEAN,
                        sources : SUBSET Note]
      BY DEF IInv, RestOK
    <2>2. cited[s] \in SUBSET Note
      BY DEF IInv, RestOK
    <2> QED
      BY <2>1, <2>2 DEF IInv, RestOK, ReadMessages, ReadCitations
  <1>3. NotesOK' /\ Index' = Index /\ RestOK'
    BY <1>1, <1>2 DEF IInv, NotesOK, RestOK, Index, Rows
  <1> QED
    BY <1>1, <1>3 DEF IInv

\* A note that changes leaves the rows of the others alone, and its own are forgotten.
LEMMA ChangeStep ==
  ASSUME IInv, NEW n \in Note, DeleteNote(n) \/ \E b \in Body : SaveNote(n, b)
  PROVE  IInv'
  <1>1. /\ Forget(Rows(n)) /\ UNCHANGED <<stored, cited, view>> /\ MayChange
        /\ version' = [version EXCEPT ![n] = @ + 1]
        /\ \E b \in Body \cup {NoBody} : body' = [body EXCEPT ![n] = b]
    BY DEF DeleteNote, SaveNote
  <1>2. NotesOK'
    <2>1. Changes \in Nat /\ NotesOK
      BY SearchAssumption DEF SearchAssumption, IInv
    <2>2. changes' = changes + 1 /\ changes' \in 0..Changes
      BY <1>1, <2>1 DEF MayChange, NotesOK
    <2>3. version' \in [Note -> 0..changes']
      BY <1>1, <2>1, <2>2 DEF NotesOK
    <2>4. body' \in [Note -> Body \cup {NoBody}]
      BY <1>1, <2>1 DEF NotesOK
    <2> QED
      BY <2>2, <2>3, <2>4 DEF NotesOK
  <1>3. Index \ Rows(n) \subseteq Index'
    <2> SUFFICES ASSUME NEW c \in Index, c \notin Rows(n) PROVE c \in Index'
      OBVIOUS
    <2>1. PICK m \in Note : c \in Rows(m)
      BY DEF Index
    <2>2. m # n /\ body'[m] = body[m] /\ version'[m] = version[m]
      BY <1>1, <2>1 DEF IInv, NotesOK
    <2>3. Rows(m)' = Rows(m)
      BY <2>2 DEF Rows
    <2> QED
      BY <2>1, <2>3 DEF Index
  <1>4. ASSUME NEW s \in Search
        PROVE  Good(run'[s]) /\ run'[s].steady \subseteq Index'
    <2> DEFINE r == run[s]
               gone == Rows(n)
               r2 == [r EXCEPT !.steady = @ \ gone]
    <2>1. run'[s] = r2
      BY <1>1 DEF Forget
    <2>2. Good(r) /\ r.steady \subseteq Index
      BY DEF IInv
    <2> HIDE DEF gone
    <2>3. Good(r2) /\ r2.steady = r.steady \ gone
      BY <2>2, ForgetGood
    <2> HIDE DEF r2
    <2> QED
      BY <1>3, <2>1, <2>2, <2>3 DEF gone
  <1>5. run' \in [Search -> Runs]
    <2>1. \A s \in Search : run'[s] \in Runs
      BY <1>4 DEF Good
    <2>2. run' = [s \in Search |-> run'[s]]
      BY <1>1 DEF Forget
    <2> QED
      BY <2>1, <2>2
  <1>6. RestOK'
    BY <1>1 DEF IInv, RestOK
  <1>7. \A s \in Search : Good(run[s])' /\ (run[s].steady \subseteq Index)'
    BY <1>4 DEF Good, Kept, Covers, Distinct, Agrees, Fits
  <1> QED
    BY <1>2, <1>5, <1>6, <1>7 DEF IInv

-----------------------------------------------------------------------------
(* Theorems                                                                *)

\* Every step keeps the invariant.
THEOREM Inductive == Spec => []IInv
  <1>1. IInv /\ [Next]_vars => IInv'
    <2> SUFFICES ASSUME IInv, [Next]_vars PROVE IInv'
      OBVIOUS
    <2>1. CASE UNCHANGED vars
      <3>1. Index' = Index /\ NotesOK' /\ RestOK' /\ run' = run
        BY <2>1 DEF vars, IInv, Index, Rows, NotesOK, RestOK
      <3> QED
        BY <3>1 DEF IInv
    <2> QED
      BY <2>1, FindStep, AnswerStep, ReadStep, ChangeStep DEF Next
  <1> QED
    BY <1>1, InitIInv, PTL DEF Spec

\* Every value has its type, the lists of a search have no chunk twice, and there
\* are at most top_k hits, each of another chunk.
THEOREM TypeCorrect == Spec => []TypeOK
  <1>1. IInv => TypeOK
    <2> SUFFICES ASSUME IInv PROVE TypeOK
      OBVIOUS
    <2>1. /\ body \in [Note -> Body \cup {NoBody}]
          /\ version \in [Note -> 0..Changes] /\ changes \in 0..Changes
      BY SearchAssumption DEF IInv, NotesOK, SearchAssumption
    <2>2. ASSUME NEW s \in Search
          PROVE  /\ IsInjective(run[s].vec) /\ IsInjective(run[s].big)
                 /\ Cardinality(ChunksOf(run[s].top)) = Len(run[s].top)
                 /\ Len(run[s].top) <= run[s].topK
      <3> DEFINE r == run[s]
      <3>1. Good(r)
        BY DEF IInv
      <3>2. r.top \in Seq(Scored) /\ Distinct(r.top)
        BY <3>1, RunTyped DEF Good, Typed
      <3> QED
        BY <3>1, <3>2, DistinctCount DEF Good
    <2> QED
      BY <2>1, <2>2 DEF IInv, RestOK, TypeOK
  <1> QED
    BY <1>1, Inductive, PTL

\* What both lists put first is picked first, whatever the sizes of the lists, the
\* distances, the similarities and the limits are, and whatever the links lift.
THEOREM AgreementKeptHolds == Spec => []AgreementKept
  <1>1. IInv => AgreementKept
    BY DEF IInv, Good, Kept, AgreementKept
  <1> QED
    BY <1>1, Inductive, PTL

\* What a search wants and what has been in the index all the time is among its
\* hits, unless there were too many, whatever changes meanwhile.
THEOREM NothingRelevantDroppedHolds == Spec => []NothingRelevantDropped
  <1>1. IInv => NothingRelevantDropped
    <2> SUFFICES ASSUME IInv, NEW s \in Search, run[s].at = "found",
                        Len(run[s].top) < run[s].topK,
                        Cardinality(ToSet(run[s].vec) \cup ToSet(run[s].big)) <= Candidates,
                        NEW c \in run[s].steady, Wanted(run[s], c)
                 PROVE  c \in ChunksOf(run[s].hits)
      BY DEF NothingRelevantDropped
    <2> DEFINE r == run[s]
    <2>1. Good(r) /\ Fits(r)
      BY DEF IInv, Fits
    <2>2. c \in Chunk
      BY <2>1, RunTyped DEF Good, Typed
    <2>3. /\ Len(r.vec) < Candidates => r.steady \subseteq ToSet(r.vec)
          /\ Len(r.big) < Candidates => Similar(r.steady) \subseteq ToSet(r.big)
          /\ {x \in ToSet(r.vec) \cup ToSet(r.big) : Passes(r, x)} \subseteq ChunksOf(r.top)
          /\ r.steady \cap ChunksOf(r.top) \subseteq ChunksOf(r.hits)
      BY <2>1 DEF Good, Covers, PastVec, PastBig
    <2>4. Sim[c.text] \in Int /\ BigmKeep \in Int /\ BigmLimit \in Int /\ BigmLimit <= BigmKeep
      BY <2>2, SearchAssumption DEF SearchAssumption, Chunk
    <2>5. CASE Dist[c.text] <= VecDist /\ (Len(r.vec) < Candidates \/ c \in ToSet(r.vec))
      BY <2>3, <2>5 DEF Passes, Matches
    <2>6. CASE Sim[c.text] >= BigmKeep /\ (Len(r.big) < Candidates \/ c \in ToSet(r.big))
      <3>1. c \in Similar(r.steady)
        BY <2>4, <2>6 DEF Similar
      <3> QED
        BY <2>3, <2>6, <3>1 DEF Passes, Matches
    <2> QED
      BY <2>5, <2>6 DEF Wanted
  <1> QED
    BY <1>1, Inductive, PTL

=============================================================================
