-------------------------- MODULE Discovery_proofs --------------------------
(***************************************************************************)
(* Boot discovery keeps its promise to the coordinator on every machine    *)
(* whose tables and files are finite, with any number of disks, partitions *)
(* and loop devices, and lists only entries that can be loaded.            *)
(*                                                                         *)
(* The first parts say what the pure operators compute: that a set with a  *)
(* strict total order is listed by rank, that the stable sort of a list    *)
(* without repetitions is that listing, and what the parsers of the boot   *)
(* files make of a partition. The invariant then follows each boot         *)
(* partition through the tasks. TaskInv: a disk's task has it in one       *)
(* place. TaskHolds, ScanInv: as long as a nested one is needed, the file  *)
(* in its candidate keeps its loop device on it, so what is mounted is the *)
(* partition the candidate names. Unraced, Pending: one that no other disk *)
(* competes with is not lost. ListInv: the list is the sorted list of the  *)
(* entries of the partitions received.                                     *)
(***************************************************************************)
EXTENDS Discovery, FiniteSetTheorems, SequenceTheorems, WellFoundedInduction, TLAPS

-----------------------------------------------------------------------------
(* Order. A finite set with a strict total order R is listed by rank. *)

Strict(S, R) ==
    /\ \A a \in S : <<a, a>> \notin R
    /\ \A a, b, c \in S : <<a, b>> \in R /\ <<b, c>> \in R => <<a, c>> \in R
    /\ \A a, b \in S : a # b => <<a, b>> \in R \/ <<b, a>> \in R

Below(S, R, e) == {f \in S : <<f, e>> \in R}
Rank(S, R, e) == Cardinality(Below(S, R, e))

\* A nonempty set of natural numbers has a least element.
LEMMA LeastNat ==
  ASSUME NEW M, M \subseteq Nat, M # {}
  PROVE  \E x \in M : \A y \in M : x <= y
<1>1. PICK x \in M : \A y \in M : ~(<<y, x>> \in OpToRel(<, Nat))
  BY NatLessThanWellFounded, WFMin
<1>2. \A y \in M : ~(y < x)
  BY <1>1 DEF OpToRel
<1> QED
  BY <1>2

\* Ranks grow with the order.
LEMMA RankGrows ==
  ASSUME NEW S, IsFiniteSet(S), NEW R, Strict(S, R),
         NEW a \in S, NEW b \in S, <<a, b>> \in R
  PROVE  Rank(S, R, a) < Rank(S, R, b)
<1>1. Below(S, R, a) \cup {a} \in SUBSET Below(S, R, b)
  BY DEF Below, Strict
<1>2. a \notin Below(S, R, a)
  BY DEF Below, Strict
<1>3. Below(S, R, a) \in SUBSET S /\ Below(S, R, b) \in SUBSET S
  BY DEF Below
<1>4. IsFiniteSet(Below(S, R, a)) /\ IsFiniteSet(Below(S, R, b))
  BY <1>3, FS_Subset
<1>5. Cardinality(Below(S, R, a) \cup {a}) = Cardinality(Below(S, R, a)) + 1
  BY <1>2, <1>4, FS_AddElement
<1>6. Cardinality(Below(S, R, a) \cup {a}) <= Cardinality(Below(S, R, b))
  BY <1>1, <1>4, FS_Subset
<1>7. Cardinality(Below(S, R, a)) \in Nat /\ Cardinality(Below(S, R, b)) \in Nat
  BY <1>4, FS_CardinalityType
<1> QED
  BY <1>5, <1>6, <1>7 DEF Rank

\* Ranks are counted from nought, and every rank is that of one element.
LEMMA Ranks ==
  ASSUME NEW S, IsFiniteSet(S), NEW R, Strict(S, R)
  PROVE  /\ Cardinality(S) \in Nat
         /\ \A e \in S : Rank(S, R, e) \in 0 .. Cardinality(S) - 1
         /\ \A a, b \in S : Rank(S, R, a) = Rank(S, R, b) => a = b
         /\ \A a, b \in S : Rank(S, R, a) < Rank(S, R, b) => <<a, b>> \in R
         /\ \A r \in 0 .. Cardinality(S) - 1 : \E e \in S : Rank(S, R, e) = r
<1>1. Cardinality(S) \in Nat
  BY FS_CardinalityType
<1>2. ASSUME NEW e \in S PROVE Rank(S, R, e) \in 0 .. Cardinality(S) - 1
  <2>1. Below(S, R, e) \in SUBSET S /\ Below(S, R, e) # S
    BY DEF Below, Strict
  <2>2. /\ IsFiniteSet(Below(S, R, e)) /\ Cardinality(Below(S, R, e)) <= Cardinality(S)
        /\ Cardinality(S) # Cardinality(Below(S, R, e))
    BY <2>1, FS_Subset
  <2>3. Cardinality(Below(S, R, e)) \in Nat
    BY <2>2, FS_CardinalityType
  <2> QED
    BY <1>1, <2>2, <2>3 DEF Rank
<1>3. \A e \in S : Rank(S, R, e) \in Int
  BY <1>2
<1>4. ASSUME NEW a \in S, NEW b \in S, Rank(S, R, a) = Rank(S, R, b) PROVE a = b
  <2>1. <<a, b>> \in R => Rank(S, R, a) < Rank(S, R, b)
    BY RankGrows
  <2>2. <<b, a>> \in R => Rank(S, R, b) < Rank(S, R, a)
    BY RankGrows
  <2> QED
    BY <1>3, <1>4, <2>1, <2>2 DEF Strict
<1>5. ASSUME NEW a \in S, NEW b \in S, Rank(S, R, a) < Rank(S, R, b) PROVE <<a, b>> \in R
  <2>1. <<b, a>> \in R => Rank(S, R, b) < Rank(S, R, a)
    BY RankGrows
  <2>2. a # b
    BY <1>3, <1>5
  <2> QED
    BY <1>3, <1>5, <2>1, <2>2 DEF Strict
<1>6. ASSUME NEW r \in 0 .. Cardinality(S) - 1 PROVE \E e \in S : Rank(S, R, e) = r
  <2> DEFINE f == [e \in S |-> Rank(S, R, e)]
             T == 0 .. Cardinality(S) - 1
  <2>1. f \in Injection(S, T)
    <3>1. f \in [S -> T]
      BY <1>2
    <3>2. \A a, b \in S : f[a] = f[b] => a = b
      BY <1>4
    <3> QED
      BY <3>1, <3>2 DEF Injection, IsInjective
  <2>2. IsFiniteSet(T) /\ Cardinality(T) = Cardinality(S)
    <3>1. 0 \in Int /\ Cardinality(S) - 1 \in Int
      BY <1>1
    <3>2. /\ IsFiniteSet(T)
          /\ Cardinality(T) = IF 0 > Cardinality(S) - 1 THEN 0 ELSE Cardinality(S) - 1 - 0 + 1
      BY <3>1, FS_Interval
    <3> QED
      BY <1>1, <3>2
  <2>3. f \in Surjection(S, T)
    <3> HIDE DEF f, T
    <3> QED
      BY <2>1, <2>2, FS_Injection
  <2> QED
    BY <2>3 DEF Surjection
<1> QED
  BY <1>1, <1>2, <1>4, <1>5, <1>6

\* What a list by rank is.
Listed(L, S, R) ==
    /\ Cardinality(S) \in Nat /\ L \in [1 .. Cardinality(S) -> S]
    /\ \A i, j \in 1 .. Cardinality(S) : i < j => <<L[i], L[j]>> \in R
    /\ \A i, j \in 1 .. Cardinality(S) : L[i] = L[j] => i = j
    /\ \A e \in S : \E i \in 1 .. Cardinality(S) : L[i] = e
    /\ \A i \in 1 .. Cardinality(S) : Rank(S, R, L[i]) = i - 1

\* Each number is given the element with as many before it.
LEMMA ListedByRank ==
  ASSUME NEW S, IsFiniteSet(S), NEW R, Strict(S, R),
         NEW L, L = [i \in 1 .. Cardinality(S) |-> L[i]],
         \A i \in 1 .. Cardinality(S) :
            (\E e \in S : Rank(S, R, e) = i - 1) => L[i] \in S /\ Rank(S, R, L[i]) = i - 1
  PROVE  Listed(L, S, R)
<1> DEFINE N == Cardinality(S)
<1> DEFINE k(e) == Rank(S, R, e)
<1>1. /\ N \in Nat
      /\ \A e \in S : k(e) \in 0 .. N - 1
      /\ \A a, b \in S : k(a) = k(b) => a = b
      /\ \A a, b \in S : k(a) < k(b) => <<a, b>> \in R
      /\ \A r \in 0 .. N - 1 : \E e \in S : k(e) = r
  BY Ranks
<1> HIDE DEF N, k
<1>0. /\ L = [i \in 1 .. N |-> L[i]]
      /\ \A i \in 1 .. N : (\E e \in S : k(e) = i - 1) => L[i] \in S /\ k(L[i]) = i - 1
  BY DEF N, k
<1>2. ASSUME NEW i \in 1 .. N PROVE L[i] \in S /\ k(L[i]) = i - 1
  <2>1. i - 1 \in 0 .. N - 1
    BY <1>1
  <2>2. \E e \in S : k(e) = i - 1
    BY <1>1, <2>1
  <2> QED
    BY <1>0, <2>2
<1>3. L \in [1 .. N -> S]
  BY <1>0, <1>2
<1>4. ASSUME NEW i \in 1 .. N, NEW j \in 1 .. N, i < j PROVE <<L[i], L[j]>> \in R
  <2>1. L[i] \in S /\ L[j] \in S /\ k(L[i]) = i - 1 /\ k(L[j]) = j - 1
    BY <1>2
  <2>2. k(L[i]) < k(L[j])
    BY <1>1, <1>4, <2>1
  <2> QED
    BY <1>1, <2>1, <2>2
<1>5. ASSUME NEW i \in 1 .. N, NEW j \in 1 .. N, L[i] = L[j] PROVE i = j
  <2>1. i - 1 = j - 1
    BY <1>2, <1>5
  <2> QED
    BY <1>1, <2>1
<1>6. ASSUME NEW e \in S PROVE \E i \in 1 .. N : L[i] = e
  <2>1. PICK i \in 1 .. N : i - 1 = k(e)
    <3>1. k(e) \in 0 .. N - 1
      BY <1>1
    <3>2. k(e) + 1 \in 1 .. N /\ (k(e) + 1) - 1 = k(e)
      BY <1>1, <3>1
    <3> QED
      BY <3>2
  <2>2. L[i] \in S /\ k(L[i]) = k(e)
    BY <1>2, <2>1
  <2> QED
    BY <1>1, <2>2
<1>7. \A i \in 1 .. N : Rank(S, R, L[i]) = i - 1
  BY <1>2 DEF k
<1>8. N = Cardinality(S)
  BY DEF N
<1> QED
  BY <1>1, <1>3, <1>4, <1>5, <1>6, <1>7, <1>8 DEF Listed

LessIn(S) == {p \in S \X S : p[1] < p[2]}

\* The list of the numbers of a set.
LEMMA AscendingListed ==
  ASSUME NEW S, IsFiniteSet(S), S \subseteq Nat
  PROVE  Listed(Ascending(S), S, LessIn(S))
<1> DEFINE R == LessIn(S)
<1>1. \A a, b \in S : <<a, b>> \in R <=> a < b
  BY DEF LessIn
<1> HIDE DEF R
<1>2. Strict(S, R)
  BY <1>1 DEF Strict
<1>3. \A e \in S : {m \in S : m < e} = Below(S, R, e)
  BY <1>1 DEF Below
<1>4. \A e \in S : Cardinality({m \in S : m < e}) = Rank(S, R, e)
  BY <1>3 DEF Rank
<1>5. Listed(Ascending(S), S, R)
  <2> DEFINE c(e) == Cardinality({m \in S : m < e})
  <2> DEFINE L == Ascending(S)
  <2>1. L = [i \in 1 .. Cardinality(S) |-> CHOOSE e \in S : c(e) = i - 1]
    BY DEF Ascending
  <2>2. \A e \in S : c(e) = Rank(S, R, e)
    BY <1>4
  <2> HIDE DEF c, L
  <2>3. ASSUME NEW i \in 1 .. Cardinality(S), \E e \in S : Rank(S, R, e) = i - 1
        PROVE  L[i] \in S /\ Rank(S, R, L[i]) = i - 1
    BY <2>1, <2>2, <2>3
  <2>4. L = [i \in 1 .. Cardinality(S) |-> L[i]]
    BY <2>1
  <2>5. Listed(L, S, R)
    BY <1>2, <2>3, <2>4, ListedByRank
  <2> QED
    BY <2>5 DEF L
<1> QED
  BY <1>5 DEF R

-----------------------------------------------------------------------------
(* Sorting. Keys of the same length are compared number by number. *)

\* No key is before itself.
LEMMA LexIrreflexive ==
  ASSUME NEW n \in Nat, NEW k \in [1 .. n -> Int]
  PROVE  ~Lexicographic(k, k)
  BY DEF Lexicographic

\* The order of keys is transitive: the earlier of two first differences counts.
LEMMA LexTransitive ==
  ASSUME NEW n \in Nat, NEW k \in [1 .. n -> Int], NEW l \in [1 .. n -> Int], NEW m \in [1 .. n -> Int],
         Lexicographic(k, l), Lexicographic(l, m)
  PROVE  Lexicographic(k, m)
<1>1. PICK i \in 1 .. n : k[i] < l[i] /\ \A x \in 1 .. (i - 1) : k[x] = l[x]
  BY DEF Lexicographic
<1>2. PICK j \in 1 .. n : l[j] < m[j] /\ \A x \in 1 .. (j - 1) : l[x] = m[x]
  BY DEF Lexicographic
<1>3. \A x \in 1 .. n : k[x] \in Int /\ l[x] \in Int /\ m[x] \in Int
  OBVIOUS
<1>4. CASE i < j
  <2>1. i \in 1 .. (j - 1) /\ \A x \in 1 .. (i - 1) : x \in 1 .. (j - 1)
    BY <1>4
  <2>2. k[i] < m[i] /\ \A x \in 1 .. (i - 1) : k[x] = m[x]
    BY <1>1, <1>2, <1>3, <2>1
  <2> QED
    BY <2>2 DEF Lexicographic
<1>5. CASE j < i
  <2>1. j \in 1 .. (i - 1) /\ \A x \in 1 .. (j - 1) : x \in 1 .. (i - 1)
    BY <1>5
  <2>2. k[j] < m[j] /\ \A x \in 1 .. (j - 1) : k[x] = m[x]
    BY <1>1, <1>2, <1>3, <2>1
  <2> QED
    BY <2>2 DEF Lexicographic
<1>6. CASE i = j
  <2>1. k[i] < m[i] /\ \A x \in 1 .. (i - 1) : k[x] = m[x]
    BY <1>1, <1>2, <1>3, <1>6
  <2> QED
    BY <2>1 DEF Lexicographic
<1> QED
  BY <1>4, <1>5, <1>6

\* Keys that differ are ordered by their first difference.
LEMMA LexTotal ==
  ASSUME NEW n \in Nat, NEW k \in [1 .. n -> Int], NEW l \in [1 .. n -> Int], k # l
  PROVE  Lexicographic(k, l) \/ Lexicographic(l, k)
<1> DEFINE M == {i \in 1 .. n : k[i] # l[i]}
<1>1. M \subseteq Nat /\ M # {}
  OBVIOUS
<1>2. PICK i \in M : \A j \in M : i <= j
  <2> HIDE DEF M
  <2> QED
    BY <1>1, LeastNat
<1>3. i \in 1 .. n /\ k[i] # l[i] /\ \A j \in 1 .. (i - 1) : k[j] = l[j]
  <2>1. ASSUME NEW j \in 1 .. (i - 1) PROVE k[j] = l[j]
    <3>1. i \in 1 .. n /\ j \in 1 .. n /\ ~(i <= j)
      OBVIOUS
    <3> QED
      BY <1>2, <3>1
  <2> QED
    BY <2>1
<1>4. k[i] \in Int /\ l[i] \in Int
  BY <1>3
<1>5. k[i] < l[i] \/ l[i] < k[i]
  BY <1>3, <1>4
<1> QED
  BY <1>3, <1>5 DEF Lexicographic

\* How a stable sort orders positions, when key[i] is the key of position i.
Stable(D, key) ==
    {p \in D \X D : IF p[1] < p[2] THEN ~Lexicographic(key[p[2]], key[p[1]])
                    ELSE Lexicographic(key[p[1]], key[p[2]])}

\* It orders them strictly and totally.
LEMMA StableStrict ==
  ASSUME NEW n \in Nat, NEW D \in SUBSET Int, NEW key \in [D -> [1 .. n -> Int]]
  PROVE  Strict(D, Stable(D, key))
<1> DEFINE P(i, j) == IF i < j THEN ~Lexicographic(key[j], key[i]) ELSE Lexicographic(key[i], key[j])
<1>1. \A i, j \in D : <<i, j>> \in Stable(D, key) <=> P(i, j)
  BY DEF Stable
<1>2. \A i \in D : key[i] \in [1 .. n -> Int] /\ i \in Int
  OBVIOUS
<1>3. \A i, j \in D : ~(Lexicographic(key[i], key[j]) /\ Lexicographic(key[j], key[i]))
  BY <1>2, LexIrreflexive, LexTransitive
<1>4. \A i, j \in D : ~Lexicographic(key[i], key[j]) /\ ~Lexicographic(key[j], key[i]) => key[i] = key[j]
  BY <1>2, LexTotal
<1>5. \A i, j, k \in D : Lexicographic(key[i], key[j]) /\ Lexicographic(key[j], key[k])
                           => Lexicographic(key[i], key[k])
  BY <1>2, LexTransitive
<1>6. \A i \in D : ~P(i, i)
  BY <1>2, LexIrreflexive
<1>7. ASSUME NEW i \in D, NEW j \in D, i # j PROVE P(i, j) \/ P(j, i)
  BY <1>2, <1>3, <1>7
<1>8. ASSUME NEW i \in D, NEW j \in D, NEW k \in D, P(i, j), P(j, k) PROVE P(i, k)
  <2>1. i \in Int /\ j \in Int /\ k \in Int
    BY <1>2
  <2>2. Lexicographic(key[i], key[j]) \/ (key[i] = key[j] /\ i < j)
    BY <1>4, <1>8
  <2>3. Lexicographic(key[j], key[k]) \/ (key[j] = key[k] /\ j < k)
    BY <1>4, <1>8
  <2>4. Lexicographic(key[i], key[k]) \/ (key[i] = key[k] /\ i < k)
    BY <1>5, <2>1, <2>2, <2>3
  <2>5. ~Lexicographic(key[i], key[i])
    BY <1>2, LexIrreflexive
  <2>6. CASE Lexicographic(key[i], key[k])
    BY <1>3, <2>6
  <2>7. CASE key[i] = key[k] /\ i < k
    BY <2>5, <2>7
  <2> QED
    BY <2>4, <2>6, <2>7
<1> HIDE DEF P
<1> QED
  BY <1>1, <1>6, <1>7, <1>8 DEF Strict

\* A sequence with the numbers of its positions, and their stable order.
Pairs(s) == {<<i, s[i]>> : i \in DOMAIN s}
PairOrder(s, key) == {r \in Pairs(s) \X Pairs(s) : <<r[1][1], r[2][1]>> \in Stable(DOMAIN s, key)}

\* What sorting s by the keys of its positions gives.
Sorted(t, s, key) ==
    \E perm \in [DOMAIN s -> DOMAIN s] :
        /\ \A i, j \in DOMAIN s : perm[i] = perm[j] => i = j
        /\ \A i \in DOMAIN s : \E j \in DOMAIN s : perm[j] = i
        /\ t = [i \in DOMAIN s |-> s[perm[i]]]
        /\ \A i, j \in DOMAIN s : i < j => <<perm[i], perm[j]>> \in Stable(DOMAIN s, key)

\* A position has one element.
LEMMA SamePosition ==
  ASSUME NEW s, NEW p \in Pairs(s), NEW q \in Pairs(s), p[1] = q[1]
  PROVE  p = q
<1>1. PICK i \in DOMAIN s : p = <<i, s[i]>>
  BY DEF Pairs
<1>2. PICK j \in DOMAIN s : q = <<j, s[j]>>
  BY DEF Pairs
<1> QED
  BY <1>1, <1>2

\* The numbered elements are as many as the positions, and totally ordered.
LEMMA PairsOrdered ==
  ASSUME NEW n \in Nat, NEW w \in Nat, NEW s, DOMAIN s = 1 .. n, NEW key \in [1 .. n -> [1 .. w -> Int]]
  PROVE  /\ IsFiniteSet(Pairs(s)) /\ Cardinality(Pairs(s)) = n
         /\ Strict(Pairs(s), PairOrder(s, key))
<1>1. IsFiniteSet(Pairs(s)) /\ Cardinality(Pairs(s)) = n
  <2> DEFINE f == [i \in 1 .. n |-> <<i, s[i]>>]
  <2>1. f \in Injection(1 .. n, Pairs(s)) /\ f \in Surjection(1 .. n, Pairs(s))
    <3>1. f \in [1 .. n -> Pairs(s)]
      BY DEF Pairs
    <3>2. \A i, j \in 1 .. n : f[i] = f[j] => i = j
      OBVIOUS
    <3>3. \A p \in Pairs(s) : \E i \in 1 .. n : f[i] = p
      BY DEF Pairs
    <3> QED
      BY <3>1, <3>2, <3>3 DEF Injection, IsInjective, Surjection
  <2>2. ExistsBijection(1 .. n, Pairs(s))
    BY <2>1 DEF ExistsBijection, Bijection
  <2>3. IsFiniteSet(1 .. n) /\ Cardinality(1 .. n) = n
    BY FS_Interval
  <2> QED
    BY <2>2, <2>3, FS_Bijection
<1>2. Strict(1 .. n, Stable(1 .. n, key))
  <2>1. 1 .. n \in SUBSET Int
    OBVIOUS
  <2> QED
    BY <2>1, StableStrict
<1>3. \A p, q \in Pairs(s) : <<p, q>> \in PairOrder(s, key) <=> <<p[1], q[1]>> \in Stable(1 .. n, key)
  BY DEF PairOrder
<1>4. \A p \in Pairs(s) : p[1] \in 1 .. n
  BY DEF Pairs
<1>5. \A p, q \in Pairs(s) : p # q => p[1] # q[1]
  BY SamePosition
<1>6. Strict(Pairs(s), PairOrder(s, key))
  BY <1>2, <1>3, <1>4, <1>5 DEF Strict
<1> QED
  BY <1>1, <1>6

\* Listing the numbered elements in their order sorts the sequence.
LEMMA ListedIsSorted ==
  ASSUME NEW n \in Nat, NEW w \in Nat, NEW s, DOMAIN s = 1 .. n, NEW key \in [1 .. n -> [1 .. w -> Int]],
         NEW L, Listed(L, Pairs(s), PairOrder(s, key))
  PROVE  Sorted([k \in DOMAIN L |-> L[k][2]], s, key)
<1> DEFINE perm == [i \in 1 .. n |-> L[i][1]]
<1>1. Cardinality(Pairs(s)) = n
  BY PairsOrdered
<1>2. /\ DOMAIN L = 1 .. n /\ \A i \in 1 .. n : L[i] \in Pairs(s)
      /\ \A i, j \in 1 .. n : i < j => <<L[i], L[j]>> \in PairOrder(s, key)
      /\ \A i, j \in 1 .. n : L[i] = L[j] => i = j
      /\ \A e \in Pairs(s) : \E i \in 1 .. n : L[i] = e
  BY <1>1 DEF Listed
<1>3. \A i \in 1 .. n : L[i][1] \in 1 .. n /\ L[i][2] = s[L[i][1]]
  BY <1>2 DEF Pairs
<1>4. perm \in [1 .. n -> 1 .. n]
  BY <1>3
<1>5. \A p, q \in Pairs(s) : p[1] = q[1] => p = q
  BY SamePosition
<1>6. \A i, j \in 1 .. n : perm[i] = perm[j] => i = j
  BY <1>2, <1>5
<1>7. ASSUME NEW i \in 1 .. n PROVE \E j \in 1 .. n : perm[j] = i
  <2>1. <<i, s[i]>> \in Pairs(s)
    BY DEF Pairs
  <2>2. PICK j \in 1 .. n : L[j] = <<i, s[i]>>
    BY <1>2, <2>1
  <2> QED
    BY <2>2
<1>8. [k \in DOMAIN L |-> L[k][2]] = [i \in 1 .. n |-> s[perm[i]]]
  BY <1>2, <1>3
<1>9. \A i, j \in 1 .. n : i < j => <<perm[i], perm[j]>> \in Stable(1 .. n, key)
  BY <1>2 DEF PairOrder
<1> QED
  <2> HIDE DEF perm
  <2> QED
    BY <1>4, <1>6, <1>7, <1>8, <1>9 DEF Sorted

\* Candidates are sorted by their keys.
LEMMA CandidatesSorted ==
  ASSUME NEW n \in Nat, NEW s, DOMAIN s = 1 .. n, NEW w \in Nat,
         NEW key \in [1 .. n -> [1 .. w -> Int]], \A i \in 1 .. n : key[i] = CandidateKey(s[i])
  PROVE  Sorted(sort_by(s, CandidateBefore), s, key)
<1> DEFINE Q(p, q) == IF p[1] < q[1] THEN ~CandidateBefore(q[2], p[2]) ELSE CandidateBefore(p[2], q[2])
<1> DEFINE S == Pairs(s)
<1> DEFINE R == PairOrder(s, key)
<1> DEFINE L == [i \in 1 .. Cardinality(S) |-> CHOOSE e \in S : Cardinality({f \in S : Q(f, e)}) = i - 1]
<1>1. sort_by(s, CandidateBefore) = [k \in DOMAIN L |-> L[k][2]]
  BY DEF sort_by, InOrder, Pairs
<1>2. IsFiniteSet(S) /\ Strict(S, R)
  BY PairsOrdered
<1>3. ASSUME NEW p \in S, NEW q \in S PROVE <<p, q>> \in R <=> Q(p, q)
  <2>1. p[1] \in 1 .. n /\ q[1] \in 1 .. n /\ p[2] = s[p[1]] /\ q[2] = s[q[1]]
    BY DEF Pairs
  <2>2. <<p, q>> \in R <=> <<p[1], q[1]>> \in Stable(1 .. n, key)
    BY DEF PairOrder
  <2>3. key[p[1]] = CandidateKey(p[2]) /\ key[q[1]] = CandidateKey(q[2])
    BY <2>1
  <2> QED
    BY <2>1, <2>2, <2>3 DEF Stable, CandidateBefore
<1> HIDE DEF Q, S, R
<1>4. \A e \in S : {f \in S : Q(f, e)} = Below(S, R, e)
  BY <1>3 DEF Below
<1>5. \A e \in S : Cardinality({f \in S : Q(f, e)}) = Rank(S, R, e)
  BY <1>4 DEF Rank
<1> DEFINE c(e) == Cardinality({f \in S : Q(f, e)})
<1>6. L = [i \in 1 .. Cardinality(S) |-> CHOOSE e \in S : c(e) = i - 1] /\ \A e \in S : c(e) = Rank(S, R, e)
  BY <1>5
<1> HIDE DEF L, c
<1>7. ASSUME NEW i \in 1 .. Cardinality(S), \E e \in S : Rank(S, R, e) = i - 1
      PROVE  L[i] \in S /\ Rank(S, R, L[i]) = i - 1
  BY <1>6, <1>7
<1>8. L = [i \in 1 .. Cardinality(S) |-> L[i]]
  BY <1>6
<1>9. Listed(L, S, R)
  BY <1>2, <1>7, <1>8, ListedByRank
<1>10. Listed(L, Pairs(s), PairOrder(s, key))
  BY <1>9 DEF S, R
<1>11. Sorted([k \in DOMAIN L |-> L[k][2]], s, key)
  BY <1>10, ListedIsSorted
<1> QED
  BY <1>1, <1>11

\* Entries are sorted by their keys.
LEMMA EntriesSorted ==
  ASSUME NEW n \in Nat, NEW s, DOMAIN s = 1 .. n, NEW w \in Nat,
         NEW key \in [1 .. n -> [1 .. w -> Int]], \A i \in 1 .. n : key[i] = EntryKey(s[i])
  PROVE  Sorted(sort_by(s, EntryBefore), s, key)
<1> DEFINE Q(p, q) == IF p[1] < q[1] THEN ~EntryBefore(q[2], p[2]) ELSE EntryBefore(p[2], q[2])
<1> DEFINE S == Pairs(s)
<1> DEFINE R == PairOrder(s, key)
<1> DEFINE L == [i \in 1 .. Cardinality(S) |-> CHOOSE e \in S : Cardinality({f \in S : Q(f, e)}) = i - 1]
<1>1. sort_by(s, EntryBefore) = [k \in DOMAIN L |-> L[k][2]]
  BY DEF sort_by, InOrder, Pairs
<1>2. IsFiniteSet(S) /\ Strict(S, R)
  BY PairsOrdered
<1>3. ASSUME NEW p \in S, NEW q \in S PROVE <<p, q>> \in R <=> Q(p, q)
  <2>1. p[1] \in 1 .. n /\ q[1] \in 1 .. n /\ p[2] = s[p[1]] /\ q[2] = s[q[1]]
    BY DEF Pairs
  <2>2. <<p, q>> \in R <=> <<p[1], q[1]>> \in Stable(1 .. n, key)
    BY DEF PairOrder
  <2>3. key[p[1]] = EntryKey(p[2]) /\ key[q[1]] = EntryKey(q[2])
    BY <2>1
  <2> QED
    BY <2>1, <2>2, <2>3 DEF Stable, EntryBefore
<1> HIDE DEF Q, S, R
<1>4. \A e \in S : {f \in S : Q(f, e)} = Below(S, R, e)
  BY <1>3 DEF Below
<1>5. \A e \in S : Cardinality({f \in S : Q(f, e)}) = Rank(S, R, e)
  BY <1>4 DEF Rank
<1> DEFINE c(e) == Cardinality({f \in S : Q(f, e)})
<1>6. L = [i \in 1 .. Cardinality(S) |-> CHOOSE e \in S : c(e) = i - 1] /\ \A e \in S : c(e) = Rank(S, R, e)
  BY <1>5
<1> HIDE DEF L, c
<1>7. ASSUME NEW i \in 1 .. Cardinality(S), \E e \in S : Rank(S, R, e) = i - 1
      PROVE  L[i] \in S /\ Rank(S, R, L[i]) = i - 1
  BY <1>6, <1>7
<1>8. L = [i \in 1 .. Cardinality(S) |-> L[i]]
  BY <1>6
<1>9. Listed(L, S, R)
  BY <1>2, <1>7, <1>8, ListedByRank
<1>10. Listed(L, Pairs(s), PairOrder(s, key))
  BY <1>9 DEF S, R
<1>11. Sorted([k \in DOMAIN L |-> L[k][2]], s, key)
  BY <1>10, ListedIsSorted
<1> QED
  BY <1>1, <1>11

\* A list of all of S, in order.
Increasing(t, n, S, R) ==
    /\ t \in [1 .. n -> S] /\ \A e \in S : \E i \in 1 .. n : t[i] = e
    /\ \A i, j \in 1 .. n : i < j => <<t[i], t[j]>> \in R

\* A list in which each element comes after all that are before it has each
\* at the place of its rank.
LEMMA IncreasingByRank ==
  ASSUME NEW S, NEW R, Strict(S, R), NEW n \in Nat, NEW t, Increasing(t, n, S, R)
  PROVE  /\ IsFiniteSet(S) /\ Cardinality(S) = n
         /\ \A i \in 1 .. n : Rank(S, R, t[i]) = i - 1
<1> USE DEF Increasing
<1>1. \A i, j \in 1 .. n : <<t[i], t[j]>> \in R => i < j
  <2> SUFFICES ASSUME NEW i \in 1 .. n, NEW j \in 1 .. n, <<t[i], t[j]>> \in R, ~(i < j) PROVE FALSE
    OBVIOUS
  <2>1. t[i] \in S /\ t[j] \in S
    OBVIOUS
  <2>2. CASE i = j
    BY <2>1, <2>2 DEF Strict
  <2>3. CASE j < i
    <3>1. <<t[j], t[i]>> \in R
      BY <2>3
    <3> QED
      BY <2>1, <3>1 DEF Strict
  <2> QED
    BY <2>2, <2>3
<1>2. \A i, j \in 1 .. n : t[i] = t[j] => i = j
  <2> SUFFICES ASSUME NEW i \in 1 .. n, NEW j \in 1 .. n, t[i] = t[j], i # j PROVE FALSE
    OBVIOUS
  <2>1. i < j \/ j < i
    OBVIOUS
  <2>2. <<t[i], t[i]>> \in R
    BY <2>1
  <2> QED
    BY <2>2 DEF Strict
<1>3. ASSUME NEW T, NEW m \in Nat, m <= n, T = {t[j] : j \in 1 .. m}
      PROVE  IsFiniteSet(T) /\ Cardinality(T) = m
  <2> DEFINE f == [j \in 1 .. m |-> t[j]]
  <2>1. f \in Injection(1 .. m, T) /\ f \in Surjection(1 .. m, T)
    <3>1. f \in [1 .. m -> T]
      BY <1>3
    <3>2. \A i, j \in 1 .. m : f[i] = f[j] => i = j
      BY <1>2, <1>3
    <3>3. \A e \in T : \E j \in 1 .. m : f[j] = e
      BY <1>3
    <3> QED
      BY <3>1, <3>2, <3>3 DEF Injection, IsInjective, Surjection
  <2>2. ExistsBijection(1 .. m, T)
    BY <2>1 DEF ExistsBijection, Bijection
  <2>3. IsFiniteSet(1 .. m) /\ Cardinality(1 .. m) = m
    BY FS_Interval
  <2> QED
    BY <2>2, <2>3, FS_Bijection
<1>4. S = {t[j] : j \in 1 .. n}
  OBVIOUS
<1>5. IsFiniteSet(S) /\ Cardinality(S) = n
  <2>1. n <= n
    OBVIOUS
  <2> QED
    BY <1>3, <1>4, <2>1
<1>6. ASSUME NEW i \in 1 .. n PROVE Rank(S, R, t[i]) = i - 1
  <2>1. Below(S, R, t[i]) = {t[j] : j \in 1 .. (i - 1)}
    <3>1. ASSUME NEW e \in Below(S, R, t[i]) PROVE e \in {t[j] : j \in 1 .. (i - 1)}
      <4>1. PICK j \in 1 .. n : t[j] = e
        BY DEF Below
      <4>2. <<t[j], t[i]>> \in R
        BY <4>1 DEF Below
      <4>3. j \in 1 .. (i - 1)
        BY <1>1, <4>2
      <4> QED
        BY <4>1, <4>3
    <3>2. ASSUME NEW j \in 1 .. (i - 1) PROVE t[j] \in Below(S, R, t[i])
      <4>1. j \in 1 .. n /\ j < i
        OBVIOUS
      <4> QED
        BY <4>1 DEF Below
    <3> QED
      BY <3>1, <3>2
  <2>2. i - 1 \in Nat /\ i - 1 <= n
    OBVIOUS
  <2> QED
    BY <1>3, <2>1, <2>2 DEF Rank
<1> QED
  BY <1>5, <1>6

\* Entries with keys of their own are totally ordered.
Keyed(X) ==
    /\ \A e \in X : EntryKey(e) \in [1 .. 8 -> Int]
    /\ \A e, f \in X : EntryKey(e) = EntryKey(f) => e = f

EntryOrder(X) == {p \in X \X X : EntryBefore(p[1], p[2])}

\* By the lexicographic order of their keys.
LEMMA EntriesStrict ==
  ASSUME NEW X, Keyed(X)
  PROVE  Strict(X, EntryOrder(X))
<1>1. \A e, f \in X : <<e, f>> \in EntryOrder(X) <=> Lexicographic(EntryKey(e), EntryKey(f))
  BY DEF EntryOrder, EntryBefore
<1>2. \A e \in X : EntryKey(e) \in [1 .. 8 -> Int]
  BY DEF Keyed
<1>3. \A e \in X : <<e, e>> \notin EntryOrder(X)
  BY <1>1, <1>2, LexIrreflexive
<1>4. \A a, b, c \in X : <<a, b>> \in EntryOrder(X) /\ <<b, c>> \in EntryOrder(X) => <<a, c>> \in EntryOrder(X)
  <2> SUFFICES ASSUME NEW a \in X, NEW b \in X, NEW c \in X,
                      Lexicographic(EntryKey(a), EntryKey(b)), Lexicographic(EntryKey(b), EntryKey(c))
               PROVE  Lexicographic(EntryKey(a), EntryKey(c))
    BY <1>1
  <2>1. 8 \in Nat
    OBVIOUS
  <2> QED
    BY <1>2, <2>1, LexTransitive
<1>5. \A a, b \in X : a # b => <<a, b>> \in EntryOrder(X) \/ <<b, a>> \in EntryOrder(X)
  <2> SUFFICES ASSUME NEW a \in X, NEW b \in X, a # b
               PROVE  Lexicographic(EntryKey(a), EntryKey(b)) \/ Lexicographic(EntryKey(b), EntryKey(a))
    BY <1>1
  <2>1. EntryKey(a) # EntryKey(b)
    BY DEF Keyed
  <2>2. 8 \in Nat
    OBVIOUS
  <2> QED
    BY <1>2, <2>1, <2>2, LexTotal
<1> QED
  BY <1>3, <1>4, <1>5 DEF Strict

\* InOrder lists them.
LEMMA EntriesListed ==
  ASSUME NEW X, IsFiniteSet(X), Keyed(X)
  PROVE  Listed(InOrder(X, EntryBefore), X, EntryOrder(X))
<1> DEFINE R == EntryOrder(X)
<1> DEFINE c(e) == Cardinality({f \in X : EntryBefore(f, e)})
<1> DEFINE L == InOrder(X, EntryBefore)
<1>1. Strict(X, R)
  BY EntriesStrict
<1>2. \A e \in X : {f \in X : EntryBefore(f, e)} = Below(X, R, e)
  BY DEF Below, EntryOrder
<1>3. \A e \in X : c(e) = Rank(X, R, e)
  BY <1>2 DEF Rank
<1>4. L = [i \in 1 .. Cardinality(X) |-> CHOOSE e \in X : c(e) = i - 1]
  BY DEF InOrder
<1> HIDE DEF L, c, R
<1>5. ASSUME NEW i \in 1 .. Cardinality(X), \E e \in X : Rank(X, R, e) = i - 1
      PROVE  L[i] \in X /\ Rank(X, R, L[i]) = i - 1
  BY <1>3, <1>4, <1>5
<1>6. L = [i \in 1 .. Cardinality(X) |-> L[i]]
  BY <1>4
<1>7. Listed(L, X, R)
  BY <1>1, <1>5, <1>6, ListedByRank
<1> QED
  BY <1>7 DEF L, R

\* Sorting a list of such entries, each once, gives the list by rank.
LEMMA SortIsListing ==
  ASSUME NEW X, IsFiniteSet(X), Keyed(X), NEW n \in Nat, NEW s \in [1 .. n -> X],
         \A i, j \in 1 .. n : s[i] = s[j] => i = j,
         \A e \in X : \E i \in 1 .. n : s[i] = e
  PROVE  sort_by(s, EntryBefore) = InOrder(X, EntryBefore)
<1> DEFINE key == [i \in 1 .. n |-> EntryKey(s[i])]
<1> DEFINE t == sort_by(s, EntryBefore)
<1> DEFINE L == InOrder(X, EntryBefore)
<1>1. key \in [1 .. n -> [1 .. 8 -> Int]] /\ \A i \in 1 .. n : key[i] = EntryKey(s[i])
  BY DEF Keyed
<1>2. Sorted(t, s, key)
  <2> HIDE DEF key
  <2> QED
    BY <1>1, EntriesSorted
<1>3. PICK perm \in [1 .. n -> 1 .. n] :
        /\ \A i, j \in 1 .. n : perm[i] = perm[j] => i = j
        /\ \A i \in 1 .. n : \E j \in 1 .. n : perm[j] = i
        /\ t = [i \in 1 .. n |-> s[perm[i]]]
        /\ \A i, j \in 1 .. n : i < j => <<perm[i], perm[j]>> \in Stable(1 .. n, key)
  <2> HIDE DEF key, t
  <2> QED
    BY <1>2 DEF Sorted
<1> HIDE DEF t, L
<1>4. t \in [1 .. n -> X] /\ \A e \in X : \E i \in 1 .. n : t[i] = e
  <2>1. \A i \in 1 .. n : t[i] = s[perm[i]] /\ perm[i] \in 1 .. n
    BY <1>3
  <2>2. t \in [1 .. n -> X]
    BY <1>3
  <2>3. ASSUME NEW e \in X PROVE \E i \in 1 .. n : t[i] = e
    <3>1. PICK j \in 1 .. n : s[j] = e
      OBVIOUS
    <3>2. PICK i \in 1 .. n : perm[i] = j
      BY <1>3
    <3> QED
      BY <2>1, <3>1, <3>2
  <2> QED
    BY <2>2, <2>3
<1>5. ASSUME NEW i \in 1 .. n, NEW j \in 1 .. n, i < j PROVE <<t[i], t[j]>> \in EntryOrder(X)
  <2> DEFINE a == perm[i]
  <2> DEFINE b == perm[j]
  <2>1. a \in 1 .. n /\ b \in 1 .. n /\ a # b /\ t[i] = s[a] /\ t[j] = s[b]
    BY <1>3, <1>5
  <2>2. <<a, b>> \in Stable(1 .. n, key)
    BY <1>3, <1>5
  <2> HIDE DEF a, b
  <2>3. key[a] = EntryKey(s[a]) /\ key[b] = EntryKey(s[b]) /\ s[a] \in X /\ s[b] \in X /\ s[a] # s[b]
    BY <2>1
  <2>4. EntryKey(s[a]) # EntryKey(s[b])
    BY <2>3 DEF Keyed
  <2>5. 8 \in Nat /\ EntryKey(s[a]) \in [1 .. 8 -> Int] /\ EntryKey(s[b]) \in [1 .. 8 -> Int]
    BY <2>3 DEF Keyed
  <2>6. Lexicographic(EntryKey(s[a]), EntryKey(s[b])) \/ Lexicographic(EntryKey(s[b]), EntryKey(s[a]))
    BY <2>4, <2>5, LexTotal
  <2>7. Lexicographic(EntryKey(s[a]), EntryKey(s[b]))
    <3>1. Lexicographic(key[a], key[b]) \/ ~Lexicographic(key[b], key[a])
      BY <2>2 DEF Stable
    <3> QED
      BY <2>3, <2>6, <3>1
  <2> QED
    BY <2>1, <2>3, <2>7 DEF EntryOrder, EntryBefore
<1>6. Strict(X, EntryOrder(X))
  BY EntriesStrict
<1>7. Cardinality(X) = n /\ \A i \in 1 .. n : Rank(X, EntryOrder(X), t[i]) = i - 1
  <2>1. Increasing(t, n, X, EntryOrder(X))
    BY <1>4, <1>5 DEF Increasing
  <2> QED
    BY <1>6, <2>1, IncreasingByRank
<1>8. L \in [1 .. n -> X] /\ \A i \in 1 .. n : Rank(X, EntryOrder(X), L[i]) = i - 1
  <2>1. Listed(L, X, EntryOrder(X))
    BY EntriesListed DEF L
  <2> QED
    BY <1>7, <2>1 DEF Listed
<1>9. ASSUME NEW i \in 1 .. n PROVE t[i] = L[i]
  <2>1. t[i] \in X /\ L[i] \in X /\ Rank(X, EntryOrder(X), t[i]) = Rank(X, EntryOrder(X), L[i])
    BY <1>4, <1>7, <1>8
  <2>2. \A a, b \in X : Rank(X, EntryOrder(X), a) = Rank(X, EntryOrder(X), b) => a = b
    BY <1>6, Ranks
  <2> QED
    BY <2>1, <2>2
<1>10. t = L
  BY <1>4, <1>8, <1>9
<1> QED
  BY <1>10 DEF t, L

-----------------------------------------------------------------------------
(* Candidates *)

PlainCands ==
    {Candidate(x[1], x[2], <<x[2], x[3]>>, <<"part", x[2], x[3]>>) : x \in {"xbootldr", "esp"} \X Nat \X Nat}
NestedCands ==
    {Candidate("nested", x[1], <<x[1], x[2], x[3]>>, <<"loop", x[4]>>) : x \in Nat \X Nat \X Nat \X Loops}
Cands == PlainCands \cup NestedCands

\* A number of a table makes one.
LEMMA PlainIs ==
  ASSUME NEW r \in {"xbootldr", "esp"}, NEW d \in Nat, NEW n \in Nat
  PROVE  Candidate(r, d, <<d, n>>, <<"part", d, n>>) \in PlainCands
<1> DEFINE x == <<r, d, n>>
<1>1. x \in {"xbootldr", "esp"} \X Nat \X Nat /\ x[1] = r /\ x[2] = d /\ x[3] = n
  OBVIOUS
<1> HIDE DEF x
<1>2. Candidate(x[1], x[2], <<x[2], x[3]>>, <<"part", x[2], x[3]>>) \in PlainCands
  BY <1>1 DEF PlainCands
<1> QED
  BY <1>1, <1>2

\* So does a number of a table in an outer partition.
LEMMA NestedIs ==
  ASSUME NEW d \in Nat, NEW o \in Nat, NEW n \in Nat, NEW k \in Loops
  PROVE  Candidate("nested", d, <<d, o, n>>, <<"loop", k>>) \in NestedCands
<1> DEFINE x == <<d, o, n, k>>
<1>1. x \in Nat \X Nat \X Nat \X Loops /\ x[1] = d /\ x[2] = o /\ x[3] = n /\ x[4] = k
  OBVIOUS
<1> HIDE DEF x
<1>2. Candidate("nested", x[1], <<x[1], x[2], x[3]>>, <<"loop", x[4]>>) \in NestedCands
  BY <1>1 DEF NestedCands
<1> QED
  BY <1>1, <1>2

\* A partition of a table: its name is the disk and its number.
LEMMA PlainFacts ==
  ASSUME NEW c \in PlainCands
  PROVE  /\ c.role \in {"xbootldr", "esp"} /\ c.disk \in Nat /\ c.partno \in Nat
         /\ c.partition = <<c.disk, c.partno>> /\ c.dev = <<"part", c.disk, c.partno>>
         /\ c = Candidate(c.role, c.disk, <<c.disk, c.partno>>, <<"part", c.disk, c.partno>>)
<1>1. PICK r \in {"xbootldr", "esp"}, d \in Nat, n \in Nat : c = Candidate(r, d, <<d, n>>, <<"part", d, n>>)
  BY DEF PlainCands, Candidate
<1>2. Last(<<d, n>>) = n
  BY DEF Last
<1> QED
  BY <1>1, <1>2 DEF Candidate

\* A partition nested in another: its name has the number of the outer one.
LEMMA NestedFacts ==
  ASSUME NEW c \in NestedCands
  PROVE  /\ c.role = "nested" /\ c.disk \in Nat /\ c.partno \in Nat
         /\ c.partition[2] \in Nat /\ c.partition = <<c.disk, c.partition[2], c.partno>>
         /\ c.dev[2] \in Loops /\ c.dev = <<"loop", c.dev[2]>>
         /\ c = Candidate("nested", c.disk, <<c.disk, c.partition[2], c.partno>>, <<"loop", c.dev[2]>>)
<1>1. PICK d \in Nat, o \in Nat, n \in Nat, k \in Loops :
        c = Candidate("nested", d, <<d, o, n>>, <<"loop", k>>)
  BY DEF NestedCands, Candidate
<1>2. Last(<<d, o, n>>) = n
  BY DEF Last
<1> QED
  BY <1>1, <1>2 DEF Candidate

\* It has three numbers.
LEMMA NestedName ==
  ASSUME NEW c \in NestedCands
  PROVE  /\ c.partition[1] = c.disk /\ c.partition[3] = c.partno
         /\ Len(c.partition) = 3 /\ c.partition \in Seq(Nat) /\ c.partition # Free
<1>1. PICK a \in Nat, b \in Nat, e \in Nat : c.partition = <<a, b, e>> /\ a = c.disk /\ e = c.partno
  BY NestedFacts
<1>2. /\ <<a, b, e>>[1] = a /\ <<a, b, e>>[3] = e /\ Len(<<a, b, e>>) = 3 /\ <<a, b, e>> \in Seq(Nat)
      /\ <<a, b, e>> # <<>>
  OBVIOUS
<1> QED
  BY <1>1, <1>2 DEF Free, Empty

\* The role tells the two kinds apart.
LEMMA CandFacts ==
  ASSUME NEW c \in Cands
  PROVE  /\ c.role \in {"xbootldr", "esp", "nested"} /\ c.disk \in Nat /\ c.partno \in Nat
         /\ c.role = "nested" <=> c \in NestedCands
         /\ c.role # "nested" <=> c \in PlainCands
  BY PlainFacts, NestedFacts DEF Cands

\* Keys are numbers, and name a partition of a table.
LEMMA CandidateKeys ==
  ASSUME NEW c \in Cands
  PROVE  /\ CandidateKey(c) \in [1 .. 4 -> Int]
         /\ \A d \in Cands : CandidateKey(c) = CandidateKey(d) => c.role = d.role
         /\ \A d \in PlainCands : CandidateKey(c) = CandidateKey(d) => c = d
<1>1. \A d \in Cands :
        /\ priority(d.role) \in {0, 1, 2} /\ Flag(Disk(d.disk).removable) \in {0, 1}
        /\ d.disk \in Nat /\ d.partno \in Nat
  BY CandFacts DEF priority, Flag
<1>2. \A d \in Cands : CandidateKey(d) \in [1 .. 4 -> Int]
  <2> TAKE d \in Cands
  <2> DEFINE a == priority(d.role)
  <2> DEFINE b == Flag(Disk(d.disk).removable)
  <2>1. a \in Int /\ b \in Int /\ d.disk \in Int /\ d.partno \in Int
    BY <1>1
  <2>2. CandidateKey(d) = <<a, b, d.disk, d.partno>>
    BY DEF CandidateKey
  <2> HIDE DEF a, b
  <2>3. <<a, b, d.disk, d.partno>> \in [1 .. 4 -> Int]
    BY <2>1
  <2> QED
    BY <2>2, <2>3
<1>3. ASSUME NEW d \in Cands, CandidateKey(c) = CandidateKey(d)
      PROVE  c.role = d.role /\ c.disk = d.disk /\ c.partno = d.partno
  <2>1. priority(c.role) = priority(d.role) /\ c.disk = d.disk /\ c.partno = d.partno
    BY <1>3 DEF CandidateKey
  <2>2. c.role \in {"xbootldr", "esp", "nested"} /\ d.role \in {"xbootldr", "esp", "nested"}
    BY CandFacts
  <2> QED
    BY <2>1, <2>2 DEF priority
<1>4. ASSUME NEW d \in PlainCands, CandidateKey(c) = CandidateKey(d) PROVE c = d
  <2>1. d \in Cands /\ d.role # "nested"
    BY PlainFacts DEF Cands
  <2>2. c.role = d.role /\ c.disk = d.disk /\ c.partno = d.partno
    BY <1>3, <1>4, <2>1
  <2>3. c \in PlainCands
    BY <2>1, <2>2, CandFacts
  <2> QED
    BY <2>2, <2>3, PlainFacts
<1> QED
  BY <1>2, <1>3, <1>4

\* What dropping equal neighbours leaves.
Deduped(q, s) ==
    \E m \in Nat : \E kept \in [1 .. m -> DOMAIN s] :
        /\ q = [i \in 1 .. m |-> s[kept[i]]]
        /\ \A i, j \in 1 .. m : kept[i] = kept[j] => i = j
        /\ \A i \in 1 .. m : kept[i] = 1 \/ s[kept[i]] # s[kept[i] - 1]
        /\ \A k \in DOMAIN s : \E i \in 1 .. m : s[kept[i]] = s[k]

\* Of equal neighbours the first is left.
LEMMA DedupLeaves ==
  ASSUME NEW n \in Nat, NEW s, DOMAIN s = 1 .. n
  PROVE  Deduped(Dedup(s), s)
<1> DEFINE K == {i \in DOMAIN s : i = 1 \/ s[i] # s[i - 1]}
<1> DEFINE kept == Ascending(K)
<1> DEFINE m == Cardinality(K)
<1>1. IsFiniteSet(K) /\ K \subseteq Nat
  <2>1. K \in SUBSET (1 .. n) /\ 1 \in Int /\ n \in Int /\ K \subseteq Nat
    OBVIOUS
  <2>2. IsFiniteSet(1 .. n)
    BY <2>1, FS_Interval
  <2> HIDE DEF K
  <2> QED
    BY <2>1, <2>2, FS_Subset
<1>2. Dedup(s) = [i \in DOMAIN kept |-> s[kept[i]]]
  BY DEF Dedup
<1>3. \A i : i \in K <=> i \in 1 .. n /\ (i = 1 \/ s[i] # s[i - 1])
  OBVIOUS
<1> HIDE DEF K
<1>4. /\ m \in Nat /\ kept \in [1 .. m -> K]
      /\ \A i, j \in 1 .. m : kept[i] = kept[j] => i = j
      /\ \A e \in K : \E i \in 1 .. m : kept[i] = e
  BY <1>1, AscendingListed DEF Listed
<1> HIDE DEF kept, m
<1>5. ASSUME NEW k \in 1 .. n PROVE \E i \in 1 .. m : s[kept[i]] = s[k]
  <2> DEFINE M == {j \in 1 .. n : s[j] = s[k]}
  <2>1. M \subseteq Nat /\ M # {}
    OBVIOUS
  <2>2. PICK j \in M : \A x \in M : j <= x
    <3> HIDE DEF M
    <3> QED
      BY <2>1, LeastNat
  <2>3. j \in 1 .. n /\ s[j] = s[k]
    OBVIOUS
  <2>4. j = 1 \/ s[j] # s[j - 1]
    <3> SUFFICES ASSUME j # 1, s[j] = s[j - 1] PROVE FALSE
      OBVIOUS
    <3>1. j - 1 \in 1 .. n /\ ~(j <= j - 1)
      BY <2>3
    <3> QED
      BY <2>2, <2>3, <3>1
  <2>5. j \in K
    BY <1>3, <2>3, <2>4
  <2> QED
    BY <1>4, <2>3, <2>5
<1>6. kept \in [1 .. m -> DOMAIN s] /\ DOMAIN kept = 1 .. m
  BY <1>3, <1>4
<1>7. \A i \in 1 .. m : kept[i] = 1 \/ s[kept[i]] # s[kept[i] - 1]
  BY <1>3, <1>4
<1>8. /\ Dedup(s) = [i \in 1 .. m |-> s[kept[i]]]
      /\ \A k \in DOMAIN s : \E i \in 1 .. m : s[kept[i]] = s[k]
  BY <1>2, <1>5, <1>6
<1>9. \E x \in [1 .. m -> DOMAIN s] :
        /\ Dedup(s) = [i \in 1 .. m |-> s[x[i]]]
        /\ \A i, j \in 1 .. m : x[i] = x[j] => i = j
        /\ \A i \in 1 .. m : x[i] = 1 \/ s[x[i]] # s[x[i] - 1]
        /\ \A k \in DOMAIN s : \E i \in 1 .. m : s[x[i]] = s[k]
  BY <1>4, <1>6, <1>7, <1>8
<1> QED
  BY <1>4, <1>9 DEF Deduped

\* A nested partition is in a list of candidates once.
NestedOnce(s) ==
    \A i, j \in DOMAIN s :
        s[i].role = "nested" /\ s[j].role = "nested" /\ s[i].partition = s[j].partition => i = j

\* The candidates to scan are those received, each partition once.
LEMMA EachOnce ==
  ASSUME NEW n \in Nat, NEW s \in [1 .. n -> Cands], NestedOnce(s),
         NEW q, q = Dedup(sort_by(s, CandidateBefore))
  PROVE  /\ \E m \in Nat : DOMAIN q = 1 .. m
         /\ \A i \in DOMAIN q : \E j \in 1 .. n : q[i] = s[j]
         /\ \A j \in 1 .. n : \E i \in DOMAIN q : q[i] = s[j]
         /\ \A i, j \in DOMAIN q : Label(q[i]) = Label(q[j]) => i = j
<1> DEFINE key == [i \in 1 .. n |-> CandidateKey(s[i])]
<1> DEFINE t == sort_by(s, CandidateBefore)
<1>1. key \in [1 .. n -> [1 .. 4 -> Int]] /\ \A i \in 1 .. n : key[i] = CandidateKey(s[i])
  BY CandidateKeys
<1>2. Sorted(t, s, key)
  <2>1. 4 \in Nat /\ DOMAIN s = 1 .. n
    OBVIOUS
  <2> HIDE DEF key
  <2> QED
    BY <1>1, <2>1, CandidatesSorted
<1> HIDE DEF key, t
<1>3. PICK perm \in [1 .. n -> 1 .. n] :
        /\ \A i, j \in 1 .. n : perm[i] = perm[j] => i = j
        /\ \A i \in 1 .. n : \E j \in 1 .. n : perm[j] = i
        /\ t = [i \in 1 .. n |-> s[perm[i]]]
        /\ \A i, j \in 1 .. n : i < j => <<perm[i], perm[j]>> \in Stable(1 .. n, key)
  BY <1>2 DEF Sorted
<1>4. DOMAIN t = 1 .. n /\ \A i \in 1 .. n : t[i] = s[perm[i]] /\ t[i] \in Cands
  BY <1>3
<1>5. Deduped(q, t)
  BY <1>4, DedupLeaves DEF t
<1>60. PICK m \in Nat : \E x \in [1 .. m -> DOMAIN t] :
        /\ q = [i \in 1 .. m |-> t[x[i]]]
        /\ \A i, j \in 1 .. m : x[i] = x[j] => i = j
        /\ \A i \in 1 .. m : x[i] = 1 \/ t[x[i]] # t[x[i] - 1]
        /\ \A k \in DOMAIN t : \E i \in 1 .. m : t[x[i]] = t[k]
  BY <1>5 DEF Deduped
<1>6. PICK kept \in [1 .. m -> DOMAIN t] :
        /\ q = [i \in 1 .. m |-> t[kept[i]]]
        /\ \A i, j \in 1 .. m : kept[i] = kept[j] => i = j
        /\ \A i \in 1 .. m : kept[i] = 1 \/ t[kept[i]] # t[kept[i] - 1]
        /\ \A k \in DOMAIN t : \E i \in 1 .. m : t[kept[i]] = t[k]
  BY <1>60
<1>7. DOMAIN q = 1 .. m /\ \A i \in 1 .. m : q[i] = t[kept[i]] /\ kept[i] \in 1 .. n
  BY <1>4, <1>6
<1>8. ASSUME NEW i \in 1 .. m PROVE \E j \in 1 .. n : q[i] = s[j]
  <2>1. kept[i] \in 1 .. n /\ q[i] = t[kept[i]]
    BY <1>7
  <2>2. perm[kept[i]] \in 1 .. n /\ q[i] = s[perm[kept[i]]]
    BY <1>4, <2>1
  <2> QED
    BY <2>2
<1>9. ASSUME NEW j \in 1 .. n PROVE \E i \in 1 .. m : q[i] = s[j]
  <2>1. PICK k \in 1 .. n : perm[k] = j
    BY <1>3
  <2>2. PICK i \in 1 .. m : t[kept[i]] = t[k]
    BY <1>4, <1>6
  <2> QED
    BY <1>4, <1>7, <2>1, <2>2
<1>10. ASSUME NEW a \in 1 .. n, NEW b \in 1 .. n, a <= b
       PROVE  ~Lexicographic(CandidateKey(t[b]), CandidateKey(t[a]))
  <2>1. t[a] \in Cands /\ t[b] \in Cands
    BY <1>4
  <2>2. CASE a = b
    <3>1. 4 \in Nat /\ CandidateKey(t[a]) \in [1 .. 4 -> Int]
      BY <2>1, CandidateKeys
    <3> QED
      BY <2>2, <3>1, LexIrreflexive
  <2>3. CASE a < b
    <3>1. <<perm[a], perm[b]>> \in Stable(1 .. n, key) /\ perm[a] \in 1 .. n /\ perm[b] \in 1 .. n
      BY <1>3, <2>3
    <3>2. key[perm[a]] = CandidateKey(t[a]) /\ key[perm[b]] = CandidateKey(t[b])
      BY <1>1, <1>4, <3>1
    <3>3. ~Lexicographic(key[perm[b]], key[perm[a]]) \/ Lexicographic(key[perm[a]], key[perm[b]])
      BY <3>1 DEF Stable
    <3>4. 4 \in Nat /\ CandidateKey(t[a]) \in [1 .. 4 -> Int] /\ CandidateKey(t[b]) \in [1 .. 4 -> Int]
      BY <2>1, CandidateKeys
    <3>5. ~(/\ Lexicographic(CandidateKey(t[a]), CandidateKey(t[b]))
            /\ Lexicographic(CandidateKey(t[b]), CandidateKey(t[a])))
      BY <3>4, LexTransitive, LexIrreflexive
    <3> QED
      BY <3>2, <3>3, <3>5
  <2> QED
    BY <1>10, <2>2, <2>3
<1>11. ASSUME NEW i \in 1 .. m, NEW j \in 1 .. m, Label(q[i]) = Label(q[j]), kept[i] < kept[j] PROVE FALSE
  <2> DEFINE a == kept[i]
  <2> DEFINE b == kept[j]
  <2>1. a \in 1 .. n /\ b \in 1 .. n /\ a < b /\ q[i] = t[a] /\ q[j] = t[b] /\ b # 1 /\ t[b] # t[b - 1]
    <3>1. a \in 1 .. n /\ b \in 1 .. n /\ a < b /\ q[i] = t[a] /\ q[j] = t[b]
      BY <1>7, <1>11
    <3>2. b # 1
      BY <3>1
    <3> QED
      BY <1>6, <3>1, <3>2
  <2> HIDE DEF a, b
  <2>2. t[a] \in Cands /\ t[b] \in Cands /\ t[a].role = t[b].role /\ t[a].partition = t[b].partition
    BY <1>4, <1>11, <2>1 DEF Label
  <2>3. CASE t[a].role = "nested"
    <3>1. perm[a] \in 1 .. n /\ perm[b] \in 1 .. n /\ perm[a] # perm[b]
      <4>1. a \in 1 .. n /\ b \in 1 .. n /\ a # b
        BY <2>1
      <4> QED
        BY <1>3, <4>1
    <3>2. s[perm[a]] = t[a] /\ s[perm[b]] = t[b]
      BY <1>4, <2>1
    <3> QED
      BY <2>2, <2>3, <3>1, <3>2 DEF NestedOnce
  <2>4. CASE t[a].role # "nested"
    <3>1. t[a] \in PlainCands /\ t[b] \in PlainCands
      BY <2>2, <2>4, CandFacts
    <3>2. t[a].partition = <<t[a].disk, t[a].partno>> /\ t[b].partition = <<t[b].disk, t[b].partno>>
      BY <3>1, PlainFacts
    <3>3. t[a].disk = t[b].disk /\ t[a].partno = t[b].partno
      <4>1. <<t[a].disk, t[a].partno>> = <<t[b].disk, t[b].partno>>
        BY <2>2, <3>2
      <4> QED
        BY <4>1
    <3>4. t[a] = t[b]
      BY <2>2, <3>1, <3>3, PlainFacts
    <3>5. b - 1 \in 1 .. n /\ a <= b - 1 /\ b - 1 <= b
      BY <2>1
    <3> DEFINE x == CandidateKey(t[a])
    <3> DEFINE y == CandidateKey(t[b - 1])
    <3>6. ~Lexicographic(y, x) /\ ~Lexicographic(x, y)
      <4>1. ~Lexicographic(y, x)
        BY <1>10, <2>1, <3>5
      <4>2. ~Lexicographic(CandidateKey(t[b]), y)
        BY <1>10, <2>1, <3>5
      <4> QED
        BY <3>4, <4>1, <4>2
    <3>7. t[b - 1] \in Cands
      BY <1>4, <3>5
    <3>8. 4 \in Nat /\ x \in [1 .. 4 -> Int] /\ y \in [1 .. 4 -> Int]
      BY <2>2, <3>7, CandidateKeys
    <3>9. x = y
      <4> HIDE DEF x, y
      <4> QED
        BY <3>6, <3>8, LexTotal
    <3>10. t[b - 1] = t[a]
      BY <3>1, <3>7, <3>9, CandidateKeys
    <3> QED
      BY <2>1, <3>4, <3>10
  <2> QED
    BY <2>3, <2>4
<1>12. ASSUME NEW i \in 1 .. m, NEW j \in 1 .. m, Label(q[i]) = Label(q[j]) PROVE i = j
  <2>1. ~(kept[i] < kept[j]) /\ ~(kept[j] < kept[i])
    BY <1>11, <1>12
  <2>2. kept[i] \in 1 .. n /\ kept[j] \in 1 .. n
    BY <1>7
  <2>3. kept[i] = kept[j]
    BY <2>1, <2>2
  <2> QED
    BY <1>6, <2>3
<1> QED
  BY <1>7, <1>8, <1>9, <1>12

-----------------------------------------------------------------------------
(* What the parsers make of a partition. *)

\* An entry can be loaded from fs.
Loadable(fs, e) == {e.linux} \union Range(e.initrds) \union ({e.dtb} \ {NoDtb}) \subseteq fs.files

\* What a scan gives: numbered entries that can be loaded.
Scanned(fs, X) ==
    /\ IsFiniteSet(X)
    /\ \A e \in X : e.id \in Nat /\ e.source \in Nat /\ e.boot_order \in {0, 1} /\ Loadable(fs, e)
    /\ \A e, f \in X : e.id = f.id /\ e.source = f.source => e = f


\* A set of at most one element is finite.
LEMMA AtMostOne ==
  ASSUME NEW X, \A e, f \in X : e = f
  PROVE  IsFiniteSet(X)
<1>1. CASE X = {}
  BY <1>1, FS_EmptySet
<1>2. CASE X # {}
  <2>1. PICK e : e \in X
    BY <1>2
  <2>2. X = {e}
    BY <2>1
  <2> QED
    BY <2>2, FS_Singleton
<1> QED
  BY <1>1, <1>2

\* A finite set of numbers has a greatest element.
LEMMA GreatestNat ==
  ASSUME NEW M, M \subseteq Nat, M # {}, IsFiniteSet(M)
  PROVE  \E x \in M : \A y \in M : y <= x
<1> DEFINE N == Cardinality(M)
<1> DEFINE L == Ascending(M)
<1>1. /\ N \in Nat /\ L \in [1 .. N -> M]
      /\ \A i, j \in 1 .. N : i < j => <<L[i], L[j]>> \in LessIn(M)
      /\ \A e \in M : \E i \in 1 .. N : L[i] = e
  BY AscendingListed DEF Listed
<1>0. \A z \in M : z \in Int
  OBVIOUS
<1> HIDE DEF N, L
<1>2. N # 0
  <2> SUFFICES ASSUME N = 0 PROVE FALSE
    OBVIOUS
  <2>1. PICK e : e \in M
    OBVIOUS
  <2>2. PICK i \in 1 .. N : L[i] = e
    BY <1>1, <2>1
  <2> QED
    BY <2>2
<1>3. N \in 1 .. N /\ L[N] \in M
  BY <1>1, <1>2
<1>4. ASSUME NEW y \in M PROVE y <= L[N]
  <2>1. PICK i \in 1 .. N : L[i] = y
    BY <1>1
  <2>2. CASE i = N
    BY <1>3, <2>1, <2>2
  <2>3. CASE i < N
    <3>1. <<L[i], L[N]>> \in LessIn(M)
      BY <1>1, <1>3, <2>3
    <3>2. L[i] < L[N]
      BY <3>1 DEF LessIn
    <3>3. y \in Int /\ L[N] \in Int
      BY <1>0, <1>3
    <3> QED
      BY <2>1, <3>2, <3>3
  <2> QED
    BY <1>1, <2>2, <2>3
<1> QED
  BY <1>3, <1>4

\* A device tree directory gives one of its files or none.
LEMMA FdtdirGives ==
  ASSUME NEW fs, NEW dir, NEW compatibles
  PROVE  select_fdtdir_dtb(fs, dir, compatibles) \in fs.files \cup {NoDtb}
<1> DEFINE paths == fdtdir_candidate_paths(compatibles)
<1> DEFINE hits == {i \in 1 .. Len(paths) : Append(dir, paths[i]) \in fs.files}
<1> DEFINE first == CHOOSE i \in hits : \A j \in hits : i <= j
<1>1. select_fdtdir_dtb(fs, dir, compatibles) = IF hits = {} THEN NoDtb ELSE Append(dir, paths[first])
  BY DEF select_fdtdir_dtb
<1>2. CASE hits # {}
  <2>1. hits \subseteq Nat
    OBVIOUS
  <2>2. \E i \in hits : \A j \in hits : i <= j
    <3> HIDE DEF hits
    <3> QED
      BY <1>2, <2>1, LeastNat
  <2>3. first \in hits
    <3> HIDE DEF hits
    <3> QED
      BY <2>2
  <2>4. Append(dir, paths[first]) \in fs.files
    <3> HIDE DEF first
    <3> QED
      BY <2>3
  <2> HIDE DEF hits, first, paths
  <2> QED
    BY <1>1, <1>2, <2>4
<1>3. CASE hits = {}
  <2> HIDE DEF hits, first, paths
  <2> QED
    BY <1>1, <1>3
<1> QED
  BY <1>2, <1>3

\* The device tree of a BLS entry is a file of the partition or none.
LEMMA BlsTreeGives ==
  ASSUME NEW fs, NEW dt, NEW bls, NEW variables
  PROVE  bls_dtb_path(fs, dt, bls, variables) \in fs.files \cup {NoDtb}
<1> DEFINE tree == expand_grub_vars(bls.devicetree, variables)
<1> DEFINE D(i) == expand_grub_vars(bls.fdtdirs[i], variables)
<1> DEFINE dirs == {i \in DOMAIN bls.fdtdirs : D(i) # Empty}
<1> DEFINE P(i) == IF D(i) \in fs.dirs THEN select_fdtdir_dtb(fs, D(i), read_fdt_compatibles(dt)) ELSE NoDtb
<1> DEFINE hits == {i \in dirs : P(i) # NoDtb}
<1> DEFINE first == CHOOSE i \in hits : \A j \in hits : i <= j
<1>1. bls_dtb_path(fs, dt, bls, variables) =
        IF bls.devicetree # Empty
        THEN IF IsFile(fs, tree) THEN tree ELSE NoDtb
        ELSE IF ~CompatiblesReadable(dt) \/ hits = {} \/ \E i \in dirs : i <= first /\ ~Resolves(D(i))
             THEN NoDtb
             ELSE P(first)
  BY DEF bls_dtb_path
<1>2. P(first) \in fs.files \cup {NoDtb}
  <2> HIDE DEF first, D
  <2> QED
    BY FdtdirGives
<1>3. IsFile(fs, tree) => tree \in fs.files
  BY DEF IsFile
<1> HIDE DEF tree, P, first, hits, dirs, D
<1> QED
  BY <1>1, <1>2, <1>3

\* The last line of one of the keys counts, and there is one if any has a key.
LEMMA LastValueIs ==
  ASSUME NEW lines, Numbered(lines), NEW keys
  PROVE  IF \E i \in DOMAIN lines : lines[i].key \in keys
         THEN \E i \in DOMAIN lines : lines[i].key \in keys /\ LastValue(lines, keys) = lines[i].value
         ELSE LastValue(lines, keys) = Empty
<1> DEFINE at == {i \in DOMAIN lines : lines[i].key \in keys}
<1> DEFINE last == CHOOSE i \in at : \A j \in at : j <= i
<1>1. LastValue(lines, keys) = IF at = {} THEN Empty ELSE lines[last].value
  BY DEF LastValue
<1>2. at \in SUBSET DOMAIN lines /\ at \subseteq Nat /\ IsFiniteSet(DOMAIN lines)
  BY DEF Numbered
<1>3. at # {} => last \in at
  <2> HIDE DEF at
  <2>1. IsFiniteSet(at)
    BY <1>2, FS_Subset
  <2>2. at # {} => \E x \in at : \A y \in at : y <= x
    BY <1>2, <2>1, GreatestNat
  <2> QED
    BY <2>2
<1>4. at = {} <=> ~\E i \in DOMAIN lines : lines[i].key \in keys
  OBVIOUS
<1>5. last \in at => last \in DOMAIN lines /\ lines[last].key \in keys
  <2> HIDE DEF last
  <2> QED
    OBVIOUS
<1> HIDE DEF at, last
<1> QED
  BY <1>1, <1>3, <1>4, <1>5

\* Every line with the key counts.
LEMMA AllValuesNone ==
  ASSUME NEW lines, Numbered(lines), NEW key, AllValues(lines, key) = <<>>
  PROVE  ~\E i \in DOMAIN lines : lines[i].key = key
<1> DEFINE S == {i \in DOMAIN lines : lines[i].key = key}
<1> DEFINE at == Ascending(S)
<1>1. S \in SUBSET DOMAIN lines /\ S \subseteq Nat /\ IsFiniteSet(DOMAIN lines)
  BY DEF Numbered
<1>2. AllValues(lines, key) = [i \in DOMAIN at |-> lines[at[i]].value]
  BY DEF AllValues
<1> SUFFICES S = {}
  OBVIOUS
<1> HIDE DEF S
<1>3. IsFiniteSet(S)
  BY <1>1, FS_Subset
<1>4. at \in [1 .. Cardinality(S) -> S] /\ \A e \in S : \E i \in 1 .. Cardinality(S) : at[i] = e
  BY <1>1, <1>3, AscendingListed DEF Listed
<1> HIDE DEF at
<1>5. DOMAIN at = {}
  <2>1. DOMAIN AllValues(lines, key) = DOMAIN at
    BY <1>2
  <2>2. DOMAIN << >> = {}
    OBVIOUS
  <2> QED
    BY <2>1, <2>2
<1> QED
  BY <1>4, <1>5

\* What a BLS file makes: at most one entry, with the file's name.
BlsMade(fs, file, X) ==
    /\ \A e, f \in X : e = f
    /\ \A e \in X : /\ e.id = file.name /\ e.source = 0 /\ e.boot_order \in {0, 1} /\ Loadable(fs, e)
                    /\ BlsAsks(file) => e.dtb # NoDtb

\* A file that asks for a device tree makes no entry without one.
LEMMA BlsMakes ==
  ASSUME NEW fs, NEW dt, NEW file, Numbered(file.lines), NEW variables,
         \A i \in DOMAIN file.lines : file.lines[i].value # Empty
  PROVE  BlsMade(fs, file, parse_bls_file(fs, dt, file, variables))
<1> DEFINE bls     == BlsSnippet(file.lines)
<1> DEFINE linux   == expand_grub_vars(bls.linux, variables)
<1> DEFINE words   == FlattenSeq([i \in DOMAIN bls.initrds |-> expand_grub_vars(bls.initrds[i], variables)])
<1> DEFINE initrds == [i \in DOMAIN words |-> <<words[i]>>]
<1> DEFINE dtb     == bls_dtb_path(fs, dt, bls, variables)
<1> DEFINE wanted  == preferred_entry(variables)
<1> DEFINE preferred == wanted # Empty /\ boot_entry_id_matches(file.name, wanted)
<1> DEFINE options == [i \in DOMAIN bls.options |-> expand_grub_vars(bls.options[i], variables)]
<1> DEFINE none == \/ ~architecture_matches(bls.architecture)
                   \/ ~IsFile(fs, linux)
                   \/ \E i \in DOMAIN initrds : ~IsFile(fs, initrds[i])
                   \/ dtb = NoDtb /\ requires_dtb(bls)
<1> DEFINE order == IF wanted # Empty /\ ~preferred THEN 1 ELSE 0
<1> DEFINE entry == [id |-> file.name, source |-> 0, preferred |-> preferred, boot_order |-> order,
                     linux |-> linux, initrds |-> initrds, dtb |-> dtb, options |-> NonEmpty(options)]
<1>1. parse_bls_file(fs, dt, file, variables) = IF none THEN {} ELSE {entry}
  BY DEF parse_bls_file
<1>2. dtb \in fs.files \cup {NoDtb}
  BY BlsTreeGives
<1>3. requires_dtb(bls) <=> bls.devicetree # Empty \/ bls.fdtdirs # <<>>
  BY DEF requires_dtb
<1>4. /\ bls.devicetree = LastValue(file.lines, {"devicetree", "fdt", "fdtfile"})
      /\ bls.fdtdirs = AllValues(file.lines, "fdtdir")
  BY DEF BlsSnippet
<1>5. order \in {0, 1}
  OBVIOUS
<1>6. ~none => /\ IsFile(fs, linux)
               /\ \A i \in DOMAIN initrds : IsFile(fs, initrds[i])
               /\ requires_dtb(bls) => dtb # NoDtb
  OBVIOUS
<1> HIDE DEF bls, linux, initrds, dtb, order, preferred, options, none
<1>7. BlsAsks(file) => requires_dtb(bls)
  <2> SUFFICES ASSUME NEW i \in DOMAIN file.lines,
                      file.lines[i].key \in {"devicetree", "fdt", "fdtfile", "fdtdir"}
               PROVE  bls.devicetree # Empty \/ bls.fdtdirs # <<>>
    BY <1>3 DEF BlsAsks
  <2>1. CASE file.lines[i].key = "fdtdir"
    BY <1>4, <2>1, AllValuesNone
  <2>2. CASE file.lines[i].key # "fdtdir"
    <3>1. file.lines[i].key \in {"devicetree", "fdt", "fdtfile"}
      BY <2>2
    <3>2. \E j \in DOMAIN file.lines : bls.devicetree = file.lines[j].value
      BY <1>4, <3>1, LastValueIs
    <3> QED
      BY <3>2
  <2> QED
    BY <2>1, <2>2
<1>8. ~none => Loadable(fs, entry)
  <2> SUFFICES ASSUME ~none PROVE Loadable(fs, entry)
    OBVIOUS
  <2>1. linux \in fs.files /\ \A i \in DOMAIN initrds : initrds[i] \in fs.files
    BY <1>6 DEF IsFile
  <2>2. Range(initrds) \subseteq fs.files
    BY <2>1 DEF Range
  <2> QED
    BY <1>2, <2>1, <2>2 DEF Loadable
<1>9. ~none => /\ entry.id = file.name /\ entry.source = 0 /\ entry.boot_order \in {0, 1}
               /\ BlsAsks(file) => entry.dtb # NoDtb
  BY <1>5, <1>6, <1>7
<1> HIDE DEF entry
<1> QED
  BY <1>1, <1>8, <1>9 DEF BlsMade

\* What an extlinux label makes: at most one entry, with the label's name.
ExtlinuxMade(fs, source, entry, X) ==
    /\ \A e, f \in X : e = f
    /\ \A e \in X : /\ e.id = Head(entry.label).name /\ e.source = source /\ e.boot_order \in {0, 1}
                    /\ Loadable(fs, e)
                    /\ (\E i \in DOMAIN entry.lines : entry.lines[i].key \in {"fdt", "devicetree"})
                          => e.dtb # NoDtb

\* The lines of an entry are numbered like those of its file.
LEMMA ExtlinuxMakes ==
  ASSUME NEW fs, NEW source, NEW default, NEW entry, Numbered(entry.lines)
  PROVE  ExtlinuxMade(fs, source, entry, extlinux_boot_entry(fs, source, default, entry))
<1> DEFINE kernel  == LastValue(entry.lines, {"kernel", "linux"})
<1> DEFINE words   == FlattenSeq(AllValues(entry.lines, "initrd"))
<1> DEFINE initrds == [i \in DOMAIN words |-> <<words[i]>>]
<1> DEFINE trees   == {i \in DOMAIN entry.lines : entry.lines[i].key \in {"fdt", "devicetree"}}
<1> DEFINE dtb     == LastValue(entry.lines, {"fdt", "devicetree"})
<1> DEFINE isDefault == default = entry.label
<1> DEFINE none == \/ ~IsFile(fs, kernel)
                   \/ \E i \in DOMAIN initrds : ~IsFile(fs, initrds[i])
                   \/ trees # {} /\ ~IsFile(fs, dtb)
<1> DEFINE order == IF isDefault THEN 0 ELSE 1
<1> DEFINE made == [id |-> Head(entry.label).name, source |-> source, preferred |-> isDefault,
                    boot_order |-> order, linux |-> kernel, initrds |-> initrds, dtb |-> dtb,
                    options |-> append(entry.lines)]
<1>1. extlinux_boot_entry(fs, source, default, entry) = IF none THEN {} ELSE {made}
  BY DEF extlinux_boot_entry
<1>2. trees = {} => dtb = NoDtb
  BY LastValueIs DEF NoDtb
<1>3. order \in {0, 1}
  OBVIOUS
<1>4. ~none => /\ IsFile(fs, kernel)
               /\ \A i \in DOMAIN initrds : IsFile(fs, initrds[i])
               /\ trees # {} => IsFile(fs, dtb)
  OBVIOUS
<1>7. (\E i \in DOMAIN entry.lines : entry.lines[i].key \in {"fdt", "devicetree"}) => trees # {}
  OBVIOUS
<1>8. IsFile(fs, dtb) => dtb # NoDtb
  BY DEF IsFile, Resolves, NoDtb
<1> HIDE DEF kernel, initrds, dtb, order, isDefault, none, trees
<1>5. ~none => Loadable(fs, made)
  <2> SUFFICES ASSUME ~none PROVE Loadable(fs, made)
    OBVIOUS
  <2>1. kernel \in fs.files /\ \A i \in DOMAIN initrds : initrds[i] \in fs.files
    BY <1>4 DEF IsFile
  <2>2. Range(initrds) \subseteq fs.files
    BY <2>1 DEF Range
  <2>3. dtb \in fs.files \cup {NoDtb}
    BY <1>2, <1>4 DEF IsFile
  <2> QED
    BY <2>1, <2>2, <2>3 DEF Loadable
<1>6. /\ made.id = Head(entry.label).name /\ made.source = source /\ made.boot_order \in {0, 1}
      /\ made.dtb = dtb
  BY <1>3
<1> HIDE DEF made
<1>9. ~none /\ (\E i \in DOMAIN entry.lines : entry.lines[i].key \in {"fdt", "devicetree"})
        => made.dtb # NoDtb
  BY <1>4, <1>6, <1>7, <1>8
<1> QED
  BY <1>1, <1>5, <1>6, <1>9 DEF ExtlinuxMade

\* The entries of an extlinux file are its labels.
LabelsOf(lines) == {i \in DOMAIN lines : lines[i].key = "label" /\ lines[i].value # Empty}

\* A sequence is numbered.
LEMMA SeqNumbered ==
  ASSUME NEW S, NEW s \in Seq(S)
  PROVE  Numbered(s)
<1>1. DOMAIN s = 1 .. Len(s) /\ 1 \in Int /\ Len(s) \in Int
  OBVIOUS
<1>2. IsFiniteSet(1 .. Len(s))
  BY <1>1, FS_Interval
<1> QED
  BY <1>1, <1>2 DEF Numbered

\* Each label has its lines: those up to the next label.
SplitAs(lines, f) ==
    /\ ExtlinuxEntries(lines) = {f[i] : i \in LabelsOf(lines)}
    /\ \A i \in LabelsOf(lines) : f[i].label = lines[i].value
    /\ \A i \in LabelsOf(lines) : Numbered(f[i].lines)
    /\ \A i \in LabelsOf(lines), j \in DOMAIN lines :
         i < j /\ (\A k \in i + 1 .. j : lines[k].key # "label")
           => \E x \in DOMAIN f[i].lines : f[i].lines[x] = lines[j]

\* An extlinux file is split at its labels.
LEMMA ExtlinuxEntriesAre ==
  ASSUME NEW lines, lines \in Seq(Range(lines))
  PROVE  \E f : SplitAs(lines, f)
<1> DEFINE labels == {i \in DOMAIN lines : lines[i].key = "label"}
<1> DEFINE next(i) == CHOOSE j \in labels : j > i /\ \A k \in labels : k > i => j <= k
<1> DEFINE end(i) == IF \E j \in labels : j > i THEN next(i) - 1 ELSE Len(lines)
<1> DEFINE f == [i \in LabelsOf(lines) |-> [label |-> lines[i].value, lines |-> SubSeq(lines, i + 1, end(i))]]
<1>1. LabelsOf(lines) = {i \in labels : lines[i].value # Empty}
  BY DEF LabelsOf
<1>2. ExtlinuxEntries(lines) =
        {[label |-> lines[i].value, lines |-> SubSeq(lines, i + 1, end(i))] : i \in LabelsOf(lines)}
  BY <1>1 DEF ExtlinuxEntries
<1>3. labels \subseteq 1 .. Len(lines) /\ LabelsOf(lines) \subseteq labels /\ Len(lines) \in Nat
  BY <1>1
<1>30. /\ \A j \in labels : j \in 1 .. Len(lines) /\ j \in Nat
       /\ \A j \in LabelsOf(lines) : j \in labels
  BY <1>1
<1>4. ASSUME NEW i \in LabelsOf(lines)
      PROVE  end(i) \in (i + 1) - 1 .. Len(lines) /\ i + 1 \in 1 .. Len(lines) + 1
  <2> HIDE DEF labels
  <2>1. i \in 1 .. Len(lines)
    BY <1>3
  <2>2. CASE \E j \in labels : j > i
    <3> DEFINE M == {j \in labels : j > i}
    <3>1. M \subseteq Nat /\ M # {}
      BY <1>30, <2>2
    <3>2. PICK j \in M : \A k \in M : j <= k
      <4> HIDE DEF M
      <4> QED
        BY <3>1, LeastNat
    <3>3. \E x \in labels : x > i /\ \A k \in labels : k > i => x <= k
      BY <3>2
    <3>4. next(i) \in labels /\ next(i) > i
      BY <3>3
    <3>5. end(i) = next(i) - 1
      BY <2>2
    <3> HIDE DEF next, end
    <3>6. next(i) \in 1 .. Len(lines)
      BY <1>30, <3>4
    <3> QED
      BY <1>3, <2>1, <3>4, <3>5, <3>6
  <2>3. CASE ~\E j \in labels : j > i
    BY <1>3, <2>1, <2>3
  <2> QED
    BY <2>2, <2>3
<1>40. ASSUME NEW i \in LabelsOf(lines), NEW j \in DOMAIN lines, i < j,
              \A k \in i + 1 .. j : lines[k].key # "label"
       PROVE  j <= end(i)
  <2>1. j \in 1 .. Len(lines) /\ j \in Nat /\ i \in Nat
    BY <1>3, <1>30
  <2>2. \A k \in labels : k > i => k > j
    <3> SUFFICES ASSUME NEW k \in labels, k > i, ~(k > j) PROVE FALSE
      OBVIOUS
    <3>1. k \in Nat /\ lines[k].key = "label"
      BY <1>30
    <3>2. k \in i + 1 .. j
      BY <2>1, <3>1
    <3> QED
      BY <1>40, <3>1, <3>2
  <2>3. CASE \E k \in labels : k > i
    <3>1. PICK x \in labels : x > i /\ \A k \in labels : k > i => x <= k
      <4> DEFINE M == {k \in labels : k > i}
      <4>1. M \subseteq Nat /\ M # {}
        BY <1>30, <2>3
      <4>2. PICK x \in M : \A k \in M : x <= k
        <5> HIDE DEF M
        <5> QED
          BY <4>1, LeastNat
      <4> QED
        BY <4>2
    <3>2. next(i) \in labels /\ next(i) > i
      BY <3>1
    <3>3. end(i) = next(i) - 1
      BY <2>3
    <3> HIDE DEF next, end, labels
    <3>4. next(i) > j /\ next(i) \in Nat
      BY <1>30, <2>2, <3>2
    <3> QED
      BY <2>1, <3>3, <3>4
  <2>4. CASE ~\E k \in labels : k > i
    BY <2>1, <2>4
  <2> QED
    BY <2>3, <2>4
<1> HIDE DEF labels, end
<1>50. ASSUME NEW i \in LabelsOf(lines), NEW j \in DOMAIN lines, i < j,
              \A k \in i + 1 .. j : lines[k].key # "label"
       PROVE  \E x \in DOMAIN f[i].lines : f[i].lines[x] = lines[j]
  <2> DEFINE t == SubSeq(lines, i + 1, end(i))
  <2>1. /\ j <= end(i) /\ end(i) \in Nat /\ i \in Nat /\ j \in Nat /\ end(i) <= Len(lines)
        /\ Len(lines) \in Nat /\ DOMAIN lines = 1 .. Len(lines)
    <3>1. j <= end(i) /\ end(i) \in (i + 1) - 1 .. Len(lines)
      BY <1>4, <1>40, <1>50
    <3>2. Len(lines) \in Nat /\ DOMAIN lines = 1 .. Len(lines)
      OBVIOUS
    <3>3. i \in Nat /\ j \in Nat
      BY <1>30, <3>2
    <3> QED
      BY <3>1, <3>2, <3>3
  <2>2. t = [x \in 1 .. end(i) - (i + 1) + 1 |-> lines[x + (i + 1) - 1]]
    BY <1>50, <2>1
  <2>3. j - i \in 1 .. end(i) - (i + 1) + 1 /\ (j - i) + (i + 1) - 1 = j
    BY <1>50, <2>1
  <2> HIDE DEF t
  <2>4. j - i \in DOMAIN t /\ t[j - i] = lines[j]
    BY <2>2, <2>3
  <2>5. f[i].lines = t
    BY DEF t
  <2> QED
    BY <2>4, <2>5
<1>5. ASSUME NEW i \in LabelsOf(lines) PROVE Numbered(SubSeq(lines, i + 1, end(i)))
  <2>1. SubSeq(lines, i + 1, end(i)) \in Seq(Range(lines))
    BY <1>4, SubSeqProperties
  <2> QED
    BY <2>1, SeqNumbered
<1>6. /\ ExtlinuxEntries(lines) = {f[i] : i \in LabelsOf(lines)}
      /\ \A i \in LabelsOf(lines) : f[i].label = lines[i].value
      /\ \A i \in LabelsOf(lines) : Numbered(f[i].lines)
  BY <1>2, <1>5
<1>60. \A i \in LabelsOf(lines), j \in DOMAIN lines :
          i < j /\ (\A k \in i + 1 .. j : lines[k].key # "label")
            => \E x \in DOMAIN f[i].lines : f[i].lines[x] = lines[j]
  BY <1>50
<1> HIDE DEF f
<1>70. SplitAs(lines, f)
  BY <1>6, <1>60, Zenon DEF SplitAs
<1> QED
  BY <1>70

\* An entry has the device tree its file asks for.
HasItsTree(fs, e) ==
    /\ e.source = 0 /\ (\E f \in fs.bls : f.name = e.id /\ BlsAsks(f)) => e.dtb # NoDtb
    /\ e.source # 0 /\ ExtlinuxAsks(fs.extlinux[e.source], e.id) => e.dtb # NoDtb

FileEntries(fs, k) ==
    UNION {extlinux_boot_entry(fs, k, ExtlinuxDefault(fs.extlinux[k]), e) :
           e \in ExtlinuxEntries(fs.extlinux[k])}

\* The entries of one extlinux file have names of their own, and their trees.
LEMMA ExtlinuxFile ==
  ASSUME NEW fs, ReadableFs(fs), NEW k \in DOMAIN fs.extlinux, NEW X, X = FileEntries(fs, k)
  PROVE  Scanned(fs, X) /\ \A e \in X : e.source = k /\ HasItsTree(fs, e)
<1> DEFINE lines == fs.extlinux[k]
<1> DEFINE default == ExtlinuxDefault(lines)
<1> DEFINE labels == LabelsOf(lines)
<1>1. /\ lines \in Seq(Range(lines)) /\ k \in Nat /\ k # 0
      /\ \A i, j \in labels : /\ Head(lines[i].value).name \in Nat
                              /\ Head(lines[i].value).name = Head(lines[j].value).name => i = j
  BY DEF ReadableFs, LabelsOf, Numbered
<1>20. PICK f : SplitAs(lines, f)
  BY <1>1, ExtlinuxEntriesAre
<1>2. /\ ExtlinuxEntries(lines) = {f[i] : i \in labels}
      /\ \A i \in labels : f[i].label = lines[i].value
      /\ \A i \in labels : Numbered(f[i].lines)
      /\ \A i \in labels, j \in DOMAIN lines :
           i < j /\ (\A n \in i + 1 .. j : lines[n].key # "label")
             => \E x \in DOMAIN f[i].lines : f[i].lines[x] = lines[j]
  BY <1>20 DEF SplitAs
<1>3. IsFiniteSet(labels)
  <2>1. IsFiniteSet(DOMAIN lines) /\ labels \in SUBSET DOMAIN lines
    BY <1>1, SeqNumbered DEF Numbered, LabelsOf
  <2> QED
    BY <2>1, FS_Subset
<1>30. X = UNION {extlinux_boot_entry(fs, k, default, e) : e \in ExtlinuxEntries(lines)}
  BY DEF FileEntries
<1>31. ASSUME NEW id, ExtlinuxAsks(lines, id)
       PROVE  \E i \in labels : /\ Head(lines[i].value).name = id
                                 /\ \E x \in DOMAIN f[i].lines :
                                      f[i].lines[x].key \in {"fdt", "devicetree"}
  <2>1. PICK i \in DOMAIN lines, j \in DOMAIN lines :
               /\ i < j /\ \A n \in i + 1 .. j : lines[n].key # "label"
               /\ lines[i].key = "label" /\ lines[i].value # Empty /\ Head(lines[i].value).name = id
               /\ lines[j].key \in {"fdt", "devicetree"}
    BY <1>31 DEF ExtlinuxAsks
  <2>2. i \in labels
    BY <2>1 DEF LabelsOf
  <2>3. PICK x \in DOMAIN f[i].lines : f[i].lines[x] = lines[j]
    BY <1>2, <2>1, <2>2
  <2> QED
    BY <2>1, <2>2, <2>3
<1>32. fs.extlinux[k] = lines
  OBVIOUS
<1> HIDE DEF lines, labels, default
<1> DEFINE made(i) == extlinux_boot_entry(fs, k, default, f[i])
<1>4. \A i \in labels : ExtlinuxMade(fs, k, f[i], made(i))
  BY <1>2, ExtlinuxMakes
<1>5. X = UNION {made(i) : i \in labels}
  BY <1>2, <1>30
<1> HIDE DEF made
<1>6. \A i \in labels : IsFiniteSet(made(i))
  BY <1>4, AtMostOne DEF ExtlinuxMade
<1>7. IsFiniteSet(X)
  <2> DEFINE all == {made(i) : i \in labels}
  <2> DEFINE g == [i \in labels |-> made(i)]
  <2>1. g \in Surjection(labels, all)
    BY DEF Surjection
  <2>2. \A T \in all : IsFiniteSet(T)
    BY <1>6
  <2> HIDE DEF all, g
  <2>3. IsFiniteSet(all)
    BY <1>3, <2>1, FS_Surjection
  <2>4. X = UNION all
    BY <1>5 DEF all
  <2> QED
    BY <2>2, <2>3, <2>4, FS_UNION
<1>8. ASSUME NEW e \in X
      PROVE  /\ e.id \in Nat /\ e.source = k /\ e.boot_order \in {0, 1} /\ Loadable(fs, e)
             /\ \E i \in labels : e \in made(i) /\ e.id = Head(lines[i].value).name
  <2>1. PICK i \in labels : e \in made(i)
    BY <1>5
  <2>2. e.id = Head(lines[i].value).name /\ e.source = k /\ e.boot_order \in {0, 1} /\ Loadable(fs, e)
    BY <1>2, <1>4, <2>1 DEF ExtlinuxMade
  <2> QED
    BY <1>1, <2>1, <2>2
<1>10. ASSUME NEW e \in X PROVE HasItsTree(fs, e)
  <2>1. PICK i \in labels : e \in made(i) /\ e.id = Head(lines[i].value).name
    BY <1>8
  <2>2. e.source = k /\ k # 0
    BY <1>1, <1>8
  <2>3. ASSUME ExtlinuxAsks(lines, e.id) PROVE e.dtb # NoDtb
    <3>1. PICK j \in labels : /\ Head(lines[j].value).name = e.id
                             /\ \E x \in DOMAIN f[j].lines : f[j].lines[x].key \in {"fdt", "devicetree"}
      BY <1>31, <2>3
    <3>2. i = j
      BY <1>1, <2>1, <3>1
    <3> QED
      BY <1>4, <2>1, <3>1, <3>2 DEF ExtlinuxMade
  <2> QED
    BY <1>32, <2>2, <2>3 DEF HasItsTree
<1>9. ASSUME NEW e \in X, NEW g \in X, e.id = g.id PROVE e = g
  <2>1. PICK i \in labels : e \in made(i) /\ e.id = Head(lines[i].value).name
    BY <1>8
  <2>2. PICK j \in labels : g \in made(j) /\ g.id = Head(lines[j].value).name
    BY <1>8
  <2>3. i = j
    BY <1>1, <1>9, <2>1, <2>2
  <2> QED
    BY <1>4, <2>1, <2>2, <2>3 DEF ExtlinuxMade
<1> QED
  BY <1>1, <1>7, <1>8, <1>9, <1>10 DEF Scanned

\* The entries of the BLS directory have the names of its files.
LEMMA BlsDirectory ==
  ASSUME NEW fs, ReadableFs(fs), NEW dt, NEW variables, NEW X, X = scan_bls_entries(fs, dt, variables)
  PROVE  Scanned(fs, X) /\ \A e \in X : e.source = 0 /\ HasItsTree(fs, e)
<1> DEFINE made(f) == parse_bls_file(fs, dt, f, variables)
<1>1. /\ IsFiniteSet(fs.bls)
      /\ \A f \in fs.bls : /\ f.name \in Nat /\ Numbered(f.lines)
                           /\ \A i \in DOMAIN f.lines : f.lines[i].value # Empty
      /\ \A f, g \in fs.bls : g.name = f.name => g = f
  BY DEF ReadableFs
<1>2. \A f \in fs.bls : BlsMade(fs, f, made(f))
  BY <1>1, BlsMakes
<1>3. X = {} \/ X = UNION {made(f) : f \in fs.bls}
  BY DEF scan_bls_entries
<1> HIDE DEF made
<1>4. \A f \in fs.bls : IsFiniteSet(made(f))
  BY <1>2, AtMostOne DEF BlsMade
<1>5. IsFiniteSet(X)
  <2> DEFINE all == {made(f) : f \in fs.bls}
  <2> DEFINE g == [f \in fs.bls |-> made(f)]
  <2>1. g \in Surjection(fs.bls, all)
    BY DEF Surjection
  <2>2. \A T \in all : IsFiniteSet(T)
    BY <1>4
  <2>3. X = {} \/ X = UNION all
    BY <1>3
  <2> HIDE DEF all, g
  <2>4. IsFiniteSet(all)
    BY <1>1, <2>1, FS_Surjection
  <2>5. IsFiniteSet(UNION all)
    BY <2>2, <2>4, FS_UNION
  <2> QED
    BY <2>3, <2>5, FS_EmptySet
<1>6. ASSUME NEW e \in X
      PROVE  \E f \in fs.bls : /\ e \in made(f) /\ e.id = f.name /\ e.source = 0 /\ e.boot_order \in {0, 1}
                               /\ Loadable(fs, e) /\ (BlsAsks(f) => e.dtb # NoDtb)
  <2>1. PICK f \in fs.bls : e \in made(f)
    BY <1>3
  <2> QED
    BY <1>2, <2>1 DEF BlsMade
<1>7. ASSUME NEW e \in X, NEW g \in X, e.id = g.id PROVE e = g
  <2>1. PICK x \in fs.bls : e \in made(x) /\ e.id = x.name
    BY <1>6
  <2>2. PICK y \in fs.bls : g \in made(y) /\ g.id = y.name
    BY <1>6
  <2>3. x = y
    BY <1>1, <1>7, <2>1, <2>2
  <2> QED
    BY <1>2, <2>1, <2>2, <2>3 DEF BlsMade
<1>8. ASSUME NEW e \in X PROVE e.source = 0 /\ HasItsTree(fs, e) /\ e.id \in Nat
  <2>1. PICK f \in fs.bls : e.id = f.name /\ e.source = 0 /\ (BlsAsks(f) => e.dtb # NoDtb)
    BY <1>6
  <2> QED
    BY <1>1, <2>1 DEF HasItsTree
<1>9. \A e \in X : e.boot_order \in {0, 1} /\ Loadable(fs, e) /\ e.source \in Nat
  BY <1>6
<1> QED
  BY <1>5, <1>7, <1>8, <1>9 DEF Scanned

\* A scan gives entries that can be loaded, told apart by name and source.
LEMMA ScanGives ==
  ASSUME NEW fs, ReadableFs(fs), NEW dt
  PROVE  Scanned(fs, ScanMounted(fs, dt)) /\ \A e \in ScanMounted(fs, dt) : HasItsTree(fs, e)
<1> DEFINE B == scan_bls_entries(fs, dt, BlsContext(fs))
<1> DEFINE from(k) == FileEntries(fs, k)
<1> DEFINE all == {from(k) : k \in DOMAIN fs.extlinux}
<1>1. Scanned(fs, B) /\ \A e \in B : e.source = 0 /\ HasItsTree(fs, e)
  BY BlsDirectory
<1>2. \A k \in DOMAIN fs.extlinux :
        Scanned(fs, from(k)) /\ \A e \in from(k) : e.source = k /\ HasItsTree(fs, e)
  BY ExtlinuxFile
<1>3. ScanMounted(fs, dt) = B \cup UNION all
  BY DEF ScanMounted, scan_extlinux_entries, FileEntries
<1>4. IsFiniteSet(DOMAIN fs.extlinux) /\ \A k \in DOMAIN fs.extlinux : k \in Nat /\ k # 0
  BY DEF ReadableFs, Numbered
<1>5. \A e \in UNION all : \E k \in DOMAIN fs.extlinux : e \in from(k)
  OBVIOUS
<1> HIDE DEF B, from
<1>6. IsFiniteSet(UNION all)
  <2> DEFINE g == [k \in DOMAIN fs.extlinux |-> from(k)]
  <2>1. g \in Surjection(DOMAIN fs.extlinux, all)
    BY DEF Surjection
  <2>2. \A T \in all : IsFiniteSet(T)
    BY <1>2 DEF Scanned
  <2> HIDE DEF all, g
  <2>3. IsFiniteSet(all)
    BY <1>4, <2>1, FS_Surjection
  <2> QED
    BY <2>2, <2>3, FS_UNION
<1> HIDE DEF all
<1>7. IsFiniteSet(ScanMounted(fs, dt))
  <2>1. IsFiniteSet(B)
    BY <1>1 DEF Scanned
  <2> QED
    BY <1>3, <1>6, <2>1, FS_Union
<1>8. ASSUME NEW e \in UNION all
      PROVE  /\ e.id \in Nat /\ e.source \in Nat \ {0} /\ e.boot_order \in {0, 1} /\ Loadable(fs, e)
             /\ HasItsTree(fs, e)
             /\ e.source \in DOMAIN fs.extlinux /\ e \in from(e.source)
  <2>1. PICK k \in DOMAIN fs.extlinux : e \in from(k)
    BY <1>5
  <2>2. /\ e.id \in Nat /\ e.boot_order \in {0, 1} /\ Loadable(fs, e) /\ e.source = k
        /\ HasItsTree(fs, e)
    BY <1>2, <2>1 DEF Scanned
  <2> QED
    BY <1>4, <2>1, <2>2
<1>9. \A e \in B : /\ e.id \in Nat /\ e.source = 0 /\ e.boot_order \in {0, 1} /\ Loadable(fs, e)
                   /\ HasItsTree(fs, e)
  BY <1>1 DEF Scanned
<1>10. ASSUME NEW e \in ScanMounted(fs, dt), NEW f \in ScanMounted(fs, dt), e.id = f.id, e.source = f.source
       PROVE  e = f
  <2>1. CASE e.source = 0
    <3>1. e \in B /\ f \in B
      BY <1>3, <1>8, <1>10, <2>1
    <3> QED
      BY <1>1, <1>10, <3>1 DEF Scanned
  <2>2. CASE e.source # 0
    <3>1. e \in UNION all /\ f \in UNION all
      BY <1>3, <1>9, <1>10, <2>2
    <3>2. e.source \in DOMAIN fs.extlinux /\ e \in from(e.source) /\ f \in from(e.source)
      BY <1>8, <1>10, <3>1
    <3> QED
      BY <1>2, <1>10, <3>2 DEF Scanned
  <2> QED
    BY <2>1, <2>2
<1>11. \A e \in ScanMounted(fs, dt) : /\ e.id \in Nat /\ e.source \in Nat /\ e.boot_order \in {0, 1}
                                      /\ Loadable(fs, e) /\ HasItsTree(fs, e)
  BY <1>3, <1>8, <1>9
<1> QED
  BY <1>7, <1>10, <1>11 DEF Scanned

-----------------------------------------------------------------------------
(* What the machine has. *)

\* The machine is one of those assumed, and its partitions do not change.
MachineInv ==
    /\ machine \in Machines
    /\ holds = [p \in PartitionNames(machine) |-> ScanMounted(PartitionFs(p), machine.dt)]

PlainSource(s) ==
    \E d \in DOMAIN machine.disks : \E n \in DOMAIN Disk(d).parts : \E r \in {"xbootldr", "esp"} :
        d \in Nat /\ n \in Nat /\ s = <<r, <<d, n>>>>
NestedSource(s) ==
    \E d \in DOMAIN machine.disks : \E o \in DOMAIN Disk(d).outer : \E n \in DOMAIN Disk(d).outer[o].mbr :
        d \in Nat /\ o \in Nat /\ n \in Nat /\ s = <<"nested", <<d, o, n>>>>

\* The tables of a disk are numbered.
LEMMA Tables ==
  ASSUME MachineInv
  PROVE  /\ IsFiniteSet(DOMAIN machine.disks)
         /\ \A d \in DOMAIN machine.disks :
              /\ d \in Nat
              /\ Numbered(Disk(d).gpt.entries) /\ Numbered(Disk(d).mbr) /\ Numbered(Disk(d).outer)
              /\ \A o \in DOMAIN Disk(d).outer : Numbered(Disk(d).outer[o].mbr)
         /\ \A p \in PartitionNames(machine) : ReadableFs(PartitionFs(p))
<1>1. ReadableMachine(machine)
  BY MachinesAssumption DEF MachineInv
<1> QED
  BY <1>1 DEF ReadableMachine, Numbered, Disk, PartitionFs

\* The entries of the tables are numbers.
LEMMA TableNumbers ==
  ASSUME MachineInv, NEW d \in DOMAIN machine.disks
  PROVE  /\ IsFiniteSet(GptEntries(Disk(d)))
         /\ \A n \in GptEntries(Disk(d)) : /\ n \in Nat /\ n \in DOMAIN Disk(d).parts
                                           /\ Disk(d).gpt.entries[n].role \in {"xbootldr", "esp"}
         /\ IsFiniteSet(parse_mbr_boot_entries(Disk(d)))
         /\ \A n \in parse_mbr_boot_entries(Disk(d)) : n \in Nat /\ n \in DOMAIN Disk(d).parts
         /\ IsFiniteSet(userdata_partitions(Disk(d)))
         /\ \A o \in userdata_partitions(Disk(d)) :
              /\ o \in Nat /\ o \in DOMAIN Disk(d).outer
              /\ IsFiniteSet(NestedEntries(Disk(d).outer[o]))
              /\ \A n \in NestedEntries(Disk(d).outer[o]) : n \in Nat /\ n \in DOMAIN Disk(d).outer[o].mbr
<1> DEFINE D == Disk(d)
<1>1. /\ Numbered(D.gpt.entries) /\ Numbered(D.mbr) /\ Numbered(D.outer)
      /\ \A o \in DOMAIN D.outer : Numbered(D.outer[o].mbr)
  BY Tables
<1> HIDE DEF D
<1>2. /\ GptEntries(D) \in SUBSET DOMAIN D.gpt.entries
      /\ \A n \in GptEntries(D) : n \in DOMAIN D.parts /\ D.gpt.entries[n].role \in {"xbootldr", "esp"}
  BY DEF GptEntries
<1>3. /\ parse_mbr_boot_entries(D) \in SUBSET DOMAIN D.mbr
      /\ \A n \in parse_mbr_boot_entries(D) : n \in DOMAIN D.parts
  BY DEF parse_mbr_boot_entries
<1>4. userdata_partitions(D) \in SUBSET DOMAIN D.outer
  BY DEF userdata_partitions
<1>5. \A o : NestedEntries(D.outer[o]) \in SUBSET DOMAIN D.outer[o].mbr
  BY DEF NestedEntries
<1>6. /\ IsFiniteSet(GptEntries(D)) /\ IsFiniteSet(parse_mbr_boot_entries(D))
      /\ IsFiniteSet(userdata_partitions(D))
  BY <1>1, <1>2, <1>3, <1>4, FS_Subset DEF Numbered
<1>7. \A o \in userdata_partitions(D) : IsFiniteSet(NestedEntries(D.outer[o]))
  BY <1>1, <1>4, <1>5, FS_Subset DEF Numbered
<1>8. /\ \A n \in GptEntries(D) : n \in Nat
      /\ \A n \in parse_mbr_boot_entries(D) : n \in Nat
      /\ \A o \in userdata_partitions(D) :
           o \in Nat /\ o \in DOMAIN D.outer /\ \A n \in NestedEntries(D.outer[o]) : n \in Nat
  BY <1>1, <1>2, <1>3, <1>4, <1>5 DEF Numbered
<1>9. \A o \in userdata_partitions(D) : \A n \in NestedEntries(D.outer[o]) : n \in DOMAIN D.outer[o].mbr
  BY <1>5
<1> QED
  BY <1>2, <1>3, <1>6, <1>7, <1>8, <1>9 DEF D

\* A source is a partition of a table or one nested in another.
LEMMA SourceIs ==
  ASSUME MachineInv, NEW s \in Sources
  PROVE  /\ PlainSource(s) \/ NestedSource(s)
         /\ s[2] \in PartitionNames(machine) /\ s = <<s[1], s[2]>>
<1>1. PICK d \in local_disk_candidates(machine) : s \in SourcesOn(d)
  BY DEF Sources
<1>2. d \in DOMAIN machine.disks /\ d \in Nat
  BY Tables DEF local_disk_candidates
<1>3. CASE \E n \in GptEntries(Disk(d)) : s = <<Disk(d).gpt.entries[n].role, <<d, n>>>>
  <2>1. PICK n \in GptEntries(Disk(d)) : s = <<Disk(d).gpt.entries[n].role, <<d, n>>>>
    BY <1>3
  <2> QED
    BY <1>2, <2>1, TableNumbers DEF PlainSource, PartitionNames, Disk
<1>4. CASE \E n \in parse_mbr_boot_entries(Disk(d)) : s = <<"xbootldr", <<d, n>>>>
  <2>1. PICK n \in parse_mbr_boot_entries(Disk(d)) : s = <<"xbootldr", <<d, n>>>>
    BY <1>4
  <2> QED
    BY <1>2, <2>1, TableNumbers DEF PlainSource, PartitionNames, Disk
<1>5. CASE \E o \in userdata_partitions(Disk(d)) : \E n \in NestedEntries(Disk(d).outer[o]) :
             s = <<"nested", <<d, o, n>>>>
  <2>1. PICK o \in userdata_partitions(Disk(d)) : \E n \in NestedEntries(Disk(d).outer[o]) :
             s = <<"nested", <<d, o, n>>>>
    BY <1>5
  <2>2. PICK n \in NestedEntries(Disk(d).outer[o]) : s = <<"nested", <<d, o, n>>>>
    BY <2>1
  <2>3. o \in Nat /\ o \in DOMAIN Disk(d).outer /\ n \in Nat /\ n \in DOMAIN Disk(d).outer[o].mbr
    BY <1>2, TableNumbers
  <2> QED
    BY <1>2, <2>2, <2>3 DEF NestedSource, PartitionNames, Disk
<1> QED
  BY <1>1, <1>3, <1>4, <1>5 DEF SourcesOn

\* What a source's entries have in common.
LEMMA FindsAre ==
  ASSUME MachineInv, NEW s \in Sources
  PROVE  /\ IsFiniteSet(Finds[s])
         /\ \A e \in Finds[s] :
              /\ e.role = s[1] /\ e.partition = s[2] /\ e.disk = s[2][1]
              /\ e.id \in Nat /\ e.source \in Nat /\ e.boot_order \in {0, 1}
              /\ Loadable(PartitionFs(e.partition), e) /\ HasItsTree(PartitionFs(e.partition), e)
         /\ \A e, f \in Finds[s] : e.id = f.id /\ e.source = f.source => e = f
<1> DEFINE fs == PartitionFs(s[2])
<1> DEFINE c == [role |-> s[1], disk |-> s[2][1], partition |-> s[2]]
<1> DEFINE X == holds[s[2]]
<1> DEFINE put(e) == [role |-> c.role, disk |-> c.disk, partition |-> c.partition, id |-> e.id,
                      source |-> e.source, preferred |-> e.preferred, boot_order |-> e.boot_order,
                      linux |-> e.linux, initrds |-> e.initrds, dtb |-> e.dtb, options |-> e.options]
<1>1. s[2] \in PartitionNames(machine)
  BY SourceIs
<1>2. X = ScanMounted(fs, machine.dt) /\ ReadableFs(fs)
  BY <1>1, Tables DEF MachineInv
<1>3. Scanned(fs, X) /\ \A e \in X : HasItsTree(fs, e)
  <2> HIDE DEF X, fs
  <2> QED
    BY <1>2, ScanGives
<1>4. Finds[s] = {} \/ Finds[s] = Labelled(c, X)
  BY DEF Finds
<1>5. Labelled(c, X) = {put(e) : e \in X}
  BY DEF Labelled
<1>6. \A e \in X : /\ put(e).role = s[1] /\ put(e).partition = s[2] /\ put(e).disk = s[2][1]
                   /\ put(e).id = e.id /\ put(e).source = e.source /\ put(e).boot_order = e.boot_order
                   /\ put(e).linux = e.linux /\ put(e).initrds = e.initrds /\ put(e).dtb = e.dtb
  OBVIOUS
<1> HIDE DEF fs, X, c, put
<1>7. IsFiniteSet(Finds[s])
  <2> DEFINE g == [e \in X |-> put(e)]
  <2> DEFINE Y == {put(e) : e \in X}
  <2>1. g \in Surjection(X, Y)
    BY DEF Surjection
  <2>2. Finds[s] = {} \/ Finds[s] = Y
    BY <1>4, <1>5
  <2> HIDE DEF g, Y
  <2>3. IsFiniteSet(Y)
    BY <1>3, <2>1, FS_Surjection DEF Scanned
  <2> QED
    BY <2>2, <2>3, FS_EmptySet
<1>8. \A e \in Finds[s] : \E x \in X : e = put(x)
  BY <1>4, <1>5
<1>9. ASSUME NEW e \in Finds[s]
      PROVE  /\ e.role = s[1] /\ e.partition = s[2] /\ e.disk = s[2][1]
             /\ e.id \in Nat /\ e.source \in Nat /\ e.boot_order \in {0, 1}
             /\ Loadable(PartitionFs(e.partition), e) /\ HasItsTree(PartitionFs(e.partition), e)
  <2>1. PICK x \in X : e = put(x)
    BY <1>8
  <2>2. /\ e.role = s[1] /\ e.partition = s[2] /\ e.disk = s[2][1]
        /\ e.id = x.id /\ e.source = x.source /\ e.boot_order = x.boot_order
        /\ e.linux = x.linux /\ e.initrds = x.initrds /\ e.dtb = x.dtb
    BY <1>6, <2>1
  <2>3. Loadable(fs, e) /\ HasItsTree(fs, e) /\ e.id \in Nat /\ e.source \in Nat /\ e.boot_order \in {0, 1}
    BY <1>3, <2>2 DEF Loadable, HasItsTree, Scanned
  <2> QED
    BY <2>2, <2>3 DEF fs
<1>10. ASSUME NEW e \in Finds[s], NEW f \in Finds[s], e.id = f.id, e.source = f.source PROVE e = f
  <2>1. PICK x \in X : e = put(x)
    BY <1>8
  <2>2. PICK y \in X : f = put(y)
    BY <1>8
  <2>3. x.id = y.id /\ x.source = y.source
    BY <1>6, <1>10, <2>1, <2>2
  <2> QED
    BY <1>3, <2>1, <2>2, <2>3 DEF Scanned
<1> QED
  BY <1>7, <1>9, <1>10

AllFinds == UNION {Finds[s] : s \in Sources}

\* An entry names its source.
LEMMA EntrySource ==
  ASSUME MachineInv, NEW e \in AllFinds
  PROVE  <<e.role, e.partition>> \in Sources /\ e \in Finds[<<e.role, e.partition>>]
<1>1. PICK s \in Sources : e \in Finds[s]
  BY DEF AllFinds
<1>2. e.role = s[1] /\ e.partition = s[2] /\ s = <<s[1], s[2]>>
  BY <1>1, FindsAre, SourceIs
<1> QED
  BY <1>1, <1>2

\* The number of the table, the partition and the place of a source.
LEMMA SourceNumbers ==
  ASSUME MachineInv, NEW s \in Sources
  PROVE  /\ s[2][1] \in Nat /\ s[2][2] \in Nat /\ Last(s[2]) \in Nat
         /\ s[1] \in {"xbootldr", "esp", "nested"}
         /\ s[2] = IF s[1] = "nested" THEN <<s[2][1], s[2][2], Last(s[2])>> ELSE <<s[2][1], s[2][2]>>
<1>1. CASE PlainSource(s)
  <2>1. PICK d \in Nat, n \in Nat, r \in {"xbootldr", "esp"} : s = <<r, <<d, n>>>>
    BY <1>1 DEF PlainSource
  <2> QED
    BY <2>1 DEF Last
<1>2. CASE NestedSource(s)
  <2>1. PICK d \in Nat, o \in Nat, n \in Nat : s = <<"nested", <<d, o, n>>>>
    BY <1>2 DEF NestedSource
  <2> QED
    BY <2>1 DEF Last
<1> QED
  BY <1>1, <1>2, SourceIs

\* No two entries of the machine have the same key.
LEMMA FindsKeyed ==
  ASSUME MachineInv
  PROVE  Keyed(AllFinds)
<1>1. ASSUME NEW e \in AllFinds
      PROVE  /\ priority(e.role) \in {0, 1, 2} /\ 1 - Flag(e.preferred) \in Int
             /\ e.role \in {"xbootldr", "esp", "nested"}
             /\ e.disk = e.partition[1]
             /\ e.disk \in Int /\ e.partition[2] \in Int /\ Last(e.partition) \in Int
             /\ e.boot_order \in Int /\ e.id \in Int /\ e.source \in Int
             /\ e.partition = IF e.role = "nested" THEN <<e.disk, e.partition[2], Last(e.partition)>>
                              ELSE <<e.disk, e.partition[2]>>
  <2> DEFINE s == <<e.role, e.partition>>
  <2>1. s \in Sources /\ e \in Finds[s] /\ s[1] = e.role /\ s[2] = e.partition
    BY EntrySource
  <2> HIDE DEF s
  <2>2. e.disk = s[2][1] /\ e.id \in Nat /\ e.source \in Nat /\ e.boot_order \in {0, 1}
    BY <2>1, FindsAre
  <2>3. /\ e.role \in {"xbootldr", "esp", "nested"}
        /\ e.partition[1] \in Nat /\ e.partition[2] \in Nat /\ Last(e.partition) \in Nat
        /\ e.partition = IF e.role = "nested" THEN <<e.partition[1], e.partition[2], Last(e.partition)>>
                         ELSE <<e.partition[1], e.partition[2]>>
    BY <2>1, SourceNumbers
  <2>4. priority(e.role) \in {0, 1, 2}
    BY <2>3 DEF priority
  <2>5. 1 - Flag(e.preferred) \in Int
    BY DEF Flag
  <2>6. e.disk = e.partition[1]
    BY <2>1, <2>2
  <2>7. e.boot_order \in Int /\ e.id \in Int /\ e.source \in Int
    BY <2>2
  <2> QED
    BY <2>3, <2>4, <2>5, <2>6, <2>7
<1>2. ASSUME NEW e \in AllFinds PROVE EntryKey(e) \in [1 .. 8 -> Int]
  <2> DEFINE a == priority(e.role)
  <2> DEFINE b == 1 - Flag(e.preferred)
  <2> DEFINE c == Last(e.partition)
  <2>1. a \in Int /\ b \in Int /\ c \in Int /\ e.disk \in Int /\ e.partition[2] \in Int
        /\ e.boot_order \in Int /\ -e.id \in Int /\ e.source \in Int
    <3>1. a \in {0, 1, 2} /\ b \in Int /\ c \in Int /\ e.disk \in Int /\ e.partition[2] \in Int
          /\ e.boot_order \in Int /\ e.id \in Int /\ e.source \in Int
      BY <1>1
    <3> HIDE DEF a, b, c
    <3> QED
      BY <3>1
  <2>2. EntryKey(e) = <<a, b, e.disk, e.partition[2], c, e.boot_order, -e.id, e.source>>
    BY DEF EntryKey
  <2> HIDE DEF a, b, c
  <2>3. <<a, b, e.disk, e.partition[2], c, e.boot_order, -e.id, e.source>> \in [1 .. 8 -> Int]
    BY <2>1
  <2> QED
    BY <2>2, <2>3
<1>3. ASSUME NEW e \in AllFinds, NEW f \in AllFinds, EntryKey(e) = EntryKey(f) PROVE e = f
  <2>1. /\ priority(e.role) = priority(f.role) /\ e.disk = f.disk /\ e.partition[2] = f.partition[2]
        /\ Last(e.partition) = Last(f.partition) /\ -e.id = -f.id /\ e.source = f.source
    BY <1>3 DEF EntryKey
  <2>2. e.role = f.role
    <3>1. e.role \in {"xbootldr", "esp", "nested"} /\ f.role \in {"xbootldr", "esp", "nested"}
      BY <1>1
    <3> QED
      BY <2>1, <3>1 DEF priority
  <2>3. e.partition = f.partition
    BY <1>1, <2>1, <2>2
  <2>4. e.id = f.id
    <3>1. e.id \in Int /\ f.id \in Int
      BY <1>1
    <3> QED
      BY <2>1, <3>1
  <2>5. <<e.role, e.partition>> = <<f.role, f.partition>>
    BY <2>2, <2>3
  <2>6. PICK s \in Sources : e \in Finds[s] /\ f \in Finds[s]
    BY <2>5, EntrySource
  <2> QED
    BY <2>1, <2>4, <2>6, FindsAre
<1> QED
  BY <1>2, <1>3 DEF Keyed

-----------------------------------------------------------------------------
(* The inductive invariant. *)

Holders == ({"candidate", "mount"} \X Seq(Nat)) \cup ({"task"} \X Nat \X Nat)
DiskTasks == [step : {"tables", "outer", "map", "configure", "sent"}, found : Seq(Cands), outers : Seq(Nat),
              todo : Seq(Nat), mapped : Seq(Cands), number : Nat]
ScanTasks == [step : {"mount", "sent", "received"}, fs : Seq(Nat)]
LoopDevices == [of : Seq(Nat), open : SUBSET Holders]

\* The types.
TypeInv ==
    /\ stage \in {"list", "disks", "scan", "complete"}
    /\ disk \in [DOMAIN disk -> DiskTasks]
    /\ lo \in [Loops -> LoopDevices]
    /\ gathered \in Seq(Cands) /\ candidates \in Seq(Cands)
    /\ scanner \in [DOMAIN candidates -> ScanTasks]

\* What is not begun is empty.
StageInv ==
    /\ stage = "disks" => DOMAIN disk = local_disk_candidates(machine)
    /\ stage = "list" => gathered = <<>>
    /\ stage \in {"list", "disks"} => candidates = <<>>

Distinct(s) == \A i, j \in DOMAIN s : s[i] = s[j] => i = j

\* A candidate for a boot partition of the disk.
CandOn(d, c) == c \in Cands /\ c.disk = d /\ Label(c) \in SourcesOn(d)

\* A task has each of its partitions in one place: found, mapped, to do, or in
\* an outer partition that it did not open yet.
TaskInv(d, t) ==
    /\ \A i \in DOMAIN t.found : CandOn(d, t.found[i])
    /\ NestedOnce(t.found)
    /\ Distinct(t.outers) /\ \A i \in DOMAIN t.outers : t.outers[i] \in userdata_partitions(Disk(d))
    /\ \A i \in DOMAIN t.found : t.found[i].role = "nested" =>
          \A j \in DOMAIN t.outers : t.found[i].partition[2] # t.outers[j]
    /\ t.step \in {"map", "configure"} =>
          /\ t.outers # <<>> /\ Distinct(t.todo)
          /\ \A i \in DOMAIN t.todo : t.todo[i] \in NestedEntries(Disk(d).outer[t.outers[1]])
          /\ \A i \in DOMAIN t.mapped :
                /\ CandOn(d, t.mapped[i]) /\ t.mapped[i].role = "nested"
                /\ t.mapped[i].partition[2] = t.outers[1]
                /\ \A j \in DOMAIN t.todo : t.mapped[i].partno # t.todo[j]
          /\ NestedOnce(t.mapped)
    /\ t.step \notin {"map", "configure"} => t.mapped = <<>>
    /\ t.step = "configure" => t.todo # <<>> /\ t.number \in Loops
    /\ t.step = "sent" => t.outers = <<>>

\* The candidate's file keeps its mapping.
Held(l, c) == l[c.dev[2]].of = c.partition /\ <<"candidate", c.partition>> \in l[c.dev[2]].open

\* So do all that a task has mapped.
TaskHolds(l, t) ==
    /\ \A i \in DOMAIN t.found : t.found[i].role = "nested" => Held(l, t.found[i])
    /\ \A i \in DOMAIN t.mapped : t.mapped[i].role = "nested" => Held(l, t.mapped[i])

\* A device that a task is about to configure is free or taken by another disk.
Unraced(l, d, t) == t.step = "configure" => l[t.number].of = Free \/ l[t.number].of[1] # d

\* A boot partition that the task has found, or will find unless it is in a race.
Pending(t, s) ==
    \/ \E i \in DOMAIN t.found : Label(t.found[i]) = s
    \/ /\ s[1] = "nested" /\ \E j \in DOMAIN t.outers : s[2][2] = t.outers[j]
       /\ t.step \in {"map", "configure"} /\ s[2][2] = t.outers[1] =>
            \/ \E j \in DOMAIN t.todo : s[2][3] = t.todo[j]
            \/ \E i \in DOMAIN t.mapped : Label(t.mapped[i]) = s

LoopInv == \A n \in Loops : lo[n].of # Free => <<"nested", lo[n].of>> \in Sources

DisksInv ==
    stage = "disks" => \A d \in DOMAIN disk :
        /\ TaskInv(d, disk[d]) /\ TaskHolds(lo, disk[d]) /\ Unraced(lo, d, disk[d])
        /\ disk[d].step # "tables" => \A s \in SourcesOn(d) : s \in Sure => Pending(disk[d], s)

\* The caller has what the tasks that are done have sent.
GatheredInv ==
    stage = "disks" =>
        /\ \A i \in DOMAIN gathered : \E d \in DOMAIN disk :
              disk[d].step = "sent" /\ \E j \in DOMAIN disk[d].found : gathered[i] = disk[d].found[j]
        /\ \A d \in DOMAIN disk : disk[d].step = "sent" =>
              \A j \in DOMAIN disk[d].found : \E i \in DOMAIN gathered : gathered[i] = disk[d].found[j]
        /\ NestedOnce(gathered)

CandidatesInv ==
    /\ \A i \in DOMAIN candidates : Label(candidates[i]) \in Sources
    /\ \A i, j \in DOMAIN candidates : Label(candidates[i]) = Label(candidates[j]) => i = j
    /\ stage = "scan" => \A s \in Sure : \E i \in DOMAIN candidates : Label(candidates[i]) = s

\* A task that is done has read the partition its candidate names.
ReadFs(c) == IF PartitionFs(c.partition).type \in Fstypes(c.role) THEN c.partition ELSE Empty

ScanInv ==
    \A i \in DOMAIN candidates :
        /\ scanner[i].fs = IF scanner[i].step = "mount" THEN Empty ELSE ReadFs(candidates[i])
        /\ stage = "scan" /\ scanner[i].step = "mount" /\ candidates[i].role = "nested" =>
             Held(lo, candidates[i])

ListInv == list = entries /\ entries = InOrder(UNION {Finds[t] : t \in Told}, EntryBefore)

\* Unless the machine changes, what it has is the same.
LEMMA SameMachine ==
  ASSUME UNCHANGED <<machine, holds>>
  PROVE  /\ \A d : Disk(d)' = Disk(d)
         /\ \A d : SourcesOn(d)' = SourcesOn(d)
         /\ \A p : PartitionFs(p)' = PartitionFs(p)
         /\ Sources' = Sources /\ Sure' = Sure /\ Finds' = Finds
<1>1. machine' = machine /\ holds' = holds
  OBVIOUS
<1>2. \A d : Disk(d)' = Disk(d)
  BY <1>1 DEF Disk
<1>3. \A d : SourcesOn(d)' = SourcesOn(d)
  BY <1>2 DEF SourcesOn
<1>4. \A p : PartitionFs(p)' = PartitionFs(p)
  BY <1>1 DEF PartitionFs
<1>5. Sources' = Sources
  BY <1>1, <1>3 DEF Sources
<1>6. Sure' = Sure
  BY <1>5 DEF Sure
<1>7. Finds' = Finds
  BY <1>1, <1>4, <1>5 DEF Finds
<1> QED
  BY <1>2, <1>3, <1>4, <1>5, <1>6, <1>7

\* No step changes the machine.
LEMMA MachineStep ==
  ASSUME [Next]_vars
  PROVE  UNCHANGED <<machine, holds>> /\ (MachineInv => MachineInv')
<1>1. UNCHANGED <<machine, holds>>
  BY DEF Next, vars, ListDisks, ListFails, SpawnScanners, Complete, DiskTask, Scanner, ReadTables, OpenOuter,
         GetFree, Configure, ConfigureBusy, OuterDone, DiskDone, ScanPartition, MountFails, Receive
<1>2. MachineInv' <=> MachineInv
  <2>1. \A p : PartitionFs(p)' = PartitionFs(p)
    BY <1>1, SameMachine
  <2> QED
    BY <1>1, <2>1 DEF MachineInv
<1> QED
  BY <1>1, <1>2

\* The machine is one of those assumed.
LEMMA MachineAlways == Spec => []MachineInv
<1>1. Init => MachineInv
  BY DEF Init, MachineInv
<1>2. MachineInv /\ [Next]_vars => MachineInv'
  BY MachineStep
<1> QED
  BY <1>1, <1>2, PTL DEF Spec

-----------------------------------------------------------------------------
(* The tasks of the disks. *)

\* What a task's state says of the machine does not change.
LEMMA SameTask ==
  ASSUME UNCHANGED <<machine, holds>>
  PROVE  \A e, u : TaskInv(e, u)' <=> TaskInv(e, u)
<1>1. /\ \A d : Disk(d)' = Disk(d)
      /\ \A d : SourcesOn(d)' = SourcesOn(d)
  BY SameMachine
<1>2. \A e, c : CandOn(e, c)' <=> CandOn(e, c)
  BY <1>1 DEF CandOn
<1> QED
  BY <1>1, <1>2 DEF TaskInv

\* One task moves on, and the devices that the others hold stay theirs.
LEMMA OneTask ==
  ASSUME UNCHANGED <<machine, holds, stage>>, stage = "disks", DisksInv,
         NEW d \in DOMAIN disk, NEW t, disk' = [disk EXCEPT ![d] = t],
         TaskInv(d, t), TaskHolds(lo', t), Unraced(lo', d, t),
         t.step # "tables" => \A s \in SourcesOn(d) : s \in Sure => Pending(t, s),
         \A e \in DOMAIN disk : e # d => TaskHolds(lo', disk[e]) /\ Unraced(lo', e, disk[e])
  PROVE  DisksInv'
<1>1. /\ \A e : SourcesOn(e)' = SourcesOn(e) /\ Sure' = Sure
      /\ \A e, u : TaskInv(e, u)' <=> TaskInv(e, u)
  BY SameMachine, SameTask
<1>2. DOMAIN disk' = DOMAIN disk /\ disk'[d] = t /\ \A e \in DOMAIN disk : e # d => disk'[e] = disk[e]
  OBVIOUS
<1> SUFFICES ASSUME NEW e \in DOMAIN disk
             PROVE  /\ TaskInv(e, disk[e])' /\ TaskHolds(lo, disk[e])' /\ Unraced(lo, e, disk[e])'
                    /\ disk'[e].step # "tables" => \A s \in SourcesOn(e)' : s \in Sure' => Pending(disk[e], s)'
  BY <1>2 DEF DisksInv
<1>3. CASE e = d
  <2>1. TaskInv(e, disk[e])'
    BY <1>1, <1>2, <1>3
  <2>2. TaskHolds(lo, disk[e])' /\ Unraced(lo, e, disk[e])'
    BY <1>2, <1>3
  <2>3. disk'[e].step # "tables" => \A s \in SourcesOn(e)' : s \in Sure' => Pending(disk[e], s)'
    BY <1>1, <1>2, <1>3
  <2> QED
    BY <2>1, <2>2, <2>3
<1>4. CASE e # d
  <2>1. TaskInv(e, disk[e])'
    BY <1>1, <1>2, <1>4 DEF DisksInv
  <2>2. TaskHolds(lo, disk[e])' /\ Unraced(lo, e, disk[e])'
    BY <1>2, <1>4
  <2>3. disk'[e].step # "tables" => \A s \in SourcesOn(e)' : s \in Sure' => Pending(disk[e], s)'
    BY <1>1, <1>2, <1>4 DEF DisksInv
  <2> QED
    BY <2>1, <2>2, <2>3
<1> QED
  BY <1>3, <1>4

\* f holds what g and m hold.
Joined(f, g, m) ==
    /\ \A i \in DOMAIN f : (\E j \in DOMAIN g : f[i] = g[j]) \/ (\E j \in DOMAIN m : f[i] = m[j])
    /\ \A j \in DOMAIN g : \E i \in DOMAIN f : f[i] = g[j]
    /\ \A j \in DOMAIN m : \E i \in DOMAIN f : f[i] = m[j]

\* Joining two sequences joins what they hold.
LEMMA JoinParts ==
  ASSUME NEW S, NEW g \in Seq(S), NEW m \in Seq(S), NEW f, f = g \o m
  PROVE  f \in Seq(S) /\ Joined(f, g, m)
<1>1. /\ f \in Seq(S) /\ Len(f) = Len(g) + Len(m) /\ Len(g) \in Nat /\ Len(m) \in Nat
      /\ DOMAIN f = 1 .. Len(g) + Len(m) /\ DOMAIN g = 1 .. Len(g) /\ DOMAIN m = 1 .. Len(m)
      /\ \A i \in 1 .. Len(g) + Len(m) : f[i] = IF i <= Len(g) THEN g[i] ELSE m[i - Len(g)]
  OBVIOUS
<1>2. ASSUME NEW i \in DOMAIN f PROVE (\E j \in DOMAIN g : f[i] = g[j]) \/ (\E j \in DOMAIN m : f[i] = m[j])
  <2>1. CASE i <= Len(g)
    <3>1. i \in DOMAIN g /\ f[i] = g[i]
      BY <1>1, <2>1
    <3> QED
      BY <3>1
  <2>2. CASE ~(i <= Len(g))
    <3>1. i - Len(g) \in DOMAIN m /\ f[i] = m[i - Len(g)]
      BY <1>1, <2>2
    <3> QED
      BY <3>1
  <2> QED
    BY <2>1, <2>2
<1>3. ASSUME NEW j \in DOMAIN g PROVE \E i \in DOMAIN f : f[i] = g[j]
  <2>1. j \in DOMAIN f /\ f[j] = g[j]
    BY <1>1
  <2> QED
    BY <2>1
<1>4. ASSUME NEW j \in DOMAIN m PROVE \E i \in DOMAIN f : f[i] = m[j]
  <2> DEFINE i == j + Len(g)
  <2>1. i \in 1 .. Len(g) + Len(m) /\ ~(i <= Len(g)) /\ i - Len(g) = j
    BY <1>1
  <2> HIDE DEF i
  <2>2. i \in DOMAIN f /\ f[i] = m[j]
    BY <1>1, <2>1
  <2> QED
    BY <2>2
<1> QED
  BY <1>1, <1>2, <1>3, <1>4 DEF Joined

\* The list of a set of numbers.
LEMMA AscendingSeq ==
  ASSUME NEW S, IsFiniteSet(S), \A n \in S : n \in Nat
  PROVE  /\ Ascending(S) \in Seq(S) /\ Ascending(S) \in Seq(Nat) /\ Distinct(Ascending(S))
         /\ DOMAIN Ascending(S) = 1 .. Cardinality(S) /\ Cardinality(S) \in Nat
         /\ \A i \in DOMAIN Ascending(S) : Ascending(S)[i] \in S
         /\ \A n \in S : \E i \in DOMAIN Ascending(S) : Ascending(S)[i] = n
<1> DEFINE L == Ascending(S)
<1>1. S \subseteq Nat
  OBVIOUS
<1>2. /\ Cardinality(S) \in Nat /\ L \in [1 .. Cardinality(S) -> S]
      /\ \A i, j \in 1 .. Cardinality(S) : L[i] = L[j] => i = j
      /\ \A e \in S : \E i \in 1 .. Cardinality(S) : L[i] = e
  BY <1>1, AscendingListed DEF Listed
<1> HIDE DEF L
<1>3. L \in Seq(S) /\ DOMAIN L = 1 .. Cardinality(S) /\ \A i \in DOMAIN L : L[i] \in S
  BY <1>2
<1>4. L \in Seq(Nat)
  BY <1>2, <1>3
<1>5. Distinct(L)
  BY <1>2, <1>3 DEF Distinct
<1> QED
  BY <1>2, <1>3, <1>4, <1>5 DEF L

\* What the GPT gives.
LEMMA GptFound ==
  ASSUME MachineInv, NEW d \in DOMAIN machine.disks, NEW f, f = gpt_boot_partitions(d, Disk(d))
  PROVE  /\ f \in Seq(Cands)
         /\ \A i \in DOMAIN f : CandOn(d, f[i]) /\ f[i].role # "nested"
         /\ \A n \in GptEntries(Disk(d)) : \E i \in DOMAIN f :
              Label(f[i]) = <<Disk(d).gpt.entries[n].role, <<d, n>>>>
<1> DEFINE S == GptEntries(Disk(d))
<1> DEFINE L == Ascending(S)
<1> DEFINE role(n) == Disk(d).gpt.entries[n].role
<1> DEFINE cand(n) == Candidate(role(n), d, <<d, n>>, <<"part", d, n>>)
<1>1. IsFiniteSet(S) /\ \A n \in S : n \in Nat /\ role(n) \in {"xbootldr", "esp"}
  BY TableNumbers
<1>2. d \in Nat
  BY Tables
<1>3. f = [i \in DOMAIN L |-> cand(L[i])]
  BY DEF gpt_boot_partitions
<1>4. \A n \in S : <<role(n), <<d, n>>>> \in SourcesOn(d)
  BY DEF SourcesOn
<1> HIDE DEF S, L, role
<1>5. /\ DOMAIN L = 1 .. Cardinality(S) /\ Cardinality(S) \in Nat
      /\ \A i \in DOMAIN L : L[i] \in S
      /\ \A n \in S : \E i \in DOMAIN L : L[i] = n
  BY <1>1, AscendingSeq DEF L
<1>6. \A n \in S : /\ cand(n) \in PlainCands /\ Label(cand(n)) = <<role(n), <<d, n>>>>
                   /\ cand(n).disk = d /\ cand(n).role # "nested"
  <2> TAKE n \in S
  <2>1. n \in Nat /\ role(n) \in {"xbootldr", "esp"}
    BY <1>1
  <2> QED
    BY <1>2, <2>1, PlainIs DEF Label, Candidate
<1>7. \A n \in S : cand(n) \in Cands /\ CandOn(d, cand(n)) /\ cand(n).role # "nested"
  BY <1>4, <1>6 DEF Cands, CandOn
<1> HIDE DEF cand
<1>8. f \in Seq(Cands) /\ DOMAIN f = DOMAIN L
  BY <1>3, <1>5, <1>7
<1>9. \A i \in DOMAIN f : CandOn(d, f[i]) /\ f[i].role # "nested"
  BY <1>3, <1>5, <1>7
<1>10. \A n \in S : \E i \in DOMAIN f : Label(f[i]) = <<role(n), <<d, n>>>>
  BY <1>3, <1>5, <1>6
<1> QED
  BY <1>8, <1>9, <1>10 DEF S, role

\* What the MBR gives.
LEMMA MbrFound ==
  ASSUME MachineInv, NEW d \in DOMAIN machine.disks, NEW f, f = mbr_boot_partitions(d, Disk(d))
  PROVE  /\ f \in Seq(Cands)
         /\ \A i \in DOMAIN f : CandOn(d, f[i]) /\ f[i].role # "nested"
         /\ \A n \in parse_mbr_boot_entries(Disk(d)) :
              \E i \in DOMAIN f : Label(f[i]) = <<"xbootldr", <<d, n>>>>
<1> DEFINE S == parse_mbr_boot_entries(Disk(d))
<1> DEFINE L == Ascending(S)
<1> DEFINE cand(n) == Candidate("xbootldr", d, <<d, n>>, <<"part", d, n>>)
<1>1. IsFiniteSet(S) /\ \A n \in S : n \in Nat
  BY TableNumbers
<1>2. d \in Nat
  BY Tables
<1>3. f = [i \in DOMAIN L |-> cand(L[i])]
  BY DEF mbr_boot_partitions
<1>4. \A n \in S : <<"xbootldr", <<d, n>>>> \in SourcesOn(d)
  BY DEF SourcesOn
<1> HIDE DEF S, L
<1>5. /\ DOMAIN L = 1 .. Cardinality(S) /\ Cardinality(S) \in Nat
      /\ \A i \in DOMAIN L : L[i] \in S
      /\ \A n \in S : \E i \in DOMAIN L : L[i] = n
  BY <1>1, AscendingSeq DEF L
<1>6. \A n \in S : /\ cand(n) \in PlainCands /\ Label(cand(n)) = <<"xbootldr", <<d, n>>>>
                   /\ cand(n).disk = d /\ cand(n).role # "nested"
  <2> TAKE n \in S
  <2>1. n \in Nat
    BY <1>1
  <2> QED
    BY <1>2, <2>1, PlainIs DEF Label, Candidate
<1>7. \A n \in S : cand(n) \in Cands /\ CandOn(d, cand(n)) /\ cand(n).role # "nested"
  BY <1>4, <1>6 DEF Cands, CandOn
<1> HIDE DEF cand
<1>8. f \in Seq(Cands) /\ DOMAIN f = DOMAIN L
  BY <1>3, <1>5, <1>7
<1>9. \A i \in DOMAIN f : CandOn(d, f[i]) /\ f[i].role # "nested"
  BY <1>3, <1>5, <1>7
<1>10. \A n \in S : \E i \in DOMAIN f : Label(f[i]) = <<"xbootldr", <<d, n>>>>
  BY <1>3, <1>5, <1>6
<1> QED
  BY <1>8, <1>9, <1>10 DEF S

\* Reading the tables finds every source but the nested ones.
LEMMA TablesFound ==
  ASSUME MachineInv, NEW d \in DOMAIN machine.disks, NEW f,
         f = gpt_boot_partitions(d, Disk(d)) \o mbr_boot_partitions(d, Disk(d))
  PROVE  /\ f \in Seq(Cands)
         /\ \A i \in DOMAIN f : CandOn(d, f[i]) /\ f[i].role # "nested"
         /\ \A s \in SourcesOn(d) : s[1] # "nested" => \E i \in DOMAIN f : Label(f[i]) = s
<1> DEFINE g == gpt_boot_partitions(d, Disk(d))
<1> DEFINE m == mbr_boot_partitions(d, Disk(d))
<1>1. /\ g \in Seq(Cands)
      /\ \A i \in DOMAIN g : CandOn(d, g[i]) /\ g[i].role # "nested"
      /\ \A n \in GptEntries(Disk(d)) : \E i \in DOMAIN g :
           Label(g[i]) = <<Disk(d).gpt.entries[n].role, <<d, n>>>>
  BY GptFound
<1>2. /\ m \in Seq(Cands)
      /\ \A i \in DOMAIN m : CandOn(d, m[i]) /\ m[i].role # "nested"
      /\ \A n \in parse_mbr_boot_entries(Disk(d)) : \E i \in DOMAIN m : Label(m[i]) = <<"xbootldr", <<d, n>>>>
  BY MbrFound
<1>3. f = g \o m
  OBVIOUS
<1> HIDE DEF g, m
<1>4. f \in Seq(Cands) /\ Joined(f, g, m)
  BY <1>1, <1>2, <1>3, JoinParts
<1>41. /\ \A j \in DOMAIN g : \E i \in DOMAIN f : f[i] = g[j]
       /\ \A j \in DOMAIN m : \E i \in DOMAIN f : f[i] = m[j]
  BY <1>4 DEF Joined
<1>5. ASSUME NEW s \in SourcesOn(d), s[1] # "nested" PROVE \E i \in DOMAIN f : Label(f[i]) = s
  <2>1. CASE \E n \in GptEntries(Disk(d)) : s = <<Disk(d).gpt.entries[n].role, <<d, n>>>>
    <3>1. PICK n \in GptEntries(Disk(d)) : s = <<Disk(d).gpt.entries[n].role, <<d, n>>>>
      BY <2>1
    <3>2. PICK j \in DOMAIN g : Label(g[j]) = s
      BY <1>1, <3>1
    <3> QED
      BY <1>41, <3>2
  <2>2. CASE \E n \in parse_mbr_boot_entries(Disk(d)) : s = <<"xbootldr", <<d, n>>>>
    <3>1. PICK n \in parse_mbr_boot_entries(Disk(d)) : s = <<"xbootldr", <<d, n>>>>
      BY <2>2
    <3>2. PICK j \in DOMAIN m : Label(m[j]) = s
      BY <1>2, <3>1
    <3> QED
      BY <1>41, <3>2
  <2>3. CASE \E o \in userdata_partitions(Disk(d)) : \E n \in NestedEntries(Disk(d).outer[o]) :
               s = <<"nested", <<d, o, n>>>>
    BY <1>5, <2>3
  <2> QED
    BY <2>1, <2>2, <2>3 DEF SourcesOn
<1>6. \A i \in DOMAIN f : CandOn(d, f[i]) /\ f[i].role # "nested"
  <2> TAKE i \in DOMAIN f
  <2>1. (\E j \in DOMAIN g : f[i] = g[j]) \/ (\E j \in DOMAIN m : f[i] = m[j])
    BY <1>4 DEF Joined
  <2> QED
    BY <1>1, <1>2, <2>1
<1> QED
  BY <1>4, <1>5, <1>6

\* A nested source is an entry of an outer partition of its disk.
LEMMA NestedOn ==
  ASSUME MachineInv, NEW d \in DOMAIN machine.disks, NEW s
  PROVE  s \in SourcesOn(d) /\ s[1] = "nested" <=>
           \E o \in userdata_partitions(Disk(d)) : \E n \in NestedEntries(Disk(d).outer[o]) :
               s = <<"nested", <<d, o, n>>>>
<1>1. \A n \in GptEntries(Disk(d)) : Disk(d).gpt.entries[n].role # "nested"
  BY TableNumbers
<1> QED
  BY <1>1 DEF SourcesOn

\* A task's disk is one of the machine's.
LEMMA TaskDisk ==
  ASSUME MachineInv, StageInv, stage = "disks", NEW d \in DOMAIN disk
  PROVE  d \in DOMAIN machine.disks /\ d \in Nat /\ d \in local_disk_candidates(machine)
  BY Tables DEF StageInv, local_disk_candidates

\* What stays when the devices stay.
LEMMA OtherTasks ==
  ASSUME stage = "disks", DisksInv, lo' = lo, NEW d
  PROVE  \A e \in DOMAIN disk : e # d => TaskHolds(lo', disk[e]) /\ Unraced(lo', e, disk[e])
  BY DEF DisksInv

\* The partition tables are read.
LEMMA ReadTablesStep ==
  ASSUME MachineInv, TypeInv, StageInv, DisksInv, NEW d \in DOMAIN disk, ReadTables(d)
  PROVE  disk' \in [DOMAIN disk -> DiskTasks] /\ DisksInv'
<1> DEFINE f == gpt_boot_partitions(d, Disk(d)) \o mbr_boot_partitions(d, Disk(d))
<1> DEFINE os == Ascending(userdata_partitions(Disk(d)))
<1> DEFINE t == [disk[d] EXCEPT !.step = "outer", !.found = f, !.outers = os]
<1>1. /\ stage = "disks" /\ disk[d].step = "tables" /\ disk' = [disk EXCEPT ![d] = t]
      /\ UNCHANGED <<machine, holds, stage, lo>>
  BY DEF ReadTables, At
<1>2. d \in DOMAIN machine.disks
  BY <1>1, TaskDisk
<1>3. /\ f \in Seq(Cands)
      /\ \A i \in DOMAIN f : CandOn(d, f[i]) /\ f[i].role # "nested"
      /\ \A s \in SourcesOn(d) : s[1] # "nested" => \E i \in DOMAIN f : Label(f[i]) = s
  BY <1>2, TablesFound
<1>4. /\ os \in Seq(Nat) /\ Distinct(os)
      /\ \A i \in DOMAIN os : os[i] \in userdata_partitions(Disk(d))
      /\ \A n \in userdata_partitions(Disk(d)) : \E i \in DOMAIN os : os[i] = n
  <2>1. IsFiniteSet(userdata_partitions(Disk(d))) /\ \A n \in userdata_partitions(Disk(d)) : n \in Nat
    BY <1>2, TableNumbers
  <2> QED
    BY <2>1, AscendingSeq
<1> HIDE DEF f, os
<1>5. disk[d] \in DiskTasks
  BY DEF TypeInv
<1>6. /\ t \in DiskTasks /\ t.step = "outer" /\ t.found = f /\ t.outers = os /\ t.mapped = disk[d].mapped
  BY <1>3, <1>4, <1>5 DEF DiskTasks
<1>7. disk[d].mapped = <<>>
  BY <1>1 DEF DisksInv, TaskInv
<1> HIDE DEF t
<1>8. TaskInv(d, t)
  BY <1>3, <1>4, <1>6, <1>7 DEF TaskInv, NestedOnce
<1>9. TaskHolds(lo', t) /\ Unraced(lo', d, t)
  BY <1>3, <1>6, <1>7 DEF TaskHolds, Unraced
<1>10. ASSUME NEW s \in SourcesOn(d) PROVE Pending(t, s)
  <2>1. CASE s[1] # "nested"
    BY <1>3, <1>6, <2>1 DEF Pending
  <2>2. CASE s[1] = "nested"
    <3>1. PICK o \in userdata_partitions(Disk(d)) : \E n \in NestedEntries(Disk(d).outer[o]) :
               s = <<"nested", <<d, o, n>>>>
      BY <1>2, <2>2, NestedOn
    <3>2. s[2][2] = o
      BY <3>1
    <3> QED
      BY <1>4, <1>6, <2>2, <3>2 DEF Pending
  <2> QED
    BY <2>1, <2>2
<1>11. \A e \in DOMAIN disk : e # d => TaskHolds(lo', disk[e]) /\ Unraced(lo', e, disk[e])
  BY <1>1, OtherTasks
<1>12. DisksInv'
  BY <1>1, <1>8, <1>9, <1>10, <1>11, OneTask
<1>13. disk' \in [DOMAIN disk -> DiskTasks]
  BY <1>1, <1>6 DEF TypeInv
<1> QED
  BY <1>12, <1>13

\* An outer partition is opened.
LEMMA OpenOuterStep ==
  ASSUME MachineInv, TypeInv, StageInv, DisksInv, NEW d \in DOMAIN disk, OpenOuter(d)
  PROVE  disk' \in [DOMAIN disk -> DiskTasks] /\ DisksInv'
<1> DEFINE os == disk[d].outers
<1> DEFINE todo == Ascending(NestedEntries(Disk(d).outer[Head(os)]))
<1> DEFINE t == [disk[d] EXCEPT !.step = "map", !.todo = todo, !.mapped = <<>>]
<1>1. /\ stage = "disks" /\ disk[d].step = "outer" /\ os # <<>> /\ disk' = [disk EXCEPT ![d] = t]
      /\ UNCHANGED <<machine, holds, stage, lo>>
  BY DEF OpenOuter, At
<1>2. d \in DOMAIN machine.disks
  BY <1>1, TaskDisk
<1>3. disk[d] \in DiskTasks /\ os \in Seq(Nat) /\ Head(os) = os[1] /\ 1 \in DOMAIN os
  BY <1>1 DEF TypeInv, DiskTasks
<1>4. TaskInv(d, disk[d]) /\ TaskHolds(lo, disk[d])
  BY <1>1 DEF DisksInv
<1>5. os[1] \in userdata_partitions(Disk(d))
  BY <1>3, <1>4 DEF TaskInv
<1>6. /\ todo \in Seq(Nat) /\ Distinct(todo)
      /\ \A i \in DOMAIN todo : todo[i] \in NestedEntries(Disk(d).outer[os[1]])
      /\ \A n \in NestedEntries(Disk(d).outer[os[1]]) : \E i \in DOMAIN todo : todo[i] = n
  <2> DEFINE S == NestedEntries(Disk(d).outer[os[1]])
  <2>1. IsFiniteSet(S) /\ (\A n \in S : n \in Nat) /\ todo = Ascending(S)
    BY <1>2, <1>3, <1>5, TableNumbers
  <2> HIDE DEF S
  <2>2. /\ Ascending(S) \in Seq(Nat) /\ Distinct(Ascending(S))
        /\ \A i \in DOMAIN Ascending(S) : Ascending(S)[i] \in S
        /\ \A n \in S : \E i \in DOMAIN Ascending(S) : Ascending(S)[i] = n
    BY <2>1, AscendingSeq
  <2> QED
    BY <2>1, <2>2 DEF S
<1> HIDE DEF todo
<1>7. /\ t \in DiskTasks /\ t.step = "map" /\ t.found = disk[d].found /\ t.outers = os /\ t.mapped = <<>>
      /\ t.todo = todo
  <2>1. <<>> \in Seq(Cands)
    OBVIOUS
  <2> HIDE DEF os
  <2>2. t \in DiskTasks /\ t.step = "map" /\ t.mapped = <<>> /\ t.todo = todo
    BY <1>3, <1>6, <2>1 DEF DiskTasks
  <2>3. t.found = disk[d].found /\ t.outers = disk[d].outers
    BY <1>3 DEF DiskTasks
  <2> QED
    BY <2>2, <2>3 DEF os
<1> HIDE DEF t, os
<1>8. TaskInv(d, t)
  <2>1. /\ \A i \in DOMAIN t.found : CandOn(d, t.found[i])
        /\ NestedOnce(t.found)
        /\ Distinct(t.outers) /\ \A i \in DOMAIN t.outers : t.outers[i] \in userdata_partitions(Disk(d))
        /\ \A i \in DOMAIN t.found : t.found[i].role = "nested" =>
              \A j \in DOMAIN t.outers : t.found[i].partition[2] # t.outers[j]
    BY <1>4, <1>7 DEF TaskInv, os
  <2>2. /\ t.outers # <<>> /\ Distinct(t.todo)
        /\ \A i \in DOMAIN t.todo : t.todo[i] \in NestedEntries(Disk(d).outer[t.outers[1]])
        /\ DOMAIN t.mapped = {} /\ NestedOnce(t.mapped)
    BY <1>1, <1>6, <1>7 DEF NestedOnce
  <2> QED
    BY <1>7, <2>1, <2>2 DEF TaskInv
<1>9. TaskHolds(lo', t) /\ Unraced(lo', d, t)
  BY <1>1, <1>4, <1>7 DEF TaskHolds, Unraced
<1>10. ASSUME NEW s \in SourcesOn(d), s \in Sure PROVE Pending(t, s)
  <2>1. Pending(disk[d], s)
    BY <1>1, <1>10 DEF DisksInv
  <2>2. CASE \E i \in DOMAIN t.found : Label(t.found[i]) = s
    BY <2>2 DEF Pending
  <2>3. CASE s[1] = "nested" /\ \E j \in DOMAIN t.outers : s[2][2] = t.outers[j]
    <3>1. PICK o \in userdata_partitions(Disk(d)) : \E n \in NestedEntries(Disk(d).outer[o]) :
               s = <<"nested", <<d, o, n>>>>
      BY <1>2, <2>3, NestedOn
    <3>2. PICK n \in NestedEntries(Disk(d).outer[o]) : s = <<"nested", <<d, o, n>>>>
      BY <3>1
    <3>3. s[2][2] = o /\ s[2][3] = n
      BY <3>2
    <3>4. s[2][2] = t.outers[1] => \E j \in DOMAIN t.todo : s[2][3] = t.todo[j]
      BY <1>6, <1>7, <3>3
    <3> QED
      BY <2>3, <3>4 DEF Pending
  <2> QED
    BY <1>7, <2>1, <2>2, <2>3 DEF Pending, os
<1>11. \A e \in DOMAIN disk : e # d => TaskHolds(lo', disk[e]) /\ Unraced(lo', e, disk[e])
  BY <1>1, OtherTasks
<1>12. DisksInv'
  BY <1>1, <1>8, <1>9, <1>10, <1>11, OneTask
<1>13. disk' \in [DOMAIN disk -> DiskTasks]
  BY <1>1, <1>7 DEF TypeInv
<1> QED
  BY <1>12, <1>13

\* A task holds what it held if every device of its disk's candidates stays.
LEMMA StillHolds ==
  ASSUME NEW l, NEW m, NEW d, NEW t, TaskInv(d, t), TaskHolds(l, t),
         \A c \in NestedCands : c.disk = d /\ Held(l, c) => Held(m, c)
  PROVE  TaskHolds(m, t)
<1>1. ASSUME NEW i \in DOMAIN t.found, t.found[i].role = "nested" PROVE Held(m, t.found[i])
  <2>1. t.found[i] \in NestedCands /\ t.found[i].disk = d
    BY <1>1, CandFacts DEF TaskInv, CandOn
  <2> QED
    BY <1>1, <2>1 DEF TaskHolds
<1>2. ASSUME NEW i \in DOMAIN t.mapped, t.mapped[i].role = "nested" PROVE Held(m, t.mapped[i])
  <2>1. t.step \in {"map", "configure"}
    BY DEF TaskInv
  <2>2. t.mapped[i] \in NestedCands /\ t.mapped[i].disk = d
    BY <1>2, <2>1, CandFacts DEF TaskInv, CandOn
  <2> QED
    BY <1>2, <2>2 DEF TaskHolds
<1> QED
  BY <1>1, <1>2 DEF TaskHolds

\* A free device is named and opened.
LEMMA GetFreeStep ==
  ASSUME MachineInv, TypeInv, StageInv, LoopInv, DisksInv, NEW d \in DOMAIN disk, GetFree(d)
  PROVE  /\ disk' \in [DOMAIN disk -> DiskTasks] /\ lo' \in [Loops -> LoopDevices]
         /\ LoopInv' /\ DisksInv'
<1> DEFINE n == CHOOSE n \in Unbound : \A k \in Unbound : n <= k
<1> DEFINE h == <<"task", d, Head(disk[d].todo)>>
<1> DEFINE t == [disk[d] EXCEPT !.step = "configure", !.number = n]
<1>1. /\ stage = "disks" /\ disk[d].step = "map" /\ disk[d].todo # <<>> /\ Unbound # {}
      /\ disk' = [disk EXCEPT ![d] = t] /\ lo' = [lo EXCEPT ![n].open = @ \cup {h}]
      /\ UNCHANGED <<machine, holds, stage>>
  BY DEF GetFree, At
<1>2. n \in Unbound
  <2>1. Unbound \subseteq Nat
    BY LoopsAssumption DEF Unbound, TypeInv
  <2>2. \E x \in Unbound : \A k \in Unbound : x <= k
    BY <1>1, <2>1, LeastNat
  <2> QED
    BY <2>2
<1>3. n \in Loops /\ n \in Nat /\ lo[n].of = Free
  BY <1>2, LoopsAssumption DEF Unbound, Bound, TypeInv
<1>4. disk[d] \in DiskTasks /\ TaskInv(d, disk[d]) /\ TaskHolds(lo, disk[d])
  BY <1>1 DEF TypeInv, DisksInv
<1>5. h \in Holders
  <2>1. d \in Nat
    BY <1>1, TaskDisk
  <2>2. Head(disk[d].todo) \in Nat
    BY <1>1, <1>4 DEF DiskTasks
  <2> QED
    BY <2>1, <2>2 DEF Holders
<1> HIDE DEF n, h
<1>6. /\ t \in DiskTasks /\ t.step = "configure" /\ t.number = n /\ t.found = disk[d].found
      /\ t.outers = disk[d].outers /\ t.todo = disk[d].todo /\ t.mapped = disk[d].mapped
  BY <1>3, <1>4 DEF DiskTasks
<1> HIDE DEF t
<1>7. lo \in [Loops -> LoopDevices]
  BY DEF TypeInv
<1>8. /\ lo' \in [Loops -> LoopDevices]
      /\ \A k \in Loops : lo'[k].of = lo[k].of /\ \A x \in lo[k].open : x \in lo'[k].open
  BY <1>1, <1>3, <1>5, <1>7 DEF LoopDevices
<1>9. \A c \in NestedCands : Held(lo, c) => Held(lo', c)
  BY <1>8, NestedFacts DEF Held
<1>10. TaskInv(d, t)
  BY <1>1, <1>3, <1>4, <1>6 DEF TaskInv
<1>11. TaskHolds(lo', t)
  <2>1. TaskHolds(lo, t)
    BY <1>4, <1>6 DEF TaskHolds
  <2> QED
    BY <1>9, <1>10, <2>1, StillHolds
<1>12. Unraced(lo', d, t)
  BY <1>3, <1>6, <1>8 DEF Unraced
<1>13. \A s \in SourcesOn(d) : s \in Sure => Pending(t, s)
  BY <1>1, <1>6 DEF DisksInv, Pending
<1>14. ASSUME NEW e \in DOMAIN disk, e # d PROVE TaskHolds(lo', disk[e]) /\ Unraced(lo', e, disk[e])
  <2>1. TaskInv(e, disk[e]) /\ TaskHolds(lo, disk[e]) /\ Unraced(lo, e, disk[e])
    BY <1>1 DEF DisksInv
  <2>2. TaskHolds(lo', disk[e])
    BY <1>9, <2>1, StillHolds
  <2>3. disk[e].step = "configure" => disk[e].number \in Loops
    BY <2>1 DEF TaskInv
  <2> QED
    BY <1>8, <2>1, <2>2, <2>3 DEF Unraced
<1>15. DisksInv'
  BY <1>1, <1>10, <1>11, <1>12, <1>13, <1>14, OneTask
<1>16. LoopInv'
  BY <1>1, <1>8, SameMachine DEF LoopInv
<1>17. disk' \in [DOMAIN disk -> DiskTasks]
  BY <1>1, <1>6 DEF TypeInv
<1> QED
  BY <1>8, <1>15, <1>16, <1>17

\* A sequence without repeats loses its head.
LEMMA TailParts ==
  ASSUME NEW S, NEW s \in Seq(S), s # <<>>
  PROVE  /\ Tail(s) \in Seq(S) /\ Head(s) = s[1] /\ 1 \in DOMAIN s
         /\ \A j \in DOMAIN Tail(s) : j + 1 \in DOMAIN s /\ j + 1 # 1 /\ Tail(s)[j] = s[j + 1]
         /\ \A j \in DOMAIN s : j # 1 => j - 1 \in DOMAIN Tail(s) /\ Tail(s)[j - 1] = s[j]
         /\ Distinct(s) => Distinct(Tail(s)) /\ \A j \in DOMAIN Tail(s) : Tail(s)[j] # s[1]
<1>1. /\ Tail(s) \in Seq(S) /\ Head(s) = s[1] /\ Len(s) \in Nat /\ Len(s) >= 1
      /\ Len(Tail(s)) = Len(s) - 1 /\ DOMAIN s = 1 .. Len(s) /\ DOMAIN Tail(s) = 1 .. Len(s) - 1
      /\ \A j \in 1 .. Len(s) - 1 : Tail(s)[j] = s[j + 1]
  OBVIOUS
<1>2. \A j \in DOMAIN Tail(s) : j + 1 \in DOMAIN s /\ j + 1 # 1 /\ Tail(s)[j] = s[j + 1]
  BY <1>1
<1>3. ASSUME NEW j \in DOMAIN s, j # 1 PROVE j - 1 \in DOMAIN Tail(s) /\ Tail(s)[j - 1] = s[j]
  <2>1. j - 1 \in 1 .. Len(s) - 1 /\ (j - 1) + 1 = j
    BY <1>1, <1>3
  <2> QED
    BY <1>1, <2>1
<1>4. ASSUME Distinct(s) PROVE Distinct(Tail(s)) /\ \A j \in DOMAIN Tail(s) : Tail(s)[j] # s[1]
  <2>1. ASSUME NEW i \in DOMAIN Tail(s), NEW j \in DOMAIN Tail(s), Tail(s)[i] = Tail(s)[j] PROVE i = j
    <3>1. i + 1 \in DOMAIN s /\ j + 1 \in DOMAIN s /\ s[i + 1] = s[j + 1]
      BY <1>2, <2>1
    <3>2. i + 1 = j + 1
      BY <1>4, <3>1 DEF Distinct
    <3>3. i \in Int /\ j \in Int
      BY <1>1
    <3> QED
      BY <3>2, <3>3
  <2>2. \A j \in DOMAIN Tail(s) : Tail(s)[j] # s[1]
    BY <1>1, <1>2, <1>4 DEF Distinct
  <2> QED
    BY <2>1, <2>2 DEF Distinct
<1>5. 1 \in DOMAIN s
  BY <1>1
<1> QED
  BY <1>1, <1>2, <1>3, <1>4, <1>5

\* A sequence is appended to.
LEMMA AppendParts ==
  ASSUME NEW S, NEW s \in Seq(S), NEW c \in S
  PROVE  /\ Append(s, c) \in Seq(S)
         /\ \A i \in DOMAIN Append(s, c) : (i \in DOMAIN s /\ Append(s, c)[i] = s[i])
                                             \/ (i = Len(s) + 1 /\ Append(s, c)[i] = c)
         /\ \A i \in DOMAIN s : i \in DOMAIN Append(s, c) /\ Append(s, c)[i] = s[i]
         /\ Len(s) + 1 \in DOMAIN Append(s, c) /\ Append(s, c)[Len(s) + 1] = c
  OBVIOUS

\* The partition that a task is about to map.
LEMMA HeadNested ==
  ASSUME MachineInv, TypeInv, StageInv, DisksInv, NEW d \in DOMAIN disk, stage = "disks",
         disk[d].step \in {"map", "configure"}, disk[d].todo # <<>>, NEW n \in Loops,
         NEW part, part = <<d, Head(disk[d].outers), Head(disk[d].todo)>>,
         NEW c, c = Candidate("nested", d, part, <<"loop", n>>)
  PROVE  /\ part \in Seq(Nat) /\ part # Free /\ part[1] = d
         /\ part[2] = disk[d].outers[1] /\ part[3] = disk[d].todo[1]
         /\ c \in NestedCands /\ CandOn(d, c) /\ c.role = "nested" /\ c.partition = part
         /\ c.dev[2] = n /\ c.partno = disk[d].todo[1] /\ Label(c) = <<"nested", part>>
         /\ <<"nested", part>> \in SourcesOn(d) /\ <<"nested", part>> \in Sources
<1> DEFINE o == disk[d].outers[1]
<1> DEFINE k == disk[d].todo[1]
<1>1. disk[d] \in DiskTasks /\ TaskInv(d, disk[d])
  BY DEF TypeInv, DisksInv
<1>2. disk[d].outers \in Seq(Nat) /\ disk[d].todo \in Seq(Nat) /\ disk[d].outers # <<>>
  BY <1>1 DEF DiskTasks, TaskInv
<1>3. /\ Head(disk[d].outers) = o /\ 1 \in DOMAIN disk[d].outers
      /\ Head(disk[d].todo) = k /\ 1 \in DOMAIN disk[d].todo
  BY <1>2
<1>4. o \in userdata_partitions(Disk(d)) /\ k \in NestedEntries(Disk(d).outer[o])
  BY <1>1, <1>3 DEF TaskInv
<1>5. d \in DOMAIN machine.disks /\ d \in Nat /\ d \in local_disk_candidates(machine)
  BY TaskDisk
<1>6. o \in Nat /\ k \in Nat
  BY <1>4, <1>5, TableNumbers
<1> HIDE DEF o, k
<1>7. part = <<d, o, k>>
  BY <1>3
<1>8. part \in Seq(Nat) /\ part # Free /\ part[1] = d /\ part[2] = o /\ part[3] = k
  BY <1>5, <1>6, <1>7 DEF Free, Empty
<1>9. c = Candidate("nested", d, <<d, o, k>>, <<"loop", n>>)
  BY <1>7
<1>10. c \in NestedCands
  BY <1>5, <1>6, <1>9, NestedIs
<1>11. c.role = "nested" /\ c.disk = d /\ c.partition = part /\ c.dev = <<"loop", n>> /\ c.dev[2] = n
  BY DEF Candidate
<1>12. c.partno = k
  <2>1. c.partition[3] = c.partno
    BY <1>10, NestedName
  <2> QED
    BY <1>8, <1>11, <2>1
<1>13. Label(c) = <<"nested", part>>
  BY <1>11 DEF Label
<1>14. <<"nested", part>> \in SourcesOn(d)
  BY <1>4, <1>5, <1>7, NestedOn
<1>15. <<"nested", part>> \in Sources
  BY <1>5, <1>14 DEF Sources
<1>16. CandOn(d, c)
  BY <1>10, <1>11, <1>13, <1>14 DEF CandOn, Cands
<1> QED
  BY <1>8, <1>10, <1>11, <1>12, <1>13, <1>14, <1>15, <1>16 DEF o, k

\* The device is configured.
LEMMA ConfigureStep ==
  ASSUME MachineInv, TypeInv, StageInv, LoopInv, DisksInv, NEW d \in DOMAIN disk, Configure(d)
  PROVE  /\ disk' \in [DOMAIN disk -> DiskTasks] /\ lo' \in [Loops -> LoopDevices]
         /\ LoopInv' /\ DisksInv'
<1> DEFINE n == disk[d].number
<1> DEFINE part == <<d, Head(disk[d].outers), Head(disk[d].todo)>>
<1> DEFINE c == Candidate("nested", d, part, <<"loop", n>>)
<1> DEFINE h == <<"task", d, Head(disk[d].todo)>>
<1> DEFINE dev == [of |-> part, open |-> (lo[n].open \ {h}) \cup {<<"candidate", part>>}]
<1> DEFINE t == [disk[d] EXCEPT !.step = "map", !.todo = Tail(disk[d].todo),
                                !.mapped = Append(disk[d].mapped, c)]
<1>1. /\ stage = "disks" /\ disk[d].step = "configure" /\ lo[n].of = Free
      /\ disk' = [disk EXCEPT ![d] = t] /\ lo' = [lo EXCEPT ![n] = dev]
      /\ UNCHANGED <<machine, holds, stage>>
  <2>1. stage = "disks" /\ disk[d].step = "configure" /\ lo[n].of = Free /\ UNCHANGED <<machine, holds, stage>>
    BY DEF Configure, At, Bound
  <2>2. disk' = [disk EXCEPT ![d] = t]
    BY DEF Configure
  <2>3. lo' = [lo EXCEPT ![n] = dev]
    BY DEF Configure
  <2> QED
    BY <2>1, <2>2, <2>3
<1>2. disk[d] \in DiskTasks /\ TaskInv(d, disk[d]) /\ TaskHolds(lo, disk[d])
  BY <1>1 DEF TypeInv, DisksInv
<1>3. n \in Loops /\ disk[d].todo # <<>> /\ disk[d].step \in {"map", "configure"}
  BY <1>1, <1>2 DEF TaskInv
<1>4. /\ part \in Seq(Nat) /\ part # Free /\ part[1] = d
      /\ part[2] = disk[d].outers[1] /\ part[3] = disk[d].todo[1]
      /\ c \in NestedCands /\ CandOn(d, c) /\ c.role = "nested" /\ c.partition = part
      /\ c.dev[2] = n /\ c.partno = disk[d].todo[1] /\ Label(c) = <<"nested", part>>
      /\ <<"nested", part>> \in SourcesOn(d) /\ <<"nested", part>> \in Sources
  BY <1>1, <1>3, HeadNested
<1>5. c \in Cands
  BY <1>4 DEF Cands
<1> HIDE DEF n, part, c, h
<1> DEFINE todo == disk[d].todo
<1> DEFINE mapped == disk[d].mapped
<1>6. todo \in Seq(Nat) /\ mapped \in Seq(Cands)
  BY <1>2 DEF DiskTasks
<1>7. /\ Tail(todo) \in Seq(Nat) /\ 1 \in DOMAIN todo
      /\ \A j \in DOMAIN Tail(todo) : j + 1 \in DOMAIN todo /\ j + 1 # 1 /\ Tail(todo)[j] = todo[j + 1]
      /\ \A j \in DOMAIN todo : j # 1 => j - 1 \in DOMAIN Tail(todo) /\ Tail(todo)[j - 1] = todo[j]
      /\ Distinct(todo) => Distinct(Tail(todo)) /\ \A j \in DOMAIN Tail(todo) : Tail(todo)[j] # todo[1]
  BY <1>3, <1>6, TailParts
<1>8. /\ Append(mapped, c) \in Seq(Cands)
      /\ \A i \in DOMAIN Append(mapped, c) : (i \in DOMAIN mapped /\ Append(mapped, c)[i] = mapped[i])
                                             \/ (i = Len(mapped) + 1 /\ Append(mapped, c)[i] = c)
      /\ \A i \in DOMAIN mapped : i \in DOMAIN Append(mapped, c) /\ Append(mapped, c)[i] = mapped[i]
      /\ Len(mapped) + 1 \in DOMAIN Append(mapped, c) /\ Append(mapped, c)[Len(mapped) + 1] = c
  BY <1>5, <1>6, AppendParts
<1>9. /\ t \in DiskTasks /\ t.step = "map" /\ t.found = disk[d].found /\ t.outers = disk[d].outers
      /\ t.todo = Tail(todo) /\ t.mapped = Append(mapped, c)
  <2>1. t \in DiskTasks
    BY <1>2, <1>7, <1>8 DEF DiskTasks
  <2>2. t.step = "map" /\ t.todo = Tail(todo) /\ t.mapped = Append(mapped, c)
    BY <1>2 DEF DiskTasks
  <2>3. t.found = disk[d].found /\ t.outers = disk[d].outers
    BY <1>2 DEF DiskTasks
  <2> QED
    BY <2>1, <2>2, <2>3
<1> HIDE DEF t
<1>10. TaskInv(d, t)
  <2>1. /\ \A i \in DOMAIN t.found : CandOn(d, t.found[i])
        /\ NestedOnce(t.found)
        /\ Distinct(t.outers) /\ \A i \in DOMAIN t.outers : t.outers[i] \in userdata_partitions(Disk(d))
        /\ \A i \in DOMAIN t.found : t.found[i].role = "nested" =>
              \A j \in DOMAIN t.outers : t.found[i].partition[2] # t.outers[j]
        /\ t.outers # <<>>
    BY <1>2, <1>3, <1>9 DEF TaskInv
  <2>2. /\ Distinct(todo)
        /\ \A i \in DOMAIN todo : todo[i] \in NestedEntries(Disk(d).outer[t.outers[1]])
        /\ \A i \in DOMAIN mapped :
              /\ CandOn(d, mapped[i]) /\ mapped[i].role = "nested"
              /\ mapped[i].partition[2] = t.outers[1]
              /\ \A j \in DOMAIN todo : mapped[i].partno # todo[j]
        /\ NestedOnce(mapped)
    BY <1>2, <1>3, <1>9 DEF TaskInv
  <2> HIDE DEF todo, mapped
  <2>3. Distinct(t.todo) /\ \A i \in DOMAIN t.todo : t.todo[i] \in NestedEntries(Disk(d).outer[t.outers[1]])
    BY <1>7, <1>9, <2>2
  <2>4. ASSUME NEW i \in DOMAIN t.mapped
        PROVE  /\ CandOn(d, t.mapped[i]) /\ t.mapped[i].role = "nested"
               /\ t.mapped[i].partition[2] = t.outers[1]
               /\ \A j \in DOMAIN t.todo : t.mapped[i].partno # t.todo[j]
    <3>1. CASE i \in DOMAIN mapped /\ t.mapped[i] = mapped[i]
      BY <1>7, <1>9, <2>2, <3>1
    <3>2. CASE t.mapped[i] = c
      <4>1. c.partno = todo[1] /\ c.partition[2] = t.outers[1]
        BY <1>4, <1>9 DEF todo
      <4> QED
        BY <1>4, <1>7, <1>9, <2>2, <3>2, <4>1
    <3> QED
      BY <1>8, <1>9, <3>1, <3>2
  <2>5. NestedOnce(t.mapped)
    <3>1. ASSUME NEW i \in DOMAIN mapped PROVE mapped[i].partition # c.partition
      <4>1. mapped[i] \in NestedCands /\ mapped[i].partno # todo[1]
        BY <1>7, <2>2, CandFacts DEF CandOn
      <4>2. mapped[i].partition[3] = mapped[i].partno /\ c.partition[3] = c.partno /\ c.partno = todo[1]
        BY <1>4, <4>1, NestedName DEF todo
      <4> QED
        BY <4>1, <4>2
    <3> SUFFICES ASSUME NEW i \in DOMAIN t.mapped, NEW j \in DOMAIN t.mapped,
                        t.mapped[i].partition = t.mapped[j].partition
                 PROVE  i = j
      BY DEF NestedOnce
    <3>2. CASE i \in DOMAIN mapped /\ t.mapped[i] = mapped[i] /\ j \in DOMAIN mapped /\ t.mapped[j] = mapped[j]
      BY <2>2, <3>2 DEF NestedOnce
    <3> QED
      BY <1>8, <1>9, <3>1, <3>2
  <2> QED
    BY <1>9, <2>1, <2>3, <2>4, <2>5 DEF TaskInv
<1>11. lo \in [Loops -> LoopDevices]
  BY DEF TypeInv
<1>12. dev \in LoopDevices /\ dev.of = part /\ <<"candidate", part>> \in dev.open
  <2>1. lo[n].open \in SUBSET Holders
    BY <1>3, <1>11 DEF LoopDevices
  <2>2. <<"candidate", part>> \in Holders
    BY <1>4 DEF Holders
  <2> QED
    BY <1>4, <2>1, <2>2 DEF LoopDevices
<1> HIDE DEF dev
<1>13. /\ lo' \in [Loops -> LoopDevices] /\ lo'[n] = dev
       /\ \A k \in Loops : k # n => lo'[k] = lo[k]
  BY <1>1, <1>3, <1>11, <1>12
<1>14. ASSUME NEW x \in NestedCands, Held(lo, x) PROVE Held(lo', x)
  <2>1. x.dev[2] \in Loops /\ x.partition # Free
    BY NestedFacts, NestedName
  <2>2. x.dev[2] # n
    BY <1>1, <1>14, <2>1 DEF Held
  <2> QED
    BY <1>13, <1>14, <2>1, <2>2 DEF Held
<1>15. TaskHolds(lo', t)
  <2>1. Held(lo', c)
    BY <1>4, <1>12, <1>13 DEF Held
  <2>2. TaskHolds(lo', disk[d])
    BY <1>2, <1>14, StillHolds
  <2> QED
    BY <1>8, <1>9, <2>1, <2>2 DEF TaskHolds
<1>16. Unraced(lo', d, t)
  BY <1>9 DEF Unraced
<1>17. ASSUME NEW s \in SourcesOn(d), s \in Sure PROVE Pending(t, s)
  <2>1. Pending(disk[d], s)
    BY <1>1, <1>17 DEF DisksInv
  <2>2. CASE \E i \in DOMAIN t.found : Label(t.found[i]) = s
    BY <2>2 DEF Pending
  <2>3. CASE /\ s[1] = "nested" /\ \E j \in DOMAIN t.outers : s[2][2] = t.outers[j]
             /\ s[2][2] # t.outers[1]
    BY <1>9, <2>3 DEF Pending
  <2>4. CASE /\ s[1] = "nested" /\ \E j \in DOMAIN t.outers : s[2][2] = t.outers[j]
             /\ \E i \in DOMAIN mapped : Label(mapped[i]) = s
    BY <1>8, <1>9, <2>4 DEF Pending
  <2>5. CASE /\ s[1] = "nested" /\ \E j \in DOMAIN t.outers : s[2][2] = t.outers[j]
             /\ s[2][2] = t.outers[1] /\ \E j \in DOMAIN todo : s[2][3] = todo[j]
    <3>1. PICK j \in DOMAIN todo : s[2][3] = todo[j]
      BY <2>5
    <3>2. CASE j # 1
      <4>1. j - 1 \in DOMAIN t.todo /\ s[2][3] = t.todo[j - 1]
        BY <1>7, <1>9, <3>1, <3>2
      <4> QED
        BY <1>9, <2>5, <4>1 DEF Pending
    <3>3. CASE j = 1
      <4>1. d \in DOMAIN machine.disks
        BY <1>1, TaskDisk
      <4>2. PICK o \in userdata_partitions(Disk(d)) : \E k \in NestedEntries(Disk(d).outer[o]) :
                 s = <<"nested", <<d, o, k>>>>
        BY <2>5, <4>1, NestedOn
      <4>3. PICK k \in NestedEntries(Disk(d).outer[o]) : s = <<"nested", <<d, o, k>>>>
        BY <4>2
      <4>4. s[2][2] = o /\ s[2][3] = k
        BY <4>3
      <4>5. o = part[2] /\ k = part[3]
        BY <1>4, <1>9, <2>5, <3>1, <3>3, <4>4
      <4>6. part = <<d, o, k>>
        BY <1>4, <4>5 DEF part
      <4>7. Label(c) = s
        BY <1>4, <4>3, <4>6
      <4> QED
        BY <1>8, <1>9, <2>5, <4>7 DEF Pending
    <3> QED
      BY <3>2, <3>3
  <2> QED
    BY <1>3, <1>9, <2>1, <2>2, <2>3, <2>4, <2>5 DEF Pending
<1>18. ASSUME NEW e \in DOMAIN disk, e # d PROVE TaskHolds(lo', disk[e]) /\ Unraced(lo', e, disk[e])
  <2>1. TaskInv(e, disk[e]) /\ TaskHolds(lo, disk[e]) /\ Unraced(lo, e, disk[e])
    BY <1>1 DEF DisksInv
  <2>2. TaskHolds(lo', disk[e])
    BY <1>14, <2>1, StillHolds
  <2>3. disk[e].step = "configure" => disk[e].number \in Loops
    BY <2>1 DEF TaskInv
  <2>4. lo'[n].of[1] = d
    BY <1>4, <1>12, <1>13
  <2> QED
    BY <1>13, <1>18, <2>1, <2>2, <2>3, <2>4 DEF Unraced
<1>19. DisksInv'
  BY <1>1, <1>10, <1>15, <1>16, <1>17, <1>18, OneTask
<1>20. LoopInv'
  <2>1. Sources' = Sources
    BY <1>1, SameMachine
  <2>2. \A k \in Loops : lo'[k].of = part \/ lo'[k].of = lo[k].of
    BY <1>12, <1>13
  <2> QED
    BY <1>4, <2>1, <2>2 DEF LoopInv
<1>21. disk' \in [DOMAIN disk -> DiskTasks]
  BY <1>1, <1>9 DEF TypeInv
<1> QED
  BY <1>13, <1>19, <1>20, <1>21

\* Files are closed: a device is let go when the last one is.
LEMMA ClosedKeeps ==
  ASSUME NEW l \in [Loops -> LoopDevices], NEW H
  PROVE  /\ Closed(l, H) \in [Loops -> LoopDevices]
         /\ \A k \in Loops : Closed(l, H)[k].of = Free \/ Closed(l, H)[k].of = l[k].of
         /\ \A c \in NestedCands : Held(l, c) /\ <<"candidate", c.partition>> \notin H => Held(Closed(l, H), c)
<1> DEFINE open(k) == l[k].open \ H
<1> DEFINE of(k) == IF open(k) = {} THEN Free ELSE l[k].of
<1> DEFINE m == Closed(l, H)
<1>1. m = [k \in Loops |-> [of |-> of(k), open |-> open(k)]]
  BY DEF Closed
<1>2. \A k \in Loops : l[k].of \in Seq(Nat) /\ l[k].open \in SUBSET Holders
  BY DEF LoopDevices
<1>3. Free \in Seq(Nat)
  BY DEF Free, Empty
<1>4. \A k \in Loops : of(k) \in Seq(Nat) /\ (of(k) = Free \/ of(k) = l[k].of) /\ open(k) \in SUBSET Holders
  BY <1>2, <1>3
<1> HIDE DEF m
<1>5. m \in [Loops -> LoopDevices] /\ \A k \in Loops : m[k].of = of(k) /\ m[k].open = open(k)
  <2> HIDE DEF of, open
  <2> QED
    BY <1>1, <1>4 DEF LoopDevices
<1>6. ASSUME NEW c \in NestedCands, Held(l, c), <<"candidate", c.partition>> \notin H PROVE Held(m, c)
  <2> DEFINE k == c.dev[2]
  <2>1. k \in Loops
    BY NestedFacts
  <2>2. l[k].of = c.partition /\ <<"candidate", c.partition>> \in open(k)
    BY <1>6 DEF Held
  <2>3. of(k) = c.partition
    BY <2>2
  <2> QED
    BY <1>5, <2>1, <2>2, <2>3 DEF Held
<1> QED
  BY <1>4, <1>5, <1>6 DEF m

\* A task that loses a race has no partition that is sure to be found.
LEMMA LosesNothingSure ==
  ASSUME MachineInv, TypeInv, StageInv, LoopInv, DisksInv, stage = "disks", NEW d \in DOMAIN disk,
         disk[d].step = "configure", Bound(disk[d].number), NEW s \in SourcesOn(d), s[1] = "nested"
  PROVE  s \notin Sure
<1> DEFINE x == <<"nested", lo[disk[d].number].of>>
<1>1. TaskInv(d, disk[d]) /\ Unraced(lo, d, disk[d])
  BY DEF DisksInv
<1>2. disk[d].number \in Loops
  BY <1>1 DEF TaskInv
<1>3. x \in Sources /\ lo[disk[d].number].of[1] # d
  BY <1>1, <1>2 DEF LoopInv, Unraced, Bound
<1>4. x[1] = "nested" /\ x[2][1] # d
  BY <1>3
<1>5. s[2][1] = d
  <2>1. d \in DOMAIN machine.disks
    BY TaskDisk
  <2> QED
    BY <2>1, NestedOn
<1> HIDE DEF x
<1>6. s \in Sure => x[2][1] = s[2][1]
  BY <1>3, <1>4 DEF Sure
<1> QED
  BY <1>4, <1>5, <1>6

\* Another task took the device, and the outer partition is given up.
LEMMA ConfigureBusyStep ==
  ASSUME MachineInv, TypeInv, StageInv, LoopInv, DisksInv, NEW d \in DOMAIN disk, ConfigureBusy(d)
  PROVE  /\ disk' \in [DOMAIN disk -> DiskTasks] /\ lo' \in [Loops -> LoopDevices]
         /\ LoopInv' /\ DisksInv'
<1> DEFINE mapped == disk[d].mapped
<1> DEFINE H == {<<"task", d, Head(disk[d].todo)>>} \cup {<<"candidate", c.partition>> : c \in Range(mapped)}
<1> DEFINE os == disk[d].outers
<1> DEFINE t == [disk[d] EXCEPT !.step = "outer", !.outers = Tail(disk[d].outers), !.mapped = <<>>]
<1>1. /\ stage = "disks" /\ disk[d].step = "configure" /\ Bound(disk[d].number)
      /\ disk' = [disk EXCEPT ![d] = t] /\ lo' = Closed(lo, H)
      /\ UNCHANGED <<machine, holds, stage>>
  BY DEF ConfigureBusy, At
<1>2. disk[d] \in DiskTasks /\ TaskInv(d, disk[d]) /\ TaskHolds(lo, disk[d])
  BY <1>1 DEF TypeInv, DisksInv
<1>3. /\ os \in Seq(Nat) /\ os # <<>> /\ Distinct(os)
      /\ \A i \in DOMAIN mapped :
           mapped[i] \in NestedCands /\ mapped[i].disk = d /\ mapped[i].partition[2] = os[1]
  BY <1>1, <1>2, CandFacts DEF DiskTasks, TaskInv, CandOn
<1>4. /\ Tail(os) \in Seq(Nat) /\ 1 \in DOMAIN os /\ Distinct(Tail(os))
      /\ \A j \in DOMAIN Tail(os) : j + 1 \in DOMAIN os /\ Tail(os)[j] = os[j + 1]
  BY <1>3, TailParts
<1>5. \A p : <<"candidate", p>> \in H => \E i \in DOMAIN mapped : p = mapped[i].partition
  <2> TAKE p
  <2>1. <<"candidate", p>> # <<"task", d, Head(disk[d].todo)>>
    OBVIOUS
  <2> QED
    BY <2>1 DEF Range
<1>6. /\ t \in DiskTasks /\ t.step = "outer" /\ t.found = disk[d].found /\ t.outers = Tail(os)
      /\ t.mapped = <<>>
  <2>1. <<>> \in Seq(Cands)
    OBVIOUS
  <2>2. t \in DiskTasks
    BY <1>2, <1>4, <2>1 DEF DiskTasks
  <2>3. t.step = "outer" /\ t.found = disk[d].found /\ t.outers = Tail(os) /\ t.mapped = <<>>
    BY <1>2 DEF DiskTasks
  <2> QED
    BY <2>2, <2>3
<1> HIDE DEF H, t
<1>7. TaskInv(d, t)
  <2>1. /\ \A i \in DOMAIN t.found : CandOn(d, t.found[i])
        /\ NestedOnce(t.found)
        /\ \A i \in DOMAIN os : os[i] \in userdata_partitions(Disk(d))
        /\ \A i \in DOMAIN t.found : t.found[i].role = "nested" =>
              \A j \in DOMAIN os : t.found[i].partition[2] # os[j]
    BY <1>2, <1>6 DEF TaskInv
  <2> HIDE DEF os
  <2>2. /\ Distinct(t.outers) /\ \A i \in DOMAIN t.outers : t.outers[i] \in userdata_partitions(Disk(d))
        /\ \A i \in DOMAIN t.found : t.found[i].role = "nested" =>
              \A j \in DOMAIN t.outers : t.found[i].partition[2] # t.outers[j]
    BY <1>4, <1>6, <2>1
  <2> QED
    BY <1>6, <2>1, <2>2 DEF TaskInv
<1>8. lo \in [Loops -> LoopDevices]
  BY DEF TypeInv
<1>9. /\ lo' \in [Loops -> LoopDevices]
      /\ \A k \in Loops : lo'[k].of = Free \/ lo'[k].of = lo[k].of
      /\ \A c \in NestedCands : Held(lo, c) /\ <<"candidate", c.partition>> \notin H => Held(lo', c)
  BY <1>1, <1>8, ClosedKeeps
<1>10. TaskHolds(lo', t)
  <2>1. ASSUME NEW i \in DOMAIN t.found, t.found[i].role = "nested" PROVE Held(lo', t.found[i])
    <3>1. t.found[i] \in NestedCands /\ Held(lo, t.found[i])
      BY <1>2, <1>6, <2>1, CandFacts DEF TaskInv, CandOn, TaskHolds
    <3>2. t.found[i].partition[2] # os[1]
      BY <1>2, <1>4, <1>6, <2>1 DEF TaskInv
    <3>3. <<"candidate", t.found[i].partition>> \notin H
      BY <1>3, <1>5, <3>2
    <3> QED
      BY <1>9, <3>1, <3>3
  <2> QED
    BY <1>6, <2>1 DEF TaskHolds
<1>11. Unraced(lo', d, t)
  BY <1>6 DEF Unraced
<1>12. ASSUME NEW s \in SourcesOn(d), s \in Sure PROVE Pending(t, s)
  <2>1. s[1] # "nested"
    BY <1>1, <1>12, LosesNothingSure
  <2>2. Pending(disk[d], s)
    BY <1>1, <1>12 DEF DisksInv
  <2> QED
    BY <1>6, <2>1, <2>2 DEF Pending
<1>13. ASSUME NEW e \in DOMAIN disk, e # d PROVE TaskHolds(lo', disk[e]) /\ Unraced(lo', e, disk[e])
  <2>1. TaskInv(e, disk[e]) /\ TaskHolds(lo, disk[e]) /\ Unraced(lo, e, disk[e])
    BY <1>1 DEF DisksInv
  <2>2. ASSUME NEW c \in NestedCands, c.disk = e PROVE <<"candidate", c.partition>> \notin H
    <3>1. c.partition[1] = e
      BY <2>2, NestedName
    <3>2. \A i \in DOMAIN mapped : mapped[i].partition[1] = d
      BY <1>3, NestedName
    <3> QED
      BY <1>5, <1>13, <3>1, <3>2
  <2>3. \A c \in NestedCands : c.disk = e /\ Held(lo, c) => Held(lo', c)
    BY <1>9, <2>2
  <2>4. TaskHolds(lo', disk[e])
    BY <2>1, <2>3, StillHolds
  <2>5. disk[e].step = "configure" => disk[e].number \in Loops
    BY <2>1 DEF TaskInv
  <2> QED
    BY <1>9, <2>1, <2>4, <2>5 DEF Unraced
<1>14. DisksInv'
  BY <1>1, <1>7, <1>10, <1>11, <1>12, <1>13, OneTask
<1>15. LoopInv'
  BY <1>1, <1>9, SameMachine DEF LoopInv
<1>16. disk' \in [DOMAIN disk -> DiskTasks]
  BY <1>1, <1>6 DEF TypeInv
<1> QED
  BY <1>9, <1>14, <1>15, <1>16

\* Joining two lists that have no nested partition in common.
LEMMA JoinOnce ==
  ASSUME NEW S, NEW g \in Seq(S), NEW m \in Seq(S), NestedOnce(g), NestedOnce(m),
         \A i \in DOMAIN g : \A j \in DOMAIN m :
            g[i].role = "nested" /\ m[j].role = "nested" => g[i].partition # m[j].partition,
         NEW f, f = g \o m
  PROVE  NestedOnce(f)
<1>1. /\ Len(g) \in Nat /\ Len(m) \in Nat
      /\ DOMAIN f = 1 .. Len(g) + Len(m) /\ DOMAIN g = 1 .. Len(g) /\ DOMAIN m = 1 .. Len(m)
      /\ \A i \in 1 .. Len(g) + Len(m) : f[i] = IF i <= Len(g) THEN g[i] ELSE m[i - Len(g)]
  OBVIOUS
<1> SUFFICES ASSUME NEW i \in DOMAIN f, NEW j \in DOMAIN f, f[i].role = "nested", f[j].role = "nested",
                    f[i].partition = f[j].partition
             PROVE  i = j
  BY DEF NestedOnce
<1>2. \A k \in DOMAIN f : \/ k \in DOMAIN g /\ f[k] = g[k]
                          \/ k - Len(g) \in DOMAIN m /\ f[k] = m[k - Len(g)]
  BY <1>1
<1>3. CASE i \in DOMAIN g /\ f[i] = g[i] /\ j \in DOMAIN g /\ f[j] = g[j]
  BY <1>3 DEF NestedOnce
<1>4. CASE /\ i - Len(g) \in DOMAIN m /\ f[i] = m[i - Len(g)]
           /\ j - Len(g) \in DOMAIN m /\ f[j] = m[j - Len(g)]
  <2>1. i - Len(g) = j - Len(g)
    BY <1>4 DEF NestedOnce
  <2> QED
    BY <1>1, <2>1
<1> QED
  BY <1>2, <1>3, <1>4

\* All of an outer partition is mapped.
LEMMA OuterDoneStep ==
  ASSUME MachineInv, TypeInv, StageInv, DisksInv, NEW d \in DOMAIN disk, OuterDone(d)
  PROVE  disk' \in [DOMAIN disk -> DiskTasks] /\ DisksInv'
<1> DEFINE os == disk[d].outers
<1> DEFINE g == disk[d].found
<1> DEFINE m == disk[d].mapped
<1> DEFINE f == g \o m
<1> DEFINE t == [disk[d] EXCEPT !.step = "outer", !.outers = Tail(disk[d].outers),
                                !.found = disk[d].found \o disk[d].mapped, !.mapped = <<>>]
<1>1. /\ stage = "disks" /\ disk[d].step = "map" /\ disk[d].todo = <<>> /\ disk' = [disk EXCEPT ![d] = t]
      /\ UNCHANGED <<machine, holds, stage, lo>>
  BY DEF OuterDone, At
<1>2. disk[d] \in DiskTasks /\ TaskInv(d, disk[d]) /\ TaskHolds(lo, disk[d])
  BY <1>1 DEF TypeInv, DisksInv
<1>3. os \in Seq(Nat) /\ os # <<>> /\ Distinct(os) /\ g \in Seq(Cands) /\ m \in Seq(Cands)
  BY <1>1, <1>2 DEF DiskTasks, TaskInv
<1>4. /\ Tail(os) \in Seq(Nat) /\ 1 \in DOMAIN os /\ Distinct(Tail(os))
      /\ \A j \in DOMAIN Tail(os) : j + 1 \in DOMAIN os /\ Tail(os)[j] = os[j + 1] /\ Tail(os)[j] # os[1]
      /\ \A j \in DOMAIN os : j # 1 => j - 1 \in DOMAIN Tail(os) /\ Tail(os)[j - 1] = os[j]
  BY <1>3, TailParts
<1>5. f \in Seq(Cands) /\ Joined(f, g, m)
  BY <1>3, JoinParts
<1>6. /\ \A i \in DOMAIN g : CandOn(d, g[i])
      /\ NestedOnce(g) /\ NestedOnce(m)
      /\ \A i \in DOMAIN os : os[i] \in userdata_partitions(Disk(d))
      /\ \A i \in DOMAIN g : g[i].role = "nested" => \A j \in DOMAIN os : g[i].partition[2] # os[j]
      /\ \A i \in DOMAIN m : CandOn(d, m[i]) /\ m[i].role = "nested" /\ m[i].partition[2] = os[1]
  BY <1>1, <1>2 DEF TaskInv
<1>7. /\ t \in DiskTasks /\ t.step = "outer" /\ t.found = f /\ t.outers = Tail(os) /\ t.mapped = <<>>
  <2>1. <<>> \in Seq(Cands)
    OBVIOUS
  <2>2. t \in DiskTasks
    BY <1>2, <1>4, <1>5, <2>1 DEF DiskTasks
  <2>3. t.step = "outer" /\ t.found = f /\ t.outers = Tail(os) /\ t.mapped = <<>>
    BY <1>2 DEF DiskTasks
  <2> QED
    BY <2>2, <2>3
<1>8. NestedOnce(f)
  <2>1. \A i \in DOMAIN g : \A j \in DOMAIN m :
            g[i].role = "nested" /\ m[j].role = "nested" => g[i].partition # m[j].partition
    BY <1>4, <1>6
  <2> HIDE DEF g, m
  <2> QED
    BY <1>3, <1>6, <2>1, JoinOnce
<1>9. \A i \in DOMAIN f : (\E j \in DOMAIN g : f[i] = g[j]) \/ (\E j \in DOMAIN m : f[i] = m[j])
  BY <1>5 DEF Joined
<1>10. /\ \A j \in DOMAIN g : \E i \in DOMAIN f : f[i] = g[j]
       /\ \A j \in DOMAIN m : \E i \in DOMAIN f : f[i] = m[j]
  BY <1>5 DEF Joined
<1> HIDE DEF t, f
<1>11. TaskInv(d, t)
  <2>1. \A i \in DOMAIN f : CandOn(d, f[i])
    BY <1>6, <1>9
  <2>2. ASSUME NEW i \in DOMAIN f, f[i].role = "nested", NEW j \in DOMAIN Tail(os)
        PROVE  f[i].partition[2] # Tail(os)[j]
    <3>1. CASE \E k \in DOMAIN g : f[i] = g[k]
      BY <1>4, <1>6, <2>2, <3>1
    <3>2. CASE \E k \in DOMAIN m : f[i] = m[k]
      BY <1>4, <1>6, <2>2, <3>2
    <3> QED
      BY <1>9, <3>1, <3>2
  <2>3. \A i \in DOMAIN Tail(os) : Tail(os)[i] \in userdata_partitions(Disk(d))
    BY <1>4, <1>6
  <2> QED
    BY <1>4, <1>7, <1>8, <2>1, <2>2, <2>3 DEF TaskInv
<1>12. TaskHolds(lo', t) /\ Unraced(lo', d, t)
  <2>1. \A i \in DOMAIN f : f[i].role = "nested" => Held(lo, f[i])
    BY <1>2, <1>9 DEF TaskHolds
  <2> QED
    BY <1>1, <1>7, <2>1 DEF TaskHolds, Unraced
<1>13. ASSUME NEW s \in SourcesOn(d), s \in Sure PROVE Pending(t, s)
  <2>1. Pending(disk[d], s)
    BY <1>1, <1>13 DEF DisksInv
  <2>2. CASE \E i \in DOMAIN f : Label(f[i]) = s
    BY <1>7, <2>2 DEF Pending
  <2>3. CASE ~\E i \in DOMAIN f : Label(f[i]) = s
    <3>1. /\ ~\E i \in DOMAIN g : Label(g[i]) = s
          /\ ~\E i \in DOMAIN m : Label(m[i]) = s
      BY <1>10, <2>3
    <3>2. DOMAIN disk[d].todo = {}
      BY <1>1
    <3>3. s[1] = "nested" /\ s[2][2] # os[1] /\ \E j \in DOMAIN os : s[2][2] = os[j]
      BY <1>1, <2>1, <3>1, <3>2 DEF Pending
    <3>4. PICK j \in DOMAIN os : s[2][2] = os[j]
      BY <3>3
    <3>5. j - 1 \in DOMAIN t.outers /\ s[2][2] = t.outers[j - 1]
      BY <1>4, <1>7, <3>3, <3>4
    <3> QED
      BY <1>7, <3>3, <3>5 DEF Pending
  <2> QED
    BY <2>2, <2>3
<1>14. \A e \in DOMAIN disk : e # d => TaskHolds(lo', disk[e]) /\ Unraced(lo', e, disk[e])
  BY <1>1, OtherTasks
<1>15. DisksInv'
  BY <1>1, <1>11, <1>12, <1>13, <1>14, OneTask
<1>16. disk' \in [DOMAIN disk -> DiskTasks]
  BY <1>1, <1>7 DEF TypeInv
<1> QED
  BY <1>15, <1>16

\* Until a task sends what it found, the caller has the same.
LEMMA GatheredStays ==
  ASSUME TypeInv, GatheredInv, NEW d \in DOMAIN disk,
         ReadTables(d) \/ OpenOuter(d) \/ GetFree(d) \/ Configure(d) \/ ConfigureBusy(d) \/ OuterDone(d)
  PROVE  /\ UNCHANGED <<stage, gathered, candidates, scanner, entries, list>>
         /\ stage = "disks" /\ DOMAIN disk' = DOMAIN disk /\ GatheredInv'
<1>1. /\ UNCHANGED <<stage, gathered, candidates, scanner, entries, list>> /\ stage = "disks"
      /\ disk[d].step # "sent"
  BY DEF ReadTables, OpenOuter, GetFree, Configure, ConfigureBusy, OuterDone, At
<1>2. disk[d] \in DiskTasks
  BY DEF TypeInv
<1>3. /\ DOMAIN disk' = DOMAIN disk /\ disk'[d].step # "sent"
      /\ \A e \in DOMAIN disk : e # d => disk'[e] = disk[e]
  <2>1. CASE ReadTables(d)
    BY <1>2, <2>1 DEF ReadTables, DiskTasks
  <2>2. CASE OpenOuter(d)
    BY <1>2, <2>2 DEF OpenOuter, DiskTasks
  <2>3. CASE GetFree(d)
    BY <1>2, <2>3 DEF GetFree, DiskTasks
  <2>4. CASE Configure(d)
    BY <1>2, <2>4 DEF Configure, DiskTasks
  <2>5. CASE ConfigureBusy(d)
    BY <1>2, <2>5 DEF ConfigureBusy, DiskTasks
  <2>6. CASE OuterDone(d)
    BY <1>2, <2>6 DEF OuterDone, DiskTasks
  <2> QED
    BY <2>1, <2>2, <2>3, <2>4, <2>5, <2>6
<1>4. \A e \in DOMAIN disk : disk'[e].step = "sent" <=> disk[e].step = "sent"
  BY <1>1, <1>3
<1>5. \A e \in DOMAIN disk : disk[e].step = "sent" => disk'[e] = disk[e]
  BY <1>1, <1>3
<1>6. GatheredInv'
  <2>1. gathered' = gathered
    BY <1>1
  <2>2. ASSUME NEW i \in DOMAIN gathered
        PROVE  \E e \in DOMAIN disk' :
                 disk'[e].step = "sent" /\ \E j \in DOMAIN disk'[e].found : gathered[i] = disk'[e].found[j]
    <3>1. PICK e \in DOMAIN disk :
            disk[e].step = "sent" /\ \E j \in DOMAIN disk[e].found : gathered[i] = disk[e].found[j]
      BY <1>1 DEF GatheredInv
    <3>2. disk'[e] = disk[e] /\ e \in DOMAIN disk'
      BY <1>3, <1>5, <3>1
    <3> QED
      BY <3>1, <3>2
  <2>3. ASSUME NEW e \in DOMAIN disk, disk[e].step = "sent", NEW j \in DOMAIN disk[e].found
        PROVE  \E i \in DOMAIN gathered : gathered[i] = disk[e].found[j]
    BY <1>1, <2>3 DEF GatheredInv
  <2>4. NestedOnce(gathered)
    BY <1>1 DEF GatheredInv
  <2>5. \A e \in DOMAIN disk' : disk'[e].step = "sent" =>
          \A j \in DOMAIN disk'[e].found : \E i \in DOMAIN gathered : gathered[i] = disk'[e].found[j]
    BY <1>3, <1>4, <1>5, <2>3
  <2> QED
    BY <2>1, <2>2, <2>4, <2>5 DEF GatheredInv
<1> QED
  BY <1>1, <1>3, <1>6

\* A task sends what it found.
LEMMA DiskDoneStep ==
  ASSUME MachineInv, TypeInv, StageInv, DisksInv, GatheredInv, NEW d \in DOMAIN disk, DiskDone(d)
  PROVE  /\ disk' \in [DOMAIN disk -> DiskTasks] /\ gathered' \in Seq(Cands)
         /\ DisksInv' /\ GatheredInv'
<1> DEFINE f == disk[d].found
<1> DEFINE t == [disk[d] EXCEPT !.step = "sent"]
<1>1. /\ stage = "disks" /\ disk[d].step = "outer" /\ disk[d].outers = <<>> /\ disk' = [disk EXCEPT ![d] = t]
      /\ gathered' = gathered \o f
      /\ UNCHANGED <<machine, holds, stage, lo>>
  BY DEF DiskDone, At
<1>2. disk[d] \in DiskTasks /\ TaskInv(d, disk[d]) /\ TaskHolds(lo, disk[d])
  BY <1>1 DEF TypeInv, DisksInv
<1>3. /\ t \in DiskTasks /\ t.step = "sent" /\ t.found = f /\ t.outers = disk[d].outers
      /\ t.mapped = disk[d].mapped
  BY <1>2 DEF DiskTasks
<1>4. gathered \in Seq(Cands) /\ f \in Seq(Cands)
  BY <1>2 DEF DiskTasks, TypeInv
<1> HIDE DEF t
<1>5. TaskInv(d, t)
  BY <1>1, <1>2, <1>3 DEF TaskInv
<1>6. TaskHolds(lo', t) /\ Unraced(lo', d, t)
  BY <1>1, <1>2, <1>3 DEF TaskHolds, Unraced
<1>7. \A s \in SourcesOn(d) : s \in Sure => Pending(t, s)
  BY <1>1, <1>3 DEF DisksInv, Pending
<1>8. \A e \in DOMAIN disk : e # d => TaskHolds(lo', disk[e]) /\ Unraced(lo', e, disk[e])
  BY <1>1, OtherTasks
<1>9. DisksInv'
  BY <1>1, <1>5, <1>6, <1>7, <1>8, OneTask
<1>10. disk' \in [DOMAIN disk -> DiskTasks]
  BY <1>1, <1>3 DEF TypeInv
<1>11. gathered' \in Seq(Cands) /\ Joined(gathered', gathered, f)
  BY <1>1, <1>4, JoinParts
<1>12. \A i \in DOMAIN f : f[i] \in Cands /\ f[i].disk = d
  BY <1>2 DEF TaskInv, CandOn
<1>13. NestedOnce(f)
  BY <1>2 DEF TaskInv
<1> HIDE DEF f
<1>14. \A i \in DOMAIN gathered : \E e \in DOMAIN disk :
         /\ e # d /\ disk[e].step = "sent" /\ \E j \in DOMAIN disk[e].found : gathered[i] = disk[e].found[j]
  BY <1>1 DEF GatheredInv
<1>15. NestedOnce(gathered')
  <2>1. ASSUME NEW i \in DOMAIN gathered, NEW j \in DOMAIN f, gathered[i].role = "nested", f[j].role = "nested"
        PROVE  gathered[i].partition # f[j].partition
    <3>1. PICK e \in DOMAIN disk : e # d /\ \E k \in DOMAIN disk[e].found : gathered[i] = disk[e].found[k]
      BY <1>14
    <3>2. gathered[i] \in Cands /\ gathered[i].disk = e
      <4>1. TaskInv(e, disk[e])
        BY <1>1 DEF DisksInv
      <4> QED
        BY <3>1, <4>1 DEF TaskInv, CandOn
    <3>3. gathered[i] \in NestedCands /\ f[j] \in NestedCands
      BY <1>12, <2>1, <3>2, CandFacts
    <3>4. gathered[i].partition[1] = e /\ f[j].partition[1] = d
      BY <1>12, <3>2, <3>3, NestedName
    <3> QED
      BY <3>1, <3>4
  <2>2. NestedOnce(gathered)
    BY <1>1 DEF GatheredInv
  <2> QED
    BY <1>1, <1>4, <1>13, <2>1, <2>2, JoinOnce
<1>16. /\ DOMAIN disk' = DOMAIN disk /\ disk'[d] = t
       /\ \A e \in DOMAIN disk : e # d => disk'[e] = disk[e]
  BY <1>1
<1>17. ASSUME NEW i \in DOMAIN gathered'
       PROVE  \E e \in DOMAIN disk' :
                disk'[e].step = "sent" /\ \E j \in DOMAIN disk'[e].found : gathered'[i] = disk'[e].found[j]
  <2>1. CASE \E j \in DOMAIN gathered : gathered'[i] = gathered[j]
    <3>1. PICK j \in DOMAIN gathered : gathered'[i] = gathered[j]
      BY <2>1
    <3>2. PICK e \in DOMAIN disk : /\ e # d /\ disk[e].step = "sent"
                                   /\ \E k \in DOMAIN disk[e].found : gathered[j] = disk[e].found[k]
      BY <1>14
    <3>3. disk'[e] = disk[e] /\ e \in DOMAIN disk'
      BY <1>16, <3>2
    <3> QED
      BY <3>1, <3>2, <3>3
  <2>2. CASE \E j \in DOMAIN f : gathered'[i] = f[j]
    <3>1. d \in DOMAIN disk' /\ disk'[d].step = "sent" /\ disk'[d].found = f
      BY <1>3, <1>16
    <3> QED
      BY <2>2, <3>1
  <2> QED
    BY <1>11, <2>1, <2>2 DEF Joined
<1>18. ASSUME NEW e \in DOMAIN disk', disk'[e].step = "sent", NEW j \in DOMAIN disk'[e].found
       PROVE  \E i \in DOMAIN gathered' : gathered'[i] = disk'[e].found[j]
  <2>1. CASE e = d
    <3>1. j \in DOMAIN f /\ disk'[e].found[j] = f[j]
      BY <1>3, <1>16, <1>18, <2>1
    <3> QED
      BY <1>11, <3>1 DEF Joined
  <2>2. CASE e # d
    <3>1. e \in DOMAIN disk /\ disk[e].step = "sent" /\ j \in DOMAIN disk[e].found
          /\ disk'[e].found[j] = disk[e].found[j]
      BY <1>16, <1>18, <2>2
    <3>2. PICK i \in DOMAIN gathered : gathered[i] = disk[e].found[j]
      BY <1>1, <3>1 DEF GatheredInv
    <3>3. \E k \in DOMAIN gathered' : gathered'[k] = gathered[i]
      BY <1>11 DEF Joined
    <3> QED
      BY <3>1, <3>2, <3>3
  <2> QED
    BY <2>1, <2>2
<1>19. GatheredInv'
  BY <1>15, <1>17, <1>18 DEF GatheredInv
<1> QED
  BY <1>9, <1>10, <1>11, <1>19

-----------------------------------------------------------------------------
(* The caller and the tasks of the candidates. *)

\* The partitions told are the same while no task is received.
LEMMA SameTold ==
  ASSUME UNCHANGED <<holds, candidates, scanner>>
  PROVE  Told' = Told
<1>1. \A i : Sent(i)' = Sent(i)
  BY DEF Sent
<1> QED
  BY <1>1 DEF Told

\* What the tasks of the disks leave alone.
LEMMA DisksLeave ==
  ASSUME TypeInv, StageInv, ListInv, stage = "disks",
         UNCHANGED <<machine, holds, stage, candidates, scanner, entries, list>>,
         DOMAIN disk' = DOMAIN disk
  PROVE  StageInv' /\ CandidatesInv' /\ ScanInv' /\ ListInv'
<1>1. candidates' = <<>> /\ DOMAIN candidates' = {} /\ stage' = "disks"
  BY DEF StageInv
<1>2. CandidatesInv' /\ ScanInv'
  BY <1>1 DEF CandidatesInv, ScanInv
<1>3. ListInv'
  <2>1. Told' = Told /\ Finds' = Finds
    BY SameTold, SameMachine
  <2> QED
    BY <2>1 DEF ListInv
<1>4. StageInv'
  BY <1>1 DEF StageInv
<1> QED
  BY <1>2, <1>3, <1>4

\* Nothing is told before a candidate is scanned.
LEMMA NothingTold ==
  ASSUME TypeInv, StageInv, stage \in {"list", "disks"}
  PROVE  Told = {}
<1>1. DOMAIN scanner = {}
  BY DEF StageInv, TypeInv
<1> QED
  BY <1>1 DEF Told

\* The caller sorts what it has and starts a task for each candidate.
LEMMA SpawnStep ==
  ASSUME MachineInv, TypeInv, StageInv, LoopInv, DisksInv, GatheredInv, ListInv, SpawnScanners
  PROVE  /\ TypeInv' /\ StageInv' /\ LoopInv' /\ DisksInv' /\ GatheredInv' /\ CandidatesInv' /\ ScanInv'
         /\ ListInv'
<1> DEFINE q == Dedup(sort_by(gathered, CandidateBefore))
<1>1. /\ stage = "disks" /\ stage' = "scan" /\ candidates' = q
      /\ \A d \in DOMAIN disk : disk[d].step = "sent"
      /\ scanner' = [i \in DOMAIN candidates' |-> [step |-> "mount", fs |-> Empty]]
      /\ UNCHANGED <<machine, holds, disk, lo, gathered, entries, list>>
  BY DEF SpawnScanners
<1>2. DisksInv' /\ GatheredInv'
  BY <1>1 DEF DisksInv, GatheredInv
<1>3. gathered \in Seq(Cands) /\ NestedOnce(gathered)
  BY <1>1 DEF TypeInv, GatheredInv
<1>4. /\ \E m \in Nat : DOMAIN q = 1 .. m
      /\ \A i \in DOMAIN q : \E j \in DOMAIN gathered : q[i] = gathered[j]
      /\ \A j \in DOMAIN gathered : \E i \in DOMAIN q : q[i] = gathered[j]
      /\ \A i, j \in DOMAIN q : Label(q[i]) = Label(q[j]) => i = j
  <2> DEFINE n == Len(gathered)
  <2>1. n \in Nat /\ gathered \in [1 .. n -> Cands] /\ DOMAIN gathered = 1 .. n
    BY <1>3
  <2> HIDE DEF n
  <2> QED
    BY <1>3, <2>1, EachOnce
<1>5. q \in Seq(Cands)
  <2>1. PICK m \in Nat : DOMAIN q = 1 .. m
    BY <1>4
  <2>2. \A i \in DOMAIN q : q[i] \in Cands
    BY <1>3, <1>4
  <2> DEFINE t == sort_by(gathered, CandidateBefore)
  <2> DEFINE kept == Ascending({i \in DOMAIN t : i = 1 \/ t[i] # t[i - 1]})
  <2>3. q = [i \in DOMAIN kept |-> t[kept[i]]]
    BY DEF Dedup
  <2>4. q = [i \in 1 .. m |-> q[i]]
    <3> HIDE DEF q, t, kept
    <3> QED
      BY <2>1, <2>3
  <2> HIDE DEF q
  <2> QED
    BY <2>1, <2>2, <2>4
<1> HIDE DEF q
<1>6. TypeInv'
  <2>1. Empty \in Seq(Nat)
    BY DEF Empty
  <2>2. scanner' \in [DOMAIN candidates' -> ScanTasks]
    BY <1>1, <2>1 DEF ScanTasks
  <2> QED
    BY <1>1, <1>5, <2>2 DEF TypeInv
<1>7. ASSUME NEW i \in DOMAIN q
      PROVE  /\ Label(q[i]) \in Sources
             /\ q[i].role = "nested" => Held(lo, q[i])
  <2>1. PICK j \in DOMAIN gathered : q[i] = gathered[j]
    BY <1>4
  <2>2. PICK d \in DOMAIN disk : \E k \in DOMAIN disk[d].found : gathered[j] = disk[d].found[k]
    BY <1>1 DEF GatheredInv
  <2>3. TaskInv(d, disk[d]) /\ TaskHolds(lo, disk[d])
    BY <1>1 DEF DisksInv
  <2>4. Label(q[i]) \in SourcesOn(d)
    BY <2>1, <2>2, <2>3 DEF TaskInv, CandOn
  <2>5. d \in local_disk_candidates(machine)
    BY <1>1 DEF StageInv
  <2> QED
    BY <2>1, <2>2, <2>3, <2>4, <2>5 DEF TaskHolds, Sources
<1>8. ASSUME NEW s \in Sure PROVE \E i \in DOMAIN q : Label(q[i]) = s
  <2>1. PICK d \in local_disk_candidates(machine) : s \in SourcesOn(d)
    BY DEF Sure, Sources
  <2>2. d \in DOMAIN disk /\ disk[d].step = "sent"
    BY <1>1 DEF StageInv
  <2>3. Pending(disk[d], s) /\ TaskInv(d, disk[d])
    BY <1>1, <2>1, <2>2 DEF DisksInv
  <2>4. DOMAIN disk[d].outers = {}
    BY <2>2, <2>3 DEF TaskInv
  <2>5. PICK k \in DOMAIN disk[d].found : Label(disk[d].found[k]) = s
    BY <2>3, <2>4 DEF Pending
  <2>6. PICK j \in DOMAIN gathered : gathered[j] = disk[d].found[k]
    BY <1>1, <2>2 DEF GatheredInv
  <2>7. PICK i \in DOMAIN q : q[i] = gathered[j]
    BY <1>4
  <2> QED
    BY <2>5, <2>6, <2>7
<1>9. Sources' = Sources /\ Sure' = Sure /\ Finds' = Finds
  BY <1>1, SameMachine
<1>10. CandidatesInv'
  BY <1>1, <1>4, <1>7, <1>8, <1>9 DEF CandidatesInv
<1>11. ScanInv'
  BY <1>1, <1>7 DEF ScanInv
<1>12. ListInv'
  <2>1. Told = {}
    BY <1>1, NothingTold
  <2>2. Told' = {}
    <3>1. \A i \in DOMAIN scanner' : scanner'[i].step # "received"
      BY <1>1
    <3> QED
      BY <3>1 DEF Told
  <2> QED
    BY <1>1, <1>9, <2>1, <2>2 DEF ListInv
<1>13. LoopInv'
  BY <1>1, <1>9 DEF LoopInv
<1>14. StageInv'
  BY <1>1 DEF StageInv
<1> QED
  BY <1>2, <1>6, <1>10, <1>11, <1>12, <1>13, <1>14

\* A candidate's device is the partition it names, for as long as the task needs it.
LEMMA DeviceIs ==
  ASSUME TypeInv, ScanInv, stage = "scan", NEW i \in DOMAIN candidates, scanner[i].step = "mount"
  PROVE  Device(candidates[i]) = candidates[i].partition /\ candidates[i].partition # Free
<1> DEFINE c == candidates[i]
<1>1. c \in Cands
  BY DEF TypeInv
<1>2. c.role = "nested" => Held(lo, c)
  BY DEF ScanInv
<1> HIDE DEF c
<1>3. CASE c.role = "nested"
  <2>1. c \in NestedCands
    BY <1>1, <1>3, CandFacts
  <2>2. c.dev[1] # "part" /\ c.partition # Free
    <3>1. c.dev = <<"loop", c.dev[2]>> /\ c.partition # Free
      BY <2>1, NestedFacts, NestedName
    <3>2. c.dev[1] = "loop"
      BY <3>1
    <3> QED
      BY <3>1, <3>2
  <2> QED
    BY <1>2, <1>3, <2>2 DEF Device, Held, c
<1>4. CASE c.role # "nested"
  <2>1. c \in PlainCands
    BY <1>1, <1>4, CandFacts
  <2>2. /\ c.partition = <<c.disk, c.partno>> /\ c.dev = <<"part", c.disk, c.partno>>
    BY <2>1, PlainFacts
  <2>3. c.dev[1] = "part" /\ Tail(c.dev) = <<c.disk, c.partno>>
    BY <2>2
  <2>4. c.partition # Free
    BY <2>2 DEF Free, Empty
  <2> QED
    BY <2>2, <2>3, <2>4 DEF Device, c
<1> QED
  BY <1>3, <1>4

\* The file of one candidate is not that of another.
LEMMA OtherFiles ==
  ASSUME TypeInv, CandidatesInv, NEW i \in DOMAIN candidates, NEW j \in DOMAIN candidates, i # j,
         candidates[j].role = "nested"
  PROVE  candidates[j] \in NestedCands /\ candidates[i].partition # candidates[j].partition
<1> DEFINE a == candidates[i]
<1> DEFINE b == candidates[j]
<1>1. a \in Cands /\ b \in Cands /\ Label(a) # Label(b)
  BY DEF TypeInv, CandidatesInv
<1> HIDE DEF a, b
<1>0. b.role = "nested"
  BY DEF b
<1>2. b \in NestedCands
  BY <1>0, <1>1, CandFacts
<1>3. ASSUME a.role = "nested" PROVE a.partition # b.partition
  BY <1>0, <1>1, <1>3 DEF Label
<1>4. ASSUME a.role # "nested" PROVE a.partition # b.partition
  <2>1. a.partition = <<a.disk, a.partno>>
    BY <1>1, <1>4, CandFacts, PlainFacts
  <2>2. Len(a.partition) = 2
    BY <2>1
  <2>3. Len(b.partition) = 3
    BY <1>2, NestedName
  <2> QED
    BY <2>2, <2>3
<1>5. a.partition # b.partition
  BY <1>3, <1>4
<1> QED
  BY <1>2, <1>5 DEF a, b

\* A task that is not received tells nothing.
LEMMA QuietScanner ==
  ASSUME TypeInv, NEW i \in DOMAIN scanner, scanner[i].step # "received", NEW x,
         scanner' = [scanner EXCEPT ![i] = x], x.step # "received", UNCHANGED <<holds, candidates>>
  PROVE  Told' = Told
<1> DEFINE R == {j \in DOMAIN scanner : scanner[j].step = "received" /\ Sent(j) # {}}
<1>1. /\ DOMAIN scanner' = DOMAIN scanner /\ scanner'[i] = x
      /\ \A j \in DOMAIN scanner : j # i => scanner'[j] = scanner[j]
  OBVIOUS
<1>2. \A j \in DOMAIN scanner : j # i => Sent(j)' = Sent(j)
  BY <1>1 DEF Sent
<1>3. R' = R
  BY <1>1, <1>2
<1>4. Told = {Label(candidates[j]) : j \in R}
  BY DEF Told
<1>5. Told' = {Label(candidates'[j]) : j \in R'}
  BY DEF Told
<1> HIDE DEF R
<1> QED
  BY <1>3, <1>4, <1>5

\* A task mounts its candidate, or cannot.
LEMMA MountStep ==
  ASSUME MachineInv, TypeInv, StageInv, LoopInv, CandidatesInv, ScanInv, ListInv,
         NEW i \in DOMAIN scanner, ScanPartition(i) \/ MountFails(i)
  PROVE  /\ TypeInv' /\ StageInv' /\ LoopInv' /\ DisksInv' /\ GatheredInv' /\ CandidatesInv' /\ ScanInv'
         /\ ListInv' /\ Told' = Told /\ UNCHANGED <<stage, list>>
<1> DEFINE c == candidates[i]
<1> DEFINE H == {<<"candidate", c.partition>>}
<1>1. /\ stage = "scan" /\ scanner[i].step = "mount"
      /\ UNCHANGED <<machine, holds, stage, disk, gathered, candidates, entries, list>>
  BY DEF ScanPartition, MountFails
<1>2. /\ i \in DOMAIN candidates /\ scanner \in [DOMAIN candidates -> ScanTasks] /\ scanner[i] \in ScanTasks
      /\ lo \in [Loops -> LoopDevices] /\ c \in Cands
  BY DEF TypeInv
<1>3. Device(c) = c.partition /\ c.partition # Free
  BY <1>1, <1>2, DeviceIs
<1>4. Mountable(c) <=> PartitionFs(c.partition).type \in Fstypes(c.role)
  BY <1>3 DEF Mountable
<1>5. scanner[i].fs = Empty
  BY <1>1, <1>2 DEF ScanInv
<1>6. c.partition \in Seq(Nat)
  <2>1. CASE c.role = "nested"
    BY <1>2, <2>1, CandFacts, NestedName
  <2>2. CASE c.role # "nested"
    <3>1. c.partition = <<c.disk, c.partno>> /\ c.disk \in Nat /\ c.partno \in Nat
      BY <1>2, <2>2, CandFacts, PlainFacts
    <3>2. <<c.disk, c.partno>> \in Seq(Nat)
      BY <3>1
    <3> QED
      BY <3>1, <3>2
  <2> QED
    BY <2>1, <2>2
<1>7. \E x : scanner' = [scanner EXCEPT ![i] = x] /\ x = [step |-> "sent", fs |-> ReadFs(c)]
  <2>1. CASE ScanPartition(i)
    BY <1>3, <1>4, <2>1 DEF ScanPartition, ReadFs
  <2>2. CASE MountFails(i)
    <3>1. [scanner[i] EXCEPT !.step = "sent"] = [step |-> "sent", fs |-> Empty]
      BY <1>2, <1>5 DEF ScanTasks
    <3>2. ReadFs(c) = Empty
      BY <1>4, <2>2 DEF MountFails, ReadFs
    <3>3. scanner' = [scanner EXCEPT ![i] = [scanner[i] EXCEPT !.step = "sent"]]
      BY <2>2 DEF MountFails
    <3> QED
      BY <3>1, <3>2, <3>3
  <2> QED
    BY <2>1, <2>2
<1>8. /\ lo' \in [Loops -> LoopDevices]
      /\ \A k \in Loops : lo'[k].of = Free \/ lo'[k].of = lo[k].of
      /\ \A x \in NestedCands : Held(lo, x) /\ <<"candidate", x.partition>> \notin H => Held(lo', x)
  <2>1. CASE lo' = lo
    BY <1>2, <2>1
  <2>2. CASE lo' = Closed(lo, H)
    BY <1>2, <2>2, ClosedKeeps
  <2>3. CASE /\ c.role = "nested"
             /\ lo' = Closed([lo EXCEPT ![c.dev[2]].open = @ \union {<<"mount", c.partition>>}], H)
    <3> DEFINE l == [lo EXCEPT ![c.dev[2]].open = @ \union {<<"mount", c.partition>>}]
    <3>1. c.dev[2] \in Loops
      BY <1>2, <2>3, CandFacts, NestedFacts
    <3>2. <<"mount", c.partition>> \in Holders
      BY <1>6 DEF Holders
    <3>3. /\ l \in [Loops -> LoopDevices]
          /\ \A k \in Loops : l[k].of = lo[k].of /\ \A x \in lo[k].open : x \in l[k].open
      <4> HIDE DEF c
      <4> QED
        BY <1>2, <3>1, <3>2 DEF LoopDevices
    <3>4. \A x \in NestedCands : Held(lo, x) => Held(l, x)
      <4> HIDE DEF l
      <4> QED
        BY <3>3, NestedFacts DEF Held
    <3>5. lo' = Closed(l, H)
      BY <2>3
    <3> HIDE DEF l, H
    <3> QED
      BY <3>3, <3>4, <3>5, ClosedKeeps
  <2>4. CASE ScanPartition(i)
    <3>1. c.dev[1] = "part" => lo' = lo
      BY <2>4 DEF ScanPartition
    <3>2. c.dev[1] # "part" =>
            lo' = Closed([lo EXCEPT ![c.dev[2]].open = @ \union {<<"mount", c.partition>>}], H)
      BY <2>4 DEF ScanPartition
    <3>3. c.dev[1] # "part" => c.role = "nested"
      <4>1. c \in PlainCands => c.dev = <<"part", c.disk, c.partno>>
        BY PlainFacts
      <4>2. c \in PlainCands => c.dev[1] = "part"
        BY <4>1
      <4> QED
        BY <1>2, <4>2, CandFacts
    <3> QED
      BY <2>1, <2>3, <3>1, <3>2, <3>3
  <2>5. CASE MountFails(i)
    <3>1. lo' = Closed(lo, H)
      BY <2>5 DEF MountFails
    <3> QED
      BY <2>2, <3>1
  <2> QED
    BY <2>4, <2>5
<1> HIDE DEF c, H
<1>9. /\ DOMAIN scanner' = DOMAIN candidates /\ scanner'[i] = [step |-> "sent", fs |-> ReadFs(c)]
      /\ \A j \in DOMAIN candidates : j # i => scanner'[j] = scanner[j]
      /\ scanner' \in [DOMAIN candidates -> ScanTasks]
  <2>1. ReadFs(c) \in Seq(Nat)
    BY <1>6 DEF ReadFs, Empty
  <2>2. [step |-> "sent", fs |-> ReadFs(c)] \in ScanTasks
    BY <2>1 DEF ScanTasks
  <2> QED
    BY <1>2, <1>7, <2>2
<1>10. TypeInv'
  BY <1>1, <1>8, <1>9 DEF TypeInv
<1>11. Sources' = Sources /\ Sure' = Sure /\ Finds' = Finds /\ \A p : PartitionFs(p)' = PartitionFs(p)
  BY <1>1, SameMachine
<1>12. CandidatesInv' /\ StageInv'
  BY <1>1, <1>11 DEF CandidatesInv, StageInv
<1>13. LoopInv'
  BY <1>8, <1>11 DEF LoopInv
<1>14. ScanInv'
  <2> SUFFICES ASSUME NEW j \in DOMAIN candidates
               PROVE  /\ scanner'[j].fs = IF scanner'[j].step = "mount" THEN Empty ELSE ReadFs(candidates[j])
                      /\ scanner'[j].step = "mount" /\ candidates[j].role = "nested" => Held(lo', candidates[j])
    <3>1. \A x : ReadFs(x)' = ReadFs(x)
      BY <1>11 DEF ReadFs
    <3> QED
      BY <1>1, <3>1 DEF ScanInv
  <2>1. CASE j = i
    BY <1>9, <2>1 DEF c
  <2>2. CASE j # i
    <3>1. scanner'[j] = scanner[j]
      BY <1>9, <2>2
    <3>2. ASSUME scanner[j].step = "mount", candidates[j].role = "nested" PROVE Held(lo', candidates[j])
      <4>1. Held(lo, candidates[j])
        BY <1>1, <3>2 DEF ScanInv
      <4>2. candidates[j] \in NestedCands /\ c.partition # candidates[j].partition
        BY <1>2, <2>2, <3>2, OtherFiles DEF c
      <4>3. <<"candidate", candidates[j].partition>> \notin H
        BY <4>2 DEF H
      <4> QED
        BY <1>8, <4>1, <4>2, <4>3
    <3> QED
      BY <3>1, <3>2 DEF ScanInv
  <2> QED
    BY <2>1, <2>2
<1>15. Told' = Told
  <2>1. PICK x : scanner' = [scanner EXCEPT ![i] = x] /\ x = [step |-> "sent", fs |-> ReadFs(c)]
    BY <1>7
  <2>2. x.step # "received" /\ scanner[i].step # "received"
    BY <1>1, <2>1
  <2> QED
    BY <1>1, <2>1, <2>2, QuietScanner
<1>16. ListInv'
  BY <1>1, <1>11, <1>15 DEF ListInv
<1>17. DisksInv' /\ GatheredInv'
  BY <1>1 DEF DisksInv, GatheredInv
<1> QED
  BY <1>1, <1>10, <1>12, <1>13, <1>14, <1>15, <1>16, <1>17

\* What a task sends is what its candidate's partition has.
LEMMA SentIs ==
  ASSUME MachineInv, TypeInv, CandidatesInv, ScanInv, NEW i \in DOMAIN candidates, scanner[i].step # "mount"
  PROVE  Label(candidates[i]) \in Sources /\ Sent(i) = Finds[Label(candidates[i])]
<1> DEFINE c == candidates[i]
<1> DEFINE s == Label(c)
<1> DEFINE k == [role |-> s[1], disk |-> s[2][1], partition |-> s[2]]
<1>1. c \in Cands /\ s \in Sources /\ scanner[i].fs = ReadFs(c)
  BY DEF TypeInv, CandidatesInv, ScanInv
<1>2. s[1] = c.role /\ s[2] = c.partition
  BY DEF Label
<1>3. Sent(i) = IF scanner[i].fs = Empty THEN {} ELSE Labelled(c, holds[scanner[i].fs])
  BY DEF Sent
<1>4. Finds[s] = IF PartitionFs(s[2]).type \in Fstypes(s[1]) THEN Labelled(k, holds[s[2]]) ELSE {}
  BY <1>1 DEF Finds
<1> HIDE DEF s, c
<1>5. c.partition # Empty /\ c.disk = c.partition[1]
  <2>1. ASSUME c.role = "nested" PROVE c.partition # Empty /\ c.disk = c.partition[1]
    BY <1>1, <2>1, CandFacts, NestedName DEF Free
  <2>2. ASSUME c.role # "nested" PROVE c.partition # Empty /\ c.disk = c.partition[1]
    <3>1. c.partition = <<c.disk, c.partno>>
      BY <1>1, <2>2, CandFacts, PlainFacts
    <3> QED
      BY <3>1 DEF Empty
  <2> QED
    BY <2>1, <2>2
<1>6. k.role = c.role /\ k.disk = c.disk /\ k.partition = c.partition
  BY <1>2, <1>5
<1> HIDE DEF k
<1>7. \A X : Labelled(k, X) = Labelled(c, X)
  BY <1>6 DEF Labelled
<1>8. Sent(i) = Finds[s]
  BY <1>1, <1>2, <1>3, <1>4, <1>5, <1>7 DEF ReadFs
<1> QED
  BY <1>1, <1>8 DEF s, c

ToldFinds == UNION {Finds[t] : t \in Told}

\* The partitions told are finitely many and have finitely many entries, each with a key of its own.
LEMMA ToldIs ==
  ASSUME MachineInv, TypeInv, CandidatesInv
  PROVE  /\ \A t \in Told : t \in Sources
         /\ IsFiniteSet(ToldFinds) /\ Keyed(ToldFinds)
         /\ \A e \in ToldFinds : e \in AllFinds
<1> DEFINE R == {i \in DOMAIN scanner : scanner[i].step = "received" /\ Sent(i) # {}}
<1>1. Told = {Label(candidates[i]) : i \in R} /\ R \in SUBSET DOMAIN candidates
  BY DEF Told, TypeInv
<1>2. IsFiniteSet(DOMAIN candidates)
  <2>1. Len(candidates) \in Nat /\ DOMAIN candidates = 1 .. Len(candidates)
    BY DEF TypeInv
  <2> QED
    BY <2>1, FS_Interval
<1> HIDE DEF R
<1>3. IsFiniteSet(R)
  BY <1>1, <1>2, FS_Subset
<1>4. \A t \in Told : t \in Sources
  BY <1>1 DEF CandidatesInv
<1> DEFINE g == [i \in R |-> Finds[Label(candidates[i])]]
<1> DEFINE Y == {Finds[t] : t \in Told}
<1>5. g \in Surjection(R, Y)
  BY <1>1 DEF Surjection
<1>6. \A T \in Y : IsFiniteSet(T)
  BY <1>4, FindsAre
<1>7. ToldFinds = UNION Y
  BY DEF ToldFinds
<1> HIDE DEF g, Y
<1>8. IsFiniteSet(Y)
  BY <1>3, <1>5, FS_Surjection
<1>9. IsFiniteSet(ToldFinds)
  BY <1>6, <1>7, <1>8, FS_UNION
<1>10. \A e \in ToldFinds : e \in AllFinds
  BY <1>4 DEF ToldFinds, AllFinds
<1>11. Keyed(ToldFinds)
  BY <1>10, FindsKeyed DEF Keyed
<1> QED
  BY <1>4, <1>9, <1>10, <1>11

\* Lists of two sets that have no entry in common, one after the other, name each entry of both once.
LEMMA JoinLists ==
  ASSUME NEW X, IsFiniteSet(X), Keyed(X), NEW Y, IsFiniteSet(Y), Keyed(Y), \A e \in X : e \notin Y,
         Keyed(X \cup Y)
  PROVE  sort_by(InOrder(X, EntryBefore) \o InOrder(Y, EntryBefore), EntryBefore)
           = InOrder(X \cup Y, EntryBefore)
<1> DEFINE a == InOrder(X, EntryBefore)
<1> DEFINE b == InOrder(Y, EntryBefore)
<1> DEFINE m == Cardinality(X)
<1> DEFINE n == Cardinality(Y)
<1> DEFINE U == X \cup Y
<1> DEFINE s == a \o b
<1>1. /\ m \in Nat /\ a \in [1 .. m -> X] /\ \A i, j \in 1 .. m : a[i] = a[j] => i = j
      /\ \A e \in X : \E i \in 1 .. m : a[i] = e
  BY EntriesListed, FS_CardinalityType DEF Listed
<1>2. /\ n \in Nat /\ b \in [1 .. n -> Y] /\ \A i, j \in 1 .. n : b[i] = b[j] => i = j
      /\ \A e \in Y : \E i \in 1 .. n : b[i] = e
  BY EntriesListed, FS_CardinalityType DEF Listed
<1> HIDE DEF a, b, m, n
<1>3. a \in Seq(U) /\ b \in Seq(U) /\ Len(a) = m /\ Len(b) = n
  BY <1>1, <1>2
<1>4. /\ s \in Seq(U) /\ Len(s) = m + n /\ m + n \in Nat
      /\ \A i \in 1 .. m + n : s[i] = IF i <= m THEN a[i] ELSE b[i - m]
  BY <1>1, <1>2, <1>3
<1> HIDE DEF s
<1>5. s \in [1 .. m + n -> U]
  BY <1>4
<1>6. ASSUME NEW i \in 1 .. m + n, NEW j \in 1 .. m + n, s[i] = s[j] PROVE i = j
  <2>1. CASE i <= m /\ j <= m
    <3>1. i \in 1 .. m /\ j \in 1 .. m /\ a[i] = a[j]
      BY <1>1, <1>2, <1>4, <1>6, <2>1
    <3> QED
      BY <1>1, <3>1
  <2>2. CASE i > m /\ j > m
    <3>1. i - m \in 1 .. n /\ j - m \in 1 .. n /\ b[i - m] = b[j - m]
      BY <1>1, <1>2, <1>4, <1>6, <2>2
    <3>2. i - m = j - m
      BY <1>2, <3>1
    <3> QED
      BY <1>1, <3>2
  <2>3. CASE i <= m /\ j > m
    <3>1. i \in 1 .. m /\ j - m \in 1 .. n /\ a[i] = b[j - m]
      BY <1>1, <1>2, <1>4, <1>6, <2>3
    <3>2. a[i] \in X /\ b[j - m] \in Y
      BY <1>1, <1>2, <3>1
    <3> QED
      BY <3>1, <3>2
  <2>4. CASE i > m /\ j <= m
    <3>1. j \in 1 .. m /\ i - m \in 1 .. n /\ a[j] = b[i - m]
      BY <1>1, <1>2, <1>4, <1>6, <2>4
    <3>2. a[j] \in X /\ b[i - m] \in Y
      BY <1>1, <1>2, <3>1
    <3> QED
      BY <3>1, <3>2
  <2> QED
    BY <1>1, <1>2, <2>1, <2>2, <2>3, <2>4
<1>7. ASSUME NEW e \in U PROVE \E i \in 1 .. m + n : s[i] = e
  <2>1. CASE e \in X
    <3>1. PICK i \in 1 .. m : a[i] = e
      BY <1>1, <2>1
    <3>2. i \in 1 .. m + n /\ s[i] = e
      BY <1>1, <1>2, <1>4, <3>1
    <3> QED
      BY <3>2
  <2>2. CASE e \in Y
    <3>1. PICK i \in 1 .. n : b[i] = e
      BY <1>2, <2>2
    <3>2. i + m \in 1 .. m + n /\ ~(i + m <= m) /\ (i + m) - m = i
      BY <1>1, <1>2
    <3>3. s[i + m] = e
      BY <1>4, <3>1, <3>2
    <3> QED
      BY <3>2, <3>3
  <2> QED
    BY <2>1, <2>2
<1>8. IsFiniteSet(U) /\ Keyed(U)
  BY FS_Union
<1> HIDE DEF U
<1>9. sort_by(s, EntryBefore) = InOrder(U, EntryBefore)
  BY <1>4, <1>5, <1>6, <1>7, <1>8, SortIsListing
<1> QED
  BY <1>9 DEF s, a, b, U

\* A partition's entries are received.
LEMMA ReceiveTells ==
  ASSUME MachineInv, TypeInv, CandidatesInv, ScanInv, NEW i \in DOMAIN scanner, Receive(i)
  PROVE  /\ Sent(i) = {} => Told' = Told
         /\ Sent(i) # {} => /\ Told' = Told \cup {Label(candidates[i])}
                            /\ Label(candidates[i]) \notin Told
<1>1. /\ scanner[i].step = "sent" /\ UNCHANGED <<holds, candidates>>
      /\ scanner' = [scanner EXCEPT ![i] = [scanner[i] EXCEPT !.step = "received"]]
  BY DEF Receive
<1>2. DOMAIN scanner = DOMAIN candidates /\ i \in DOMAIN candidates /\ scanner[i] \in ScanTasks
  BY DEF TypeInv
<1> DEFINE x == [scanner[i] EXCEPT !.step = "received"]
<1>3. x.step = "received" /\ x.fs = scanner[i].fs
  BY <1>2 DEF ScanTasks
<1>4. /\ DOMAIN scanner' = DOMAIN scanner /\ scanner'[i] = x
      /\ \A j \in DOMAIN scanner : j # i => scanner'[j] = scanner[j]
  BY <1>1
<1> HIDE DEF x
<1>5. \A j \in DOMAIN scanner : scanner'[j].fs = scanner[j].fs
  BY <1>3, <1>4
<1>6. \A j \in DOMAIN scanner : Sent(j)' = Sent(j)
  BY <1>1, <1>5 DEF Sent
<1> DEFINE R == {j \in DOMAIN scanner : scanner[j].step = "received" /\ Sent(j) # {}}
<1>7. R' = IF Sent(i) = {} THEN R ELSE R \cup {i}
  BY <1>1, <1>3, <1>4, <1>6
<1>8. i \notin R /\ \A j \in R : j \in DOMAIN candidates
  BY <1>1, <1>2
<1>9. Told = {Label(candidates[j]) : j \in R} /\ Told' = {Label(candidates[j]) : j \in R'}
  BY <1>1 DEF Told
<1> HIDE DEF R
<1>10. Label(candidates[i]) \notin Told
  BY <1>2, <1>8, <1>9 DEF CandidatesInv
<1> QED
  BY <1>7, <1>9, <1>10

\* The list then has the entries of one more partition.
LEMMA ReceiveStep ==
  ASSUME MachineInv, TypeInv, StageInv, LoopInv, CandidatesInv, ScanInv, ListInv,
         NEW i \in DOMAIN scanner, Receive(i)
  PROVE  /\ TypeInv' /\ StageInv' /\ LoopInv' /\ DisksInv' /\ GatheredInv' /\ CandidatesInv' /\ ScanInv'
         /\ ListInv'
<1> DEFINE s == Label(candidates[i])
<1>1. /\ stage = "scan" /\ scanner[i].step = "sent"
      /\ scanner' = [scanner EXCEPT ![i] = [scanner[i] EXCEPT !.step = "received"]]
      /\ entries' = IF Sent(i) = {} THEN entries
                    ELSE sort_by(entries \o InOrder(Sent(i), EntryBefore), EntryBefore)
      /\ list' = IF Sent(i) = {} THEN list ELSE entries'
      /\ UNCHANGED <<machine, holds, stage, disk, lo, gathered, candidates>>
  BY DEF Receive
<1>2. /\ scanner \in [DOMAIN candidates -> ScanTasks] /\ i \in DOMAIN candidates /\ scanner[i] \in ScanTasks
  BY DEF TypeInv
<1>3. /\ [scanner[i] EXCEPT !.step = "received"] \in ScanTasks
      /\ [scanner[i] EXCEPT !.step = "received"].step = "received"
      /\ [scanner[i] EXCEPT !.step = "received"].fs = scanner[i].fs
  BY <1>2 DEF ScanTasks
<1>4. /\ scanner' \in [DOMAIN candidates' -> ScanTasks]
      /\ \A j \in DOMAIN candidates : /\ scanner'[j].fs = scanner[j].fs
                                      /\ j # i => scanner'[j] = scanner[j]
                                      /\ scanner'[i].step = "received"
  BY <1>1, <1>2, <1>3
<1>5. TypeInv'
  BY <1>1, <1>4 DEF TypeInv
<1>6. /\ Sources' = Sources /\ Sure' = Sure /\ Finds' = Finds /\ \A p : PartitionFs(p)' = PartitionFs(p)
  BY <1>1, SameMachine
<1>7. StageInv' /\ LoopInv' /\ DisksInv' /\ GatheredInv' /\ CandidatesInv'
  BY <1>1, <1>6 DEF StageInv, LoopInv, DisksInv, GatheredInv, CandidatesInv
<1>8. ScanInv'
  <2>1. \A c : ReadFs(c)' = ReadFs(c)
    BY <1>6 DEF ReadFs
  <2> SUFFICES ASSUME NEW j \in DOMAIN candidates
               PROVE  /\ scanner'[j].fs = IF scanner'[j].step = "mount" THEN Empty ELSE ReadFs(candidates[j])
                      /\ scanner'[j].step = "mount" /\ candidates[j].role = "nested" => Held(lo, candidates[j])
    BY <1>1, <2>1 DEF ScanInv
  <2>2. CASE j = i
    BY <1>1, <1>2, <1>4, <2>2 DEF ScanInv
  <2>3. CASE j # i
    BY <1>1, <1>4, <2>3 DEF ScanInv
  <2> QED
    BY <2>2, <2>3
<1>9. s \in Sources /\ Sent(i) = Finds[s]
  BY <1>1, <1>2, SentIs
<1>10. ListInv'
  <2>1. CASE Sent(i) = {}
    <3>1. Told' = Told
      BY <2>1, ReceiveTells
    <3> QED
      BY <1>1, <1>6, <2>1, <3>1 DEF ListInv
  <2>2. CASE Sent(i) # {}
    <3> DEFINE X == ToldFinds
    <3> DEFINE Y == Finds[s]
    <3>1. Told' = Told \cup {s} /\ s \notin Told
      BY <2>2, ReceiveTells
    <3>2. /\ \A t \in Told : t \in Sources
          /\ IsFiniteSet(X) /\ Keyed(X) /\ \A e \in X : e \in AllFinds
      BY ToldIs
    <3>3. IsFiniteSet(Y) /\ \A e \in Y : e \in AllFinds
      BY <1>9, FindsAre DEF AllFinds
    <3>4. Keyed(AllFinds)
      BY FindsKeyed
    <3>5. ASSUME NEW e \in X PROVE e \notin Y
      <4>1. PICK t \in Told : e \in Finds[t]
        BY DEF ToldFinds
      <4>2. t \in Sources /\ t = <<e.role, e.partition>>
        BY <3>2, <4>1, FindsAre, SourceIs
      <4>3. e \in Finds[s] => s = <<e.role, e.partition>>
        BY <1>9, FindsAre, SourceIs
      <4> QED
        BY <3>1, <4>1, <4>2, <4>3
    <3>6. ToldFinds' = X \cup Y
      <4>1. ToldFinds' = UNION {Finds[t] : t \in Told'}
        BY <1>6 DEF ToldFinds
      <4> QED
        BY <3>1, <4>1 DEF ToldFinds
    <3>7. entries = InOrder(X, EntryBefore)
      BY DEF ListInv, ToldFinds
    <3>8. /\ entries' = sort_by(InOrder(X, EntryBefore) \o InOrder(Y, EntryBefore), EntryBefore)
          /\ list' = entries'
      BY <1>1, <1>9, <2>2, <3>7
    <3> HIDE DEF X, Y
    <3>9. Keyed(Y) /\ Keyed(X \cup Y)
      BY <3>2, <3>3, <3>4 DEF Keyed
    <3>10. entries' = InOrder(X \cup Y, EntryBefore)
      BY <3>2, <3>3, <3>5, <3>8, <3>9, JoinLists
    <3>11. entries' = InOrder(ToldFinds', EntryBefore)
      BY <3>6, <3>10
    <3>12. entries' = InOrder(UNION {Finds[t] : t \in Told}, EntryBefore)'
      BY <3>11 DEF ToldFinds, InOrder, EntryBefore
    <3> QED
      BY <3>8, <3>12 DEF ListInv
  <2> QED
    BY <2>1, <2>2
<1> QED
  BY <1>5, <1>7, <1>8, <1>10

\* Sorting the list that is complete changes nothing.
LEMMA CompleteStep ==
  ASSUME MachineInv, TypeInv, StageInv, LoopInv, CandidatesInv, ScanInv, ListInv, Complete
  PROVE  /\ TypeInv' /\ StageInv' /\ LoopInv' /\ DisksInv' /\ GatheredInv' /\ CandidatesInv' /\ ScanInv'
         /\ ListInv' /\ Told' = Told /\ list' = list
<1>1. /\ stage = "scan" /\ stage' = "complete" /\ list' = sort_by(entries, EntryBefore)
      /\ \A i \in DOMAIN scanner : scanner[i].step = "received"
      /\ UNCHANGED <<machine, holds, disk, lo, gathered, candidates, scanner, entries>>
  BY DEF Complete
<1>2. /\ Sources' = Sources /\ Sure' = Sure /\ Finds' = Finds /\ \A p : PartitionFs(p)' = PartitionFs(p)
  BY <1>1, SameMachine
<1>3. Told' = Told
  BY <1>1, SameTold
<1>4. list' = list
  <2> DEFINE X == ToldFinds
  <2> DEFINE n == Cardinality(X)
  <2>1. IsFiniteSet(X) /\ Keyed(X)
    BY ToldIs
  <2>2. entries = InOrder(X, EntryBefore) /\ list = entries
    BY DEF ListInv, ToldFinds
  <2> HIDE DEF X
  <2>3. /\ n \in Nat /\ entries \in [1 .. n -> X] /\ \A i, j \in 1 .. n : entries[i] = entries[j] => i = j
        /\ \A e \in X : \E i \in 1 .. n : entries[i] = e
    BY <2>1, <2>2, EntriesListed, FS_CardinalityType DEF Listed
  <2> HIDE DEF n
  <2> QED
    BY <1>1, <2>1, <2>2, <2>3, SortIsListing
<1>5. TypeInv' /\ StageInv'
  BY <1>1 DEF TypeInv, StageInv
<1>6. LoopInv' /\ DisksInv' /\ GatheredInv' /\ CandidatesInv'
  BY <1>1, <1>2 DEF LoopInv, DisksInv, GatheredInv, CandidatesInv
<1>7. ScanInv'
  <2>1. \A c : ReadFs(c)' = ReadFs(c)
    BY <1>2 DEF ReadFs
  <2> QED
    BY <1>1, <2>1 DEF ScanInv
<1>8. ListInv'
  BY <1>1, <1>2, <1>3, <1>4 DEF ListInv
<1> QED
  BY <1>3, <1>4, <1>5, <1>6, <1>7, <1>8

IInv ==
    /\ MachineInv /\ TypeInv /\ StageInv /\ LoopInv /\ DisksInv
    /\ GatheredInv /\ CandidatesInv /\ ScanInv /\ ListInv

\* At first nothing is found.
LEMMA InitInv ==
  ASSUME Init
  PROVE  IInv /\ Told = {}
<1>1. /\ stage = "list" /\ disk = <<>> /\ gathered = <<>> /\ candidates = <<>> /\ scanner = <<>>
      /\ entries = <<>> /\ list = <<>> /\ lo = [n \in Loops |-> [of |-> Free, open |-> {}]]
  BY DEF Init
<1>2. MachineInv
  BY DEF Init, MachineInv
<1>3. TypeInv
  <2>1. lo \in [Loops -> LoopDevices]
    <3>1. Free \in Seq(Nat)
      BY DEF Free, Empty
    <3>2. [of |-> Free, open |-> {}] \in LoopDevices
      BY <3>1 DEF LoopDevices
    <3> QED
      BY <1>1, <3>2
  <2>2. disk \in [DOMAIN disk -> DiskTasks] /\ scanner \in [DOMAIN candidates -> ScanTasks]
    BY <1>1
  <2> QED
    BY <1>1, <2>1, <2>2 DEF TypeInv
<1>4. StageInv /\ DisksInv /\ GatheredInv /\ CandidatesInv /\ ScanInv
  BY <1>1 DEF StageInv, DisksInv, GatheredInv, CandidatesInv, ScanInv
<1>5. LoopInv
  BY <1>1 DEF LoopInv
<1>6. Told = {}
  BY <1>1, <1>3, <1>4, NothingTold
<1>7. ListInv
  <2> DEFINE X == UNION {Finds[t] : t \in Told}
  <2>1. X = {}
    BY <1>6
  <2> HIDE DEF X
  <2>2. InOrder(X, EntryBefore) = <<>>
    <3>1. Cardinality(X) = 0
      BY <2>1, FS_EmptySet
    <3>2. 1 .. Cardinality(X) = {}
      BY <3>1
    <3> QED
      BY <3>2 DEF InOrder
  <2> QED
    BY <1>1, <2>2 DEF ListInv, X
<1> QED
  BY <1>2, <1>3, <1>4, <1>5, <1>6, <1>7 DEF IInv

\* The disks are listed, or cannot be.
LEMMA ListStep ==
  ASSUME IInv, ListDisks \/ ListFails
  PROVE  IInv' /\ Told = {} /\ Told' = Told /\ list' = list
<1>1. /\ stage = "list" /\ stage' \in {"disks", "complete"}
      /\ UNCHANGED <<machine, holds, lo, gathered, candidates, scanner, entries, list>>
  BY DEF ListDisks, ListFails
<1>2. /\ MachineInv /\ TypeInv /\ StageInv /\ LoopInv /\ ListInv
      /\ gathered = <<>> /\ candidates = <<>>
  BY <1>1 DEF IInv, StageInv
<1> DEFINE t == [step |-> "tables", found |-> <<>>, outers |-> <<>>, todo |-> <<>>, mapped |-> <<>>,
                 number |-> 0]
<1>3. stage' = "disks" => disk' = [d \in local_disk_candidates(machine) |-> t]
  BY <1>1 DEF ListDisks, ListFails
<1>4. stage' # "disks" => disk' = disk
  BY <1>1 DEF ListDisks, ListFails
<1>5. t \in DiskTasks
  BY DEF DiskTasks
<1>6. /\ t.step = "tables" /\ t.mapped = <<>> /\ t.found = <<>> /\ t.outers = <<>>
      /\ DOMAIN t.found = {} /\ DOMAIN t.outers = {} /\ DOMAIN t.mapped = {}
  OBVIOUS
<1> HIDE DEF t
<1>7. Told = {} /\ Told' = Told
  BY <1>1, <1>2, NothingTold, SameTold
<1>8. /\ Sources' = Sources /\ Sure' = Sure /\ Finds' = Finds /\ \A p : PartitionFs(p)' = PartitionFs(p)
  BY <1>1, SameMachine
<1>9. MachineInv'
  BY <1>1, <1>2, <1>8 DEF MachineInv
<1>10. TypeInv'
  <2>1. disk' \in [DOMAIN disk' -> DiskTasks]
    BY <1>1, <1>2, <1>3, <1>4, <1>5 DEF TypeInv
  <2> QED
    BY <1>1, <1>2, <2>1 DEF TypeInv
<1>11. StageInv'
  BY <1>1, <1>2, <1>3 DEF StageInv
<1>12. DisksInv' /\ GatheredInv'
  <2>1. CASE stage' = "disks"
    <3>1. \A d : TaskInv(d, t)' /\ TaskHolds(lo', t) /\ Unraced(lo', d, t)
      BY <1>6 DEF TaskInv, NestedOnce, Distinct, TaskHolds, Unraced
    <3>2. \A d \in DOMAIN disk' : disk'[d] = t
      BY <1>3, <2>1
    <3>3. DisksInv'
      BY <1>6, <2>1, <3>1, <3>2 DEF DisksInv
    <3>4. GatheredInv'
      BY <1>1, <1>2, <1>6, <3>2 DEF GatheredInv, NestedOnce
    <3> QED
      BY <3>3, <3>4
  <2>2. CASE stage' # "disks"
    BY <2>2 DEF DisksInv, GatheredInv
  <2> QED
    BY <2>1, <2>2
<1>13. LoopInv' /\ ListInv'
  BY <1>1, <1>2, <1>7, <1>8 DEF LoopInv, ListInv
<1>14. CandidatesInv' /\ ScanInv'
  BY <1>1, <1>2 DEF CandidatesInv, ScanInv
<1> QED
  BY <1>1, <1>7, <1>9, <1>10, <1>11, <1>12, <1>13, <1>14 DEF IInv

\* A step of a disk's task.
LEMMA DiskTaskStep ==
  ASSUME IInv, NEW d \in DOMAIN disk, DiskTask(d)
  PROVE  IInv' /\ Told' = Told /\ list' = list /\ stage = "disks" /\ stage' = stage
<1>1. UNCHANGED <<machine, holds>> /\ MachineInv'
  BY MachineStep DEF DiskTask, Next, IInv
<1>2. /\ UNCHANGED <<stage, candidates, scanner, entries, list>> /\ stage = "disks"
  BY DEF DiskTask, ReadTables, OpenOuter, GetFree, Configure, ConfigureBusy, OuterDone, DiskDone, At
<1>3. /\ disk' \in [DOMAIN disk -> DiskTasks] /\ lo' \in [Loops -> LoopDevices] /\ gathered' \in Seq(Cands)
      /\ LoopInv' /\ DisksInv' /\ GatheredInv'
  <2>0. TypeInv /\ StageInv /\ LoopInv /\ DisksInv /\ GatheredInv /\ MachineInv
    BY DEF IInv
  <2>4. lo' = lo => lo' \in [Loops -> LoopDevices] /\ LoopInv'
    BY <1>1, <2>0, SameMachine DEF TypeInv, LoopInv
  <2>1. CASE DiskDone(d)
    <3>1. lo' = lo
      BY <2>1 DEF DiskDone
    <3> QED
      BY <2>0, <2>4, <2>1, <3>1, DiskDoneStep
  <2>2. CASE ReadTables(d) \/ OpenOuter(d) \/ OuterDone(d)
    <3>1. lo' = lo
      BY <2>2 DEF ReadTables, OpenOuter, OuterDone
    <3>2. GatheredInv' /\ gathered' = gathered
      BY <2>0, <2>2, GatheredStays
    <3>3. disk' \in [DOMAIN disk -> DiskTasks] /\ DisksInv'
      BY <2>0, <2>2, ReadTablesStep, OpenOuterStep, OuterDoneStep
    <3> QED
      BY <2>0, <2>4, <3>1, <3>2, <3>3 DEF TypeInv
  <2>3. CASE GetFree(d) \/ Configure(d) \/ ConfigureBusy(d)
    <3>1. GatheredInv' /\ gathered' = gathered
      BY <2>0, <2>3, GatheredStays
    <3>2. /\ disk' \in [DOMAIN disk -> DiskTasks] /\ lo' \in [Loops -> LoopDevices] /\ LoopInv' /\ DisksInv'
      BY <2>0, <2>3, GetFreeStep, ConfigureStep, ConfigureBusyStep
    <3> QED
      BY <2>0, <3>1, <3>2 DEF TypeInv
  <2> QED
    BY <2>1, <2>2, <2>3 DEF DiskTask
<1>4. TypeInv'
  BY <1>2, <1>3 DEF IInv, TypeInv
<1>5. StageInv' /\ CandidatesInv' /\ ScanInv' /\ ListInv'
  <2>1. DOMAIN disk' = DOMAIN disk
    BY <1>3
  <2> QED
    BY <1>1, <1>2, <2>1, DisksLeave DEF IInv
<1>6. Told' = Told
  BY <1>1, <1>2, SameTold
<1> QED
  BY <1>1, <1>2, <1>3, <1>4, <1>5, <1>6 DEF IInv

\* Every step keeps the invariant.
LEMMA KeepsInv == IInv /\ [Next]_vars => IInv'
<1> SUFFICES ASSUME IInv, [Next]_vars PROVE IInv'
  OBVIOUS
<1>1. MachineInv' /\ UNCHANGED <<machine, holds>>
  BY MachineStep DEF IInv
<1>2. CASE ListDisks \/ ListFails
  BY <1>2, ListStep
<1>3. CASE SpawnScanners
  BY <1>1, <1>3, SpawnStep DEF IInv
<1>4. CASE Complete
  BY <1>1, <1>4, CompleteStep DEF IInv
<1>5. ASSUME NEW d \in DOMAIN disk, DiskTask(d) PROVE IInv'
  BY <1>5, DiskTaskStep
<1>6. ASSUME NEW i \in DOMAIN scanner, Scanner(i) PROVE IInv'
  <2>1. CASE Receive(i)
    BY <1>1, <2>1, ReceiveStep DEF IInv
  <2>2. CASE ScanPartition(i) \/ MountFails(i)
    BY <1>1, <2>2, MountStep DEF IInv
  <2> QED
    BY <1>6, <2>1, <2>2 DEF Scanner
<1>7. CASE UNCHANGED vars
  <2>1. UNCHANGED <<machine, holds, stage, disk, lo, gathered, candidates, scanner, entries, list>>
    BY <1>7 DEF vars
  <2>2. /\ Sources' = Sources /\ Sure' = Sure /\ Finds' = Finds /\ \A p : PartitionFs(p)' = PartitionFs(p)
        /\ \A d : Disk(d)' = Disk(d) /\ SourcesOn(d)' = SourcesOn(d)
    BY <1>1, SameMachine
  <2>3. Told' = Told
    BY <2>1, SameTold
  <2>4. TypeInv' /\ StageInv' /\ LoopInv' /\ GatheredInv' /\ CandidatesInv' /\ ListInv'
    BY <2>1, <2>2, <2>3 DEF IInv, TypeInv, StageInv, LoopInv, GatheredInv, CandidatesInv, ListInv
  <2>5. ScanInv'
    <3>1. \A c : ReadFs(c)' = ReadFs(c)
      BY <2>2 DEF ReadFs
    <3> QED
      BY <2>1, <3>1 DEF IInv, ScanInv
  <2>6. DisksInv'
    <3>1. \A d : TaskInv(d, disk[d])' <=> TaskInv(d, disk[d])
      BY <2>1, <2>2 DEF TaskInv, CandOn
    <3> QED
      BY <2>1, <2>2, <3>1 DEF IInv, DisksInv
  <2> QED
    BY <1>1, <2>4, <2>5, <2>6 DEF IInv
<1> QED
  BY <1>2, <1>3, <1>4, <1>5, <1>6, <1>7 DEF Next

\* Discovery keeps it.
LEMMA InvAlways == Spec => []IInv
<1>1. Init => IInv
  BY InitInv
<1> QED
  BY <1>1, KeepsInv, PTL DEF Spec

-----------------------------------------------------------------------------
(* What discovery promises. *)

\* Whatever is listed can be loaded, and is not listed without the device tree its file, BLS or
\* extlinux, asks for with a key the parsers read (other keys do not count, see the property):
\* the list is the entries of the partitions told, and each was read from the partition it names
\* (parse_bls_file, extlinux_boot_entry, discover).
THEOREM DiscoveryListsWhole == Spec => []ListedEntriesAreWhole
<1>1. IInv => ListedEntriesAreWhole
  <2> SUFFICES ASSUME IInv, NEW e \in Range(list)
               PROVE  Loadable(PartitionFs(e.partition), e) /\ HasItsTree(PartitionFs(e.partition), e)
    BY DEF ListedEntriesAreWhole, Loadable, HasItsTree
  <2> DEFINE X == ToldFinds
  <2>1. IsFiniteSet(X) /\ Keyed(X) /\ \A x \in X : x \in AllFinds
    BY ToldIs DEF IInv
  <2>2. list = InOrder(X, EntryBefore)
    BY DEF IInv, ListInv, ToldFinds
  <2> HIDE DEF X
  <2>3. list \in [1 .. Cardinality(X) -> X]
    BY <2>1, <2>2, EntriesListed DEF Listed
  <2>4. e \in X
    BY <2>3 DEF Range
  <2>5. PICK s \in Sources : e \in Finds[s]
    BY <2>1, <2>4 DEF AllFinds
  <2> QED
    BY <2>5, FindsAre DEF IInv
<1> QED
  BY <1>1, InvAlways, PTL

\* The list that the promise speaks of.
LEMMA MenuListing ==
  ASSUME NEW T
  PROVE  Menu!Listing(T) = InOrder(UNION {Finds[t] : t \in T}, EntryBefore)
  BY Zenon DEF Menu!Listing, InOrder, Menu!Cardinality, Cardinality

\* When every task is received, no partition that is sure and has entries is missing.
LEMMA NothingSureIsMissing ==
  ASSUME IInv, Complete, NEW s \in Sure, Finds[s] # {}
  PROVE  s \in Told
<1>1. stage = "scan" /\ \A i \in DOMAIN scanner : scanner[i].step = "received"
  BY DEF Complete
<1>2. PICK i \in DOMAIN candidates : Label(candidates[i]) = s
  BY <1>1 DEF IInv, CandidatesInv
<1>3. i \in DOMAIN scanner /\ scanner[i].step = "received"
  BY <1>1 DEF IInv, TypeInv
<1>4. Sent(i) = Finds[s]
  BY <1>2, <1>3, SentIs DEF IInv
<1> QED
  BY <1>2, <1>3, <1>4 DEF Told

\* Every step is one that the promise allows, or changes nothing that it speaks of.
LEMMA MenuStep == IInv /\ [Next]_vars => [Menu!Next]_(Menu!vars)
<1> SUFFICES ASSUME IInv, [Next]_vars PROVE Menu!Next \/ UNCHANGED Menu!vars
  OBVIOUS
<1>1. UNCHANGED <<machine, holds>>
  BY MachineStep
<1>2. Finds' = Finds /\ Sure' = Sure
  BY <1>1, SameMachine
<1>3. ASSUME Told' = Told, list' = list, (stage = "complete")' = (stage = "complete")
      PROVE  UNCHANGED Menu!vars
  BY <1>2, <1>3 DEF Menu!vars
<1>4. CASE ListDisks
  <2>1. Told' = Told /\ list' = list
    BY <1>4, ListStep
  <2>2. stage # "complete" /\ stage' # "complete"
    BY <1>4 DEF ListDisks
  <2> QED
    BY <1>3, <2>1, <2>2
<1>5. CASE ListFails
  <2>1. Told = {} /\ Told' = Told /\ list' = list
    BY <1>5, ListStep
  <2>2. stage # "complete" /\ stage' = "complete"
    BY <1>5 DEF ListFails
  <2>3. Menu!GiveUp
    BY <1>2, <2>1, <2>2 DEF Menu!GiveUp
  <2> QED
    BY <2>3 DEF Menu!Next
<1>6. CASE SpawnScanners
  <2>1. /\ stage = "disks" /\ stage' = "scan" /\ UNCHANGED list
        /\ scanner' = [i \in DOMAIN candidates' |-> [step |-> "mount", fs |-> Empty]]
    BY <1>6 DEF SpawnScanners
  <2>2. Told = {}
    BY <2>1, NothingTold DEF IInv
  <2>3. Told' = {}
    <3>1. \A i \in DOMAIN scanner' : scanner'[i].step # "received"
      BY <2>1
    <3> QED
      BY <3>1 DEF Told
  <2> QED
    BY <1>3, <2>1, <2>2, <2>3
<1>7. CASE Complete
  <2>1. Told' = Told /\ list' = list
    BY <1>7, CompleteStep DEF IInv
  <2>2. stage # "complete" /\ stage' = "complete"
    BY <1>7 DEF Complete
  <2>3. \A s \in Sure : Finds[s] # {} => s \in Told
    BY <1>7, NothingSureIsMissing
  <2>4. Menu!Finish
    BY <1>2, <2>1, <2>2, <2>3 DEF Menu!Finish
  <2> QED
    BY <2>4 DEF Menu!Next
<1>8. ASSUME NEW d \in DOMAIN disk, DiskTask(d) PROVE UNCHANGED Menu!vars
  BY <1>3, <1>8, DiskTaskStep
<1>9. ASSUME NEW i \in DOMAIN scanner, ScanPartition(i) \/ MountFails(i) PROVE UNCHANGED Menu!vars
  <2>1. Told' = Told /\ UNCHANGED <<stage, list>>
    BY <1>9, MountStep DEF IInv
  <2> QED
    BY <1>3, <2>1
<1>10. ASSUME NEW i \in DOMAIN scanner, Receive(i) PROVE Menu!Next \/ UNCHANGED Menu!vars
  <2> DEFINE p == Label(candidates[i])
  <2>1. /\ stage = "scan" /\ scanner[i].step = "sent" /\ UNCHANGED stage
        /\ Sent(i) = {} => list' = list
    BY <1>10 DEF Receive
  <2>2. /\ Sent(i) = {} => Told' = Told
        /\ Sent(i) # {} => Told' = Told \cup {p} /\ p \notin Told
    BY <1>10, ReceiveTells DEF IInv
  <2>3. p \in Sources /\ Sent(i) = Finds[p]
    <3>1. i \in DOMAIN candidates
      BY DEF IInv, TypeInv
    <3> QED
      BY <2>1, <3>1, SentIs DEF IInv
  <2>4. ListInv'
    BY <1>10, ReceiveStep DEF IInv
  <2> HIDE DEF p
  <2>5. CASE Sent(i) = {}
    BY <1>3, <2>1, <2>2, <2>5
  <2>6. CASE Sent(i) # {}
    <3>1. list' = InOrder(UNION {Finds[t] : t \in Told'}, EntryBefore)
      BY <1>2, <2>4 DEF ListInv, InOrder, EntryBefore
    <3>2. list' = Menu!Listing(Told')
      BY <3>1, MenuListing
    <3>3. p \in DOMAIN Finds
      BY <2>3 DEF Finds
    <3>4. Menu!Tell(p)
      BY <1>2, <2>1, <2>2, <2>3, <2>6, <3>2, <3>3 DEF Menu!Tell
    <3> QED
      BY <3>3, <3>4 DEF Menu!Next
  <2> QED
    BY <2>5, <2>6
<1>11. CASE UNCHANGED vars
  <2>1. UNCHANGED <<holds, candidates, scanner, list, stage>>
    BY <1>11 DEF vars
  <2> QED
    BY <1>3, <2>1, SameTold
<1> QED
  BY <1>4, <1>5, <1>6, <1>7, <1>8, <1>9, <1>10, <1>11 DEF Next, Scanner

\* Discovery implements its promise to the coordinator (discover, read_boot_partitions,
\* nested_partitions_for_outer): every list reported is the sorted list of the entries of whole
\* partitions, each entry once, whatever the order in which disks and partitions answer; and the last
\* list misses no partition, but for nested ones of two disks that race for a loop device.
THEOREM DiscoveryImplementsMenu == Spec => ImplementsBootMenu
<1>1. Init => Menu!Init
  <2> SUFFICES ASSUME Init PROVE Menu!Init
    OBVIOUS
  <2>1. Told = {} /\ list = <<>> /\ stage # "complete"
    BY InitInv DEF Init
  <2> QED
    BY <2>1 DEF Menu!Init
<1> QED
  BY <1>1, InvAlways, MenuStep, PTL DEF Spec, ImplementsBootMenu, Menu!Spec
=============================================================================
