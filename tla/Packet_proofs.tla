---------------------------- MODULE Packet_proofs ----------------------------
(* What holds of the packet object for every width of a nibble, every bound  *)
(* of the instances and all inputs.                                          *)
EXTENDS Packet, PacketFormat_proofs, FiniteSetTheorems

-----------------------------------------------------------------------------
(* std::sort by number. The rank of an element is the number of those before *)
(* it; no two have one rank, so there is one for each.                       *)
Rank(opts, i) == Cardinality({j \in DOMAIN opts : Before(opts, j, i)})

LEMMA BeforeOrders ==
  ASSUME NEW opts \in Seq(Option)
  PROVE  \A i, j, k \in DOMAIN opts :
           /\ ~Before(opts, i, i)
           /\ Before(opts, i, j) /\ Before(opts, j, k) => Before(opts, i, k)
           /\ i # j => Before(opts, i, j) \/ Before(opts, j, i)
<1>1. /\ \A i \in DOMAIN opts : opts[i] \in Option
      /\ DOMAIN opts \subseteq Nat
  OBVIOUS
<1>2. \A i \in DOMAIN opts : opts[i].number \in Nat
  BY <1>1 DEF Option
<1> DEFINE num(i) == opts[i].number
<1>3. \A i, j : Before(opts, i, j) <=> num(i) < num(j) \/ (num(i) = num(j) /\ i < j)
  BY DEF Before
<1>4. \A i \in DOMAIN opts : num(i) \in Nat
  BY <1>2
<1> HIDE DEF num
<1> QED
  BY <1>1, <1>3, <1>4

LEMMA RankType ==
  ASSUME NEW opts \in Seq(Option), NEW i \in DOMAIN opts
  PROVE  /\ Rank(opts, i) \in 0 .. Len(opts) - 1
         /\ \A j \in DOMAIN opts : Before(opts, j, i) => Rank(opts, j) < Rank(opts, i)
<1> DEFINE D == DOMAIN opts
           B(k) == {j \in D : Before(opts, j, k)}
<1>1. D = 1 .. Len(opts) /\ Len(opts) \in Nat /\ i \in D
  OBVIOUS
<1>2. IsFiniteSet(D) /\ Cardinality(D) = Len(opts)
  <2>1. 1 \in Int /\ Len(opts) \in Int
    BY <1>1
  <2>2. IsFiniteSet(1 .. Len(opts))
        /\ Cardinality(1 .. Len(opts)) = IF 1 > Len(opts) THEN 0 ELSE Len(opts) - 1 + 1
    BY <2>1, FS_Interval
  <2> HIDE DEF D
  <2> QED
    BY <1>1, <2>2
<1>3. \A k \in D : IsFiniteSet(B(k)) /\ Cardinality(B(k)) \in Nat
  <2> TAKE k \in D
  <2>1. B(k) \in SUBSET D
    OBVIOUS
  <2> HIDE DEF B, D
  <2> QED
    BY <1>2, <2>1, FS_Subset, FS_CardinalityType
<1>4. B(i) \in SUBSET D /\ B(i) # D
  BY <1>1, BeforeOrders
<1>5. Cardinality(B(i)) <= Len(opts) /\ Cardinality(B(i)) # Len(opts)
  <2> HIDE DEF B, D
  <2> QED
    BY <1>2, <1>4, FS_Subset
<1>6. ASSUME NEW j \in D, Before(opts, j, i)
      PROVE  Cardinality(B(j)) < Cardinality(B(i))
  <2>1. B(j) \in SUBSET B(i) /\ B(j) # B(i)
    <3>1. j \in B(i) /\ j \notin B(j)
      BY <1>6, BeforeOrders
    <3>2. B(j) \subseteq B(i)
      BY <1>6, BeforeOrders
    <3> QED
      BY <3>1, <3>2
  <2>2. IsFiniteSet(B(i)) /\ Cardinality(B(i)) \in Nat /\ Cardinality(B(j)) \in Nat
    BY <1>1, <1>3, <1>6
  <2> HIDE DEF B, D
  <2>3. Cardinality(B(j)) <= Cardinality(B(i)) /\ Cardinality(B(j)) # Cardinality(B(i))
    BY <2>1, <2>2, FS_Subset
  <2> QED
    BY <2>2, <2>3
<1>7. \A k : Rank(opts, k) = Cardinality(B(k))
  BY DEF Rank
<1> HIDE DEF B
<1>8. Rank(opts, i) \in 0 .. Len(opts) - 1
  BY <1>1, <1>3, <1>5, <1>7
<1> QED
  BY <1>6, <1>7, <1>8

(* The place each element comes from.                                        *)
Origin(opts, k) ==
  CHOOSE i \in DOMAIN opts :
    Cardinality({j \in DOMAIN opts : Before(opts, j, i)}) = k - 1

LEMMA OneOfEachRank ==
  ASSUME NEW opts \in Seq(Option)
  PROVE  /\ \A i, j \in DOMAIN opts : Rank(opts, i) = Rank(opts, j) => i = j
         /\ \A k \in DOMAIN opts : \E i \in DOMAIN opts : Rank(opts, i) = k - 1
<1> DEFINE D == DOMAIN opts
           n == Len(opts)
           R == 0 .. n - 1
           rank == [i \in D |-> Rank(opts, i)]
<1>1. D = 1 .. n /\ n \in Nat
  OBVIOUS
<1>2. \A i, j \in D : Rank(opts, i) = Rank(opts, j) => i = j
  <2> TAKE i, j \in D
  <2>1. CASE Before(opts, i, j)
    BY <2>1, RankType
  <2>2. CASE Before(opts, j, i)
    BY <2>2, RankType
  <2> QED
    BY <2>1, <2>2, BeforeOrders
<1>3. rank \in [D -> R]
  BY RankType
<1>4. rank \in Injection(D, R)
  BY <1>2, <1>3 DEF Injection, IsInjective
<1>5. IsFiniteSet(R) /\ Cardinality(D) = Cardinality(R)
  <2>1. 0 \in Int /\ n - 1 \in Int /\ 1 \in Int /\ n \in Int
    BY <1>1
  <2>2. /\ IsFiniteSet(0 .. n - 1)
        /\ Cardinality(0 .. n - 1) = IF 0 > n - 1 THEN 0 ELSE (n - 1) - 0 + 1
        /\ Cardinality(1 .. n) = IF 1 > n THEN 0 ELSE n - 1 + 1
    BY <2>1, FS_Interval
  <2> HIDE DEF n, D
  <2> QED
    BY <1>1, <2>2
<1>6. rank \in Surjection(D, R)
  <2> HIDE DEF D, R, rank
  <2> QED
    BY <1>4, <1>5, FS_Injection
<1>7. \A r \in R : \E i \in D : rank[i] = r
  <2> HIDE DEF rank, D, R
  <2> QED
    BY <1>6 DEF Surjection
<1>8. ASSUME NEW k \in D PROVE \E i \in D : Rank(opts, i) = k - 1
  <2>1. k - 1 \in R
    BY <1>1
  <2> QED
    BY <1>7, <2>1
<1> QED
  BY <1>2, <1>8

LEMMA OriginType ==
  ASSUME NEW opts \in Seq(Option)
  PROVE  /\ \A k \in DOMAIN opts : Origin(opts, k) \in DOMAIN opts
                                   /\ Rank(opts, Origin(opts, k)) = k - 1
         /\ \A i \in DOMAIN opts : \E k \in DOMAIN opts : Origin(opts, k) = i
<1>1. ASSUME NEW k \in DOMAIN opts
      PROVE  Origin(opts, k) \in DOMAIN opts /\ Rank(opts, Origin(opts, k)) = k - 1
  <2>1. \E i \in DOMAIN opts : Rank(opts, i) = k - 1
    BY OneOfEachRank
  <2> QED
    BY <2>1 DEF Origin, Rank
<1>2. ASSUME NEW i \in DOMAIN opts
      PROVE  \E k \in DOMAIN opts : Origin(opts, k) = i
  <2> DEFINE k == Rank(opts, i) + 1
  <2>1. k \in DOMAIN opts /\ k - 1 = Rank(opts, i)
    BY RankType
  <2>2. Rank(opts, Origin(opts, k)) = Rank(opts, i) /\ Origin(opts, k) \in DOMAIN opts
    BY <1>1, <2>1
  <2>3. Origin(opts, k) = i
    BY <2>2, OneOfEachRank
  <2> QED
    BY <2>1, <2>3
<1> QED
  BY <1>1, <1>2

LEMMA SortedIsOrigin ==
  ASSUME NEW opts
  PROVE  StablySorted(opts) = [k \in DOMAIN opts |-> opts[Origin(opts, k)]]
BY DEF StablySorted, Origin

(* A list with the same elements in whatever order.                          *)
Rearranged(opts, others) ==
  /\ others \in Seq(Option) /\ Len(others) = Len(opts)
  /\ \A k \in DOMAIN opts : \E i \in DOMAIN opts : others[k] = opts[i]
  /\ \A i \in DOMAIN opts : \E k \in DOMAIN opts : others[k] = opts[i]

LEMMA StablySortedRearranges ==
  ASSUME NEW opts \in Seq(Option)
  PROVE  Rearranged(opts, StablySorted(opts))
<1> DEFINE D == DOMAIN opts
           sorted == StablySorted(opts)
<1>1. sorted = [k \in D |-> opts[Origin(opts, k)]]
  BY SortedIsOrigin
<1>2. /\ \A k \in D : Origin(opts, k) \in D
      /\ \A i \in D : \E k \in D : Origin(opts, k) = i
  BY OriginType
<1>3. D = 1 .. Len(opts) /\ Len(opts) \in Nat /\ \A i \in D : opts[i] \in Option
  OBVIOUS
<1> HIDE DEF sorted, D
<1>4. \A k \in D : sorted[k] = opts[Origin(opts, k)]
  BY <1>1
<1>5. sorted \in [1 .. Len(opts) -> Option]
  BY <1>1, <1>2, <1>3
<1>6. sorted \in Seq(Option) /\ Len(sorted) = Len(opts)
  BY <1>3, <1>5
<1> QED
  BY <1>2, <1>4, <1>6 DEF Rearranged, D, sorted

LEMMA SortingsRearrange ==
  ASSUME NEW opts \in Seq(Option), NEW others \in Sortings(opts)
  PROVE  Rearranged(opts, others)
<1> DEFINE sorted == StablySorted(opts)
           D == DOMAIN opts
<1>1. Rearranged(opts, sorted)
  BY StablySortedRearranges
<1>2. D = 1 .. Len(opts) /\ Len(opts) \in Nat
  OBVIOUS
<1>3. DOMAIN sorted = D
  BY <1>1, <1>2 DEF Rearranged
<1>4. CASE others = sorted
  BY <1>1, <1>4
<1>5. ASSUME NEW p \in Shuffles(sorted), others = [i \in D |-> sorted[p[i]]]
      PROVE  Rearranged(opts, others)
  <2>1. /\ p \in [D -> D]
        /\ \A w \in D : \E v \in D : p[v] = w
    BY <1>3 DEF Shuffles, Bijection, Injection, Surjection
  <2> HIDE DEF sorted, D
  <2>2. /\ \A k \in D : sorted[k] \in Option
        /\ \A k \in D : \E i \in D : sorted[k] = opts[i]
        /\ \A i \in D : \E k \in D : sorted[k] = opts[i]
    BY <1>1, <1>2, <1>3 DEF Rearranged, D
  <2>3. \A k \in D : others[k] = sorted[p[k]] /\ p[k] \in D
    BY <1>5, <2>1
  <2>4. others \in [1 .. Len(opts) -> Option]
    BY <1>2, <1>5, <2>1, <2>2
  <2>5. others \in Seq(Option) /\ Len(others) = Len(opts)
    <3> HIDE DEF Option
    <3> QED
      BY <1>2, <2>4
  <2>6. ASSUME NEW k \in D PROVE \E i \in D : others[k] = opts[i]
    <3>1. others[k] = sorted[p[k]] /\ p[k] \in D
      BY <2>3
    <3>2. PICK i \in D : sorted[p[k]] = opts[i]
      BY <2>2, <3>1
    <3> QED
      BY <3>1, <3>2
  <2>7. ASSUME NEW i \in D PROVE \E k \in D : others[k] = opts[i]
    <3>1. PICK w \in D : sorted[w] = opts[i]
      BY <2>2
    <3>2. PICK k \in D : p[k] = w
      BY <2>1
    <3> QED
      BY <2>3, <3>1, <3>2
  <2> QED
    BY <2>5, <2>6, <2>7 DEF Rearranged, D
<1> QED
  BY <1>4, <1>5 DEF Sortings

(* What stays when a list is rearranged: the numbers, and whatever holds of  *)
(* each of the options.                                                      *)
LEMMA RearrangedKeeps ==
  ASSUME NEW opts \in Seq(Option), NEW others, Rearranged(opts, others)
  PROVE  Numbers(others) = Numbers(opts)
<1>1. DOMAIN others = DOMAIN opts
  BY DEF Rearranged
<1>2. /\ \A k \in DOMAIN opts : \E i \in DOMAIN opts : others[k] = opts[i]
      /\ \A i \in DOMAIN opts : \E k \in DOMAIN opts : others[k] = opts[i]
  BY DEF Rearranged
<1>3. Numbers(others) \subseteq Numbers(opts)
  <2> SUFFICES ASSUME NEW k \in DOMAIN others PROVE others[k].number \in Numbers(opts)
    BY DEF Numbers
  <2>1. PICK i \in DOMAIN opts : others[k] = opts[i]
    BY <1>1, <1>2
  <2>2. opts[i].number \in Numbers(opts)
    BY DEF Numbers
  <2> QED
    BY <2>1, <2>2
<1>4. Numbers(opts) \subseteq Numbers(others)
  <2> SUFFICES ASSUME NEW i \in DOMAIN opts PROVE opts[i].number \in Numbers(others)
    BY DEF Numbers
  <2>1. PICK k \in DOMAIN opts : others[k] = opts[i]
    BY <1>2
  <2>2. others[k].number \in Numbers(others)
    BY <1>1 DEF Numbers
  <2> QED
    BY <2>1, <2>2
<1> QED
  BY <1>3, <1>4

LEMMA RearrangedInside ==
  ASSUME NEW X, NEW opts \in Seq(X), NEW others, Rearranged(opts, others)
  PROVE  others \in Seq(X)
<1>1. /\ others \in Seq(Option) /\ Len(others) = Len(opts)
      /\ \A k \in DOMAIN opts : \E i \in DOMAIN opts : others[k] = opts[i]
      /\ DOMAIN opts = 1 .. Len(opts) /\ Len(opts) \in Nat
  BY DEF Rearranged
<1>2. ASSUME NEW k \in 1 .. Len(others) PROVE others[k] \in X
  <2>1. PICK i \in DOMAIN opts : others[k] = opts[i]
    BY <1>1
  <2>2. opts[i] \in X
    OBVIOUS
  <2> QED
    BY <2>1, <2>2
<1>3. others \in [1 .. Len(others) -> Option] /\ Len(others) \in Nat
  BY <1>1
<1>4. others \in [1 .. Len(others) -> X]
  BY <1>2, <1>3
<1> QED
  BY <1>3, <1>4

(* Of what StablySorted gives, no option has a smaller number than one before*)
(* it; and of two with one number, the one that was first stays first.       *)
LEMMA SortedByNumber ==
  ASSUME NEW opts \in Seq(Option), NEW k \in DOMAIN opts, NEW l \in DOMAIN opts, k < l
  PROVE  /\ StablySorted(opts)[k].number <= StablySorted(opts)[l].number
         /\ StablySorted(opts)[k].number = StablySorted(opts)[l].number
              => Origin(opts, k) < Origin(opts, l)
<1> DEFINE i == Origin(opts, k)
           j == Origin(opts, l)
<1>1. /\ i \in DOMAIN opts /\ Rank(opts, i) = k - 1
      /\ j \in DOMAIN opts /\ Rank(opts, j) = l - 1
  BY OriginType
<1>2. k \in Nat /\ l \in Nat
  OBVIOUS
<1>3. StablySorted(opts)[k] = opts[i] /\ StablySorted(opts)[l] = opts[j]
  BY SortedIsOrigin
<1> HIDE DEF i, j
<1>4. i # j /\ ~Before(opts, j, i)
  BY <1>1, <1>2, RankType
<1>5. Before(opts, i, j)
  BY <1>1, <1>4, BeforeOrders
<1>6. opts[i].number \in Nat /\ opts[j].number \in Nat
  <2>1. opts[i] \in Option /\ opts[j] \in Option
    BY <1>1
  <2> QED
    BY <2>1 DEF Option
<1> QED
  BY <1>3, <1>5, <1>6 DEF Before, i, j

(* However std::sort orders the equal ones, the numbers do not descend.      *)
Ascending(opts) ==
  \A k, l \in DOMAIN opts : k < l => opts[k].number <= opts[l].number

LEMMA SortingsAscend ==
  ASSUME NEW opts \in Seq(Option), NEW others \in Sortings(opts)
  PROVE  Ascending(others)
<1> DEFINE sorted == StablySorted(opts)
           D == DOMAIN opts
<1>1. DOMAIN sorted = D
  BY StablySortedRearranges DEF Rearranged
<1>2. \A k, l \in D : k < l => sorted[k].number <= sorted[l].number
  BY SortedByNumber
<1>3. CASE others = sorted
  BY <1>1, <1>2, <1>3 DEF Ascending
<1>4. ASSUME NEW p \in Shuffles(sorted), others = [i \in D |-> sorted[p[i]]]
      PROVE  Ascending(others)
  <2>1. \A i \in D : sorted[p[i]].number = sorted[i].number
    BY <1>1 DEF Shuffles
  <2> HIDE DEF sorted, D
  <2>2. \A i \in D : others[i].number = sorted[i].number
    <3> TAKE i \in D
    <3>1. others[i] = sorted[p[i]]
      BY <1>4
    <3> QED
      BY <2>1, <3>1
  <2>3. DOMAIN others = D
    BY <1>4
  <2> QED
    BY <1>2, <2>2, <2>3 DEF Ascending
<1> QED
  BY <1>3, <1>4 DEF Sortings

LEMMA SortingsInOrder ==
  ASSUME NEW opts \in Seq(Option), NEW others \in Sortings(opts)
  PROVE  \A k \in 2 .. Len(others) : others[k - 1].number <= others[k].number
<1>1. others \in Seq(Option) /\ Ascending(others)
  BY SortingsAscend, SortingsRearrange DEF Rearranged
<1>2. \A k \in 2 .. Len(others) :
        k \in DOMAIN others /\ k - 1 \in DOMAIN others /\ k - 1 < k
  BY <1>1
<1> QED
  BY <1>1, <1>2 DEF Ascending

(* Sorting keeps the order of those with one number; so does sorting again,  *)
(* and so does a further option behind both lists.                           *)
LEMMA StablySortedRegroups ==
  ASSUME NEW opts \in Seq(Option)
  PROVE  Regrouped(opts, StablySorted(opts))
<1> DEFINE D == DOMAIN opts
           sorted == StablySorted(opts)
           p == [i \in D |-> Rank(opts, i) + 1]
<1>1. D = 1 .. Len(opts) /\ Len(opts) \in Nat
  OBVIOUS
<1>2. DOMAIN sorted = D /\ \A k \in D : sorted[k] = opts[Origin(opts, k)]
  BY SortedIsOrigin
<1>3. \A i \in D : Rank(opts, i) \in Nat /\ p[i] \in D /\ p[i] - 1 = Rank(opts, i)
  BY <1>1, RankType
<1>4. \A i, j \in D : p[i] = p[j] => i = j
  BY <1>3, OneOfEachRank
<1>5. ASSUME NEW k \in D PROVE \E i \in D : p[i] = k
  <2>1. PICK i \in D : Rank(opts, i) = k - 1
    BY OneOfEachRank
  <2> QED
    BY <1>1, <2>1
<1>6. p \in Bijection(D, D)
  <2>1. p \in [D -> D]
    BY <1>3
  <2> HIDE DEF p, D
  <2> QED
    BY <2>1, <1>4, <1>5 DEF Bijection, Injection, Surjection, IsInjective
<1>7. ASSUME NEW i \in D PROVE sorted[p[i]] = opts[i]
  <2>1. /\ Origin(opts, p[i]) \in D
        /\ Rank(opts, Origin(opts, p[i])) = Rank(opts, i)
    BY <1>3, OriginType
  <2>2. Origin(opts, p[i]) = i
    BY <2>1, OneOfEachRank
  <2> QED
    BY <1>2, <1>3, <2>2
<1>8. ASSUME NEW i \in D, NEW j \in D, i < j, opts[i].number = opts[j].number
      PROVE  p[i] < p[j]
  <2>1. Before(opts, i, j)
    BY <1>8 DEF Before
  <2>2. Rank(opts, i) < Rank(opts, j)
    BY <2>1, RankType
  <2> QED
    BY <1>3, <2>2
<1> HIDE DEF p, sorted
<1> QED
  BY <1>2, <1>6, <1>7, <1>8 DEF Regrouped, sorted

LEMMA RegroupedTwice ==
  ASSUME NEW a \in Seq(Option), NEW b \in Seq(Option), NEW c \in Seq(Option),
         Regrouped(a, b), Regrouped(b, c)
  PROVE  Regrouped(a, c)
<1> DEFINE A == DOMAIN a
           B == DOMAIN b
           C == DOMAIN c
<1>1. PICK p \in Bijection(A, B) :
        /\ \A i \in A : b[p[i]] = a[i]
        /\ \A i, j \in A : i < j /\ a[i].number = a[j].number => p[i] < p[j]
  BY DEF Regrouped
<1>2. PICK q \in Bijection(B, C) :
        /\ \A i \in B : c[q[i]] = b[i]
        /\ \A i, j \in B : i < j /\ b[i].number = b[j].number => q[i] < q[j]
  BY DEF Regrouped
<1>3. /\ p \in [A -> B] /\ \A i, j \in A : p[i] = p[j] => i = j
      /\ \A k \in B : \E i \in A : p[i] = k
      /\ q \in [B -> C] /\ \A i, j \in B : q[i] = q[j] => i = j
      /\ \A k \in C : \E i \in B : q[i] = k
  <2> HIDE DEF A, B, C
  <2> QED
    BY <1>1, <1>2 DEF Bijection, Injection, Surjection, IsInjective
<1> DEFINE r == [i \in A |-> q[p[i]]]
<1> HIDE DEF A, B, C
<1>4. \A i \in A : p[i] \in B /\ r[i] = q[p[i]] /\ r[i] \in C
  BY <1>3
<1>5. r \in [A -> C]
  BY <1>4
<1>6. \A i, j \in A : r[i] = r[j] => i = j
  BY <1>3, <1>4
<1>7. ASSUME NEW k \in C PROVE \E i \in A : r[i] = k
  <2>1. PICK w \in B : q[w] = k
    BY <1>3
  <2>2. PICK i \in A : p[i] = w
    BY <1>3
  <2> QED
    BY <1>4, <2>1, <2>2
<1>8. ASSUME NEW i \in A PROVE c[r[i]] = a[i]
  BY <1>1, <1>2, <1>4
<1>9. ASSUME NEW i \in A, NEW j \in A, i < j, a[i].number = a[j].number
      PROVE  r[i] < r[j]
  <2>1. p[i] < p[j] /\ p[i] \in B /\ p[j] \in B
    BY <1>1, <1>4, <1>9
  <2>2. b[p[i]].number = b[p[j]].number
    BY <1>1, <1>9
  <2>3. q[p[i]] < q[p[j]]
    BY <1>2, <2>1, <2>2
  <2> QED
    BY <1>4, <2>3
<1> HIDE DEF r
<1>10. r \in Bijection(A, C)
  BY <1>5, <1>6, <1>7 DEF Bijection, Injection, Surjection, IsInjective
<1> QED
  BY <1>8, <1>9, <1>10 DEF Regrouped, A, C

LEMMA RegroupedLonger ==
  ASSUME NEW a \in Seq(Option), NEW b \in Seq(Option), NEW o \in Option,
         Len(a) = Len(b), Regrouped(a, b)
  PROVE  Regrouped(Append(a, o), Append(b, o))
<1> DEFINE n == Len(a)
           x == Append(a, o)
           y == Append(b, o)
           A == 1 .. n
           X == 1 .. n + 1
<1>1. n \in Nat /\ DOMAIN a = A /\ DOMAIN b = A
  OBVIOUS
<1>2. /\ DOMAIN x = X /\ DOMAIN y = X
      /\ \A i \in A : x[i] = a[i] /\ y[i] = b[i]
      /\ x[n + 1] = o /\ y[n + 1] = o
  OBVIOUS
<1>3. PICK p \in Bijection(A, A) :
        /\ \A i \in A : b[p[i]] = a[i]
        /\ \A i, j \in A : i < j /\ a[i].number = a[j].number => p[i] < p[j]
  BY <1>1 DEF Regrouped
<1>4. /\ p \in [A -> A] /\ \A i, j \in A : p[i] = p[j] => i = j
      /\ \A k \in A : \E i \in A : p[i] = k
  BY <1>3 DEF Bijection, Injection, Surjection, IsInjective
<1> DEFINE r == [i \in X |-> IF i = n + 1 THEN n + 1 ELSE p[i]]
<1> HIDE DEF n, x, y
<1>5. \A i \in X : i \in A \/ i = n + 1
  BY <1>1
<1>6. /\ \A i \in A : r[i] = p[i] /\ r[i] \in A /\ r[i] < n + 1
      /\ r[n + 1] = n + 1 /\ r \in [X -> X]
  <2>1. ASSUME NEW i \in A PROVE r[i] = p[i] /\ r[i] \in A /\ r[i] < n + 1
    <3>1. i \in X /\ i # n + 1
      BY <1>1
    <3>2. p[i] \in A
      <4> HIDE DEF A, X
      <4> QED
        BY <1>4, <2>1
    <3>3. p[i] < n + 1
      BY <1>1, <3>2
    <3> QED
      BY <3>1, <3>2, <3>3
  <2>2. r[n + 1] = n + 1 /\ n + 1 \in X
    BY <1>1
  <2>3. \A i \in X : r[i] \in X
    <3> HIDE DEF r
    <3> QED
      BY <1>1, <1>5, <2>1, <2>2
  <2>4. r \in [X -> X]
    <3>1. r = [i \in X |-> r[i]]
      OBVIOUS
    <3> HIDE DEF r
    <3> QED
      BY <2>3, <3>1
  <2> QED
    BY <2>1, <2>2, <2>4
<1>7. \A i, j \in X : r[i] = r[j] => i = j
  <2> HIDE DEF r, A, X
  <2>1. \A i \in A : r[i] # n + 1
    BY <1>1, <1>6 DEF A
  <2> QED
    BY <1>4, <1>5, <1>6, <2>1
<1>8. ASSUME NEW k \in X PROVE \E i \in X : r[i] = k
  <2>1. CASE k = n + 1
    BY <1>6, <2>1
  <2>2. CASE k \in A
    <3>1. PICK i \in A : p[i] = k
      BY <1>4, <2>2
    <3>2. i \in X
      BY <1>1
    <3> QED
      BY <1>6, <3>1, <3>2
  <2> QED
    BY <1>5, <2>1, <2>2
<1>9. ASSUME NEW i \in X PROVE y[r[i]] = x[i]
  <2>1. CASE i = n + 1
    BY <1>2, <1>6, <2>1
  <2>2. CASE i \in A
    <3> HIDE DEF r, A
    <3> QED
      BY <1>2, <1>3, <1>6, <2>2
  <2> QED
    BY <1>5, <2>1, <2>2
<1>10. ASSUME NEW i \in X, NEW j \in X, i < j, x[i].number = x[j].number
       PROVE  r[i] < r[j]
  <2>1. i \in A
    BY <1>1, <1>10
  <2>2. CASE j = n + 1
    BY <1>6, <2>1, <2>2
  <2>3. CASE j \in A
    <3>1. a[i].number = a[j].number
      BY <1>2, <1>10, <2>1, <2>3
    <3>2. p[i] < p[j]
      BY <1>3, <1>10, <2>1, <2>3, <3>1
    <3> QED
      BY <1>6, <2>1, <2>3, <3>2
  <2> QED
    BY <1>5, <2>2, <2>3
<1> HIDE DEF r
<1>11. r \in Bijection(X, X)
  <2> HIDE DEF X
  <2> QED
    BY <1>6, <1>7, <1>8 DEF Bijection, Injection, Surjection, IsInjective
<1> QED
  BY <1>2, <1>9, <1>10, <1>11 DEF Regrouped, x, y

-----------------------------------------------------------------------------
LEMMA WidthsOfPacket ==
  /\ TOKEN_MAX_LENGTH \in Nat \ {0} /\ TOKEN_MAX_LENGTH <= Nibbles - 1
  /\ OPTION_MAX_NUMBER \in Nat /\ 0 \in Octets /\ COAP_VERSION \in 0 .. 3
BY FormatAssumption, PacketAssumption, Widths DEF Octets, COAP_VERSION

LEMMA LeadingZeroType ==
  ASSUME NEW o \in Option
  PROVE  /\ LeadingZero(o) \in Option /\ LeadingZero(o).number = o.number
         /\ Len(LeadingZero(o).value) = 1 + Len(o.value)
<1> DEFINE v == <<0>> \o o.value
<1>1. /\ o.number \in 0 .. Word - 1 /\ o.value \in Seq(Octets)
      /\ o = [number |-> o.number, value |-> o.value]
  BY DEF Option
<1>2. <<0>> \in Seq(Octets) /\ Len(<<0>>) = 1
  BY WidthsOfPacket
<1>3. v \in Seq(Octets) /\ Len(v) = 1 + Len(o.value)
  BY <1>1, <1>2, ConcatProperties
<1>5. LeadingZero(o) = [number |-> o.number, value |-> v]
  <2>1. LeadingZero(o) = [o EXCEPT !.value = v]
    BY DEF LeadingZero
  <2> HIDE DEF v
  <2> QED
    BY <1>1, <2>1
<1> HIDE DEF v
<1> QED
  BY <1>1, <1>3, <1>5 DEF Option

LEMMA AddedIsShort ==
  ASSUME NEW o \in Options
  PROVE  /\ o \in Option /\ o.number \in 0 .. OPTION_MAX_NUMBER
         /\ LeadingZero(o) \in ShortOption /\ LeadingZero(o) \in Option
         /\ LeadingZero(o).number = o.number
<1>1. /\ o \in Option /\ o.number <= OPTION_MAX_NUMBER
      /\ Len(o.value) <= Octet
  BY PacketAssumption DEF OPTION_MAX_LENGTH
<1>2. OPTION_MAX_NUMBER \in 0 .. Octet - 1 /\ Octet \in Nat
  BY PacketAssumption, Widths
<1>3. o.number \in 0 .. OPTION_MAX_NUMBER /\ Len(o.value) \in Nat
  BY <1>1, <1>2, OptionFields
<1>4. /\ LeadingZero(o) \in Option /\ LeadingZero(o).number = o.number
      /\ Len(LeadingZero(o).value) = 1 + Len(o.value)
  BY <1>1, LeadingZeroType
<1>5. LeadingZero(o).number < Octet /\ Len(LeadingZero(o).value) \in 1 .. Octet + 1
  BY <1>1, <1>2, <1>3, <1>4
<1> QED
  BY <1>1, <1>3, <1>4, <1>5 DEF ShortOption

LEMMA TokenSentType ==
  ASSUME TypeOK, Serializes
  PROVE  TokenSent \in Seq(Octets)
<1>1. tokenLength \in Nat /\ tokenLength <= TOKEN_MAX_LENGTH
  BY Widths DEF TypeOK, Serializes
<1>2. \A i \in 1 .. tokenLength : token[i] \in Octets
  BY <1>1, WidthsOfPacket DEF TypeOK
<1> QED
  BY <1>1, <1>2, SubSeqProperties DEF TokenSent

LEMMA ArrivalsType ==
  ASSUME TypeOK
  PROVE  Arrivals \subseteq Datagram
<1>1. ASSUME Serializes PROVE Own \in Datagram
  <2>1. WrittenBody(TokenSent, options, payload) \in Seq(Octets)
    BY <1>1, TokenSentType, WrittenBodyType DEF TypeOK
  <2> QED
    BY <2>1 DEF Own, Datagram, TypeOK
<1> QED
  BY <1>1, PacketAssumption DEF Arrivals

LEMMA ReadTokenType ==
  ASSUME NEW d \in Datagram
  PROVE  ReadToken(d) \in [1 .. TOKEN_MAX_LENGTH -> Octets]
<1>1. d.body \in Seq(Octets) /\ d.tkl \in Nat
  BY Widths DEF Datagram
<1>2. ASSUME NEW i \in 1 .. TOKEN_MAX_LENGTH, TokenReadable(d), i <= d.tkl
      PROVE  d.body[i] \in Octets
  <2>1. i \in 1 .. Len(d.body)
    BY <1>1, <1>2, WidthsOfPacket DEF TokenReadable
  <2> QED
    BY <1>1, <2>1
<1> QED
  BY <1>2, WidthsOfPacket DEF ReadToken

-----------------------------------------------------------------------------
(* While the options are those add_option has made, their numbers do not     *)
(* descend, and numbers and values are short enough to be written.           *)
InOrder == Composed => Legible(options)

PacketInv == TypeOK /\ BitmapIsOfOptions /\ InOrder

LEMMA NothingIsLegible == Legible(<<>>)
<1>1. <<>> \in Seq(ShortOption) /\ Len(<<>>) = 0
  OBVIOUS
<1> QED
  BY <1>1 DEF Legible

LEMMA PacketInit == Init => PacketInv
<1> SUFFICES ASSUME Init PROVE PacketInv
  OBVIOUS
<1>1. NoToken \in [1 .. TOKEN_MAX_LENGTH -> Octets]
  BY WidthsOfPacket DEF NoToken
<1>2. TypeOK
  <2>1. 0 \in 0 .. 3 /\ 0 \in 0 .. Nibbles - 1
    BY Widths
  <2>2. <<>> \in Seq(Option) /\ <<>> \in Seq(Octets)
    OBVIOUS
  <2> QED
    BY <1>1, <2>1, <2>2 DEF Init, TypeOK
<1>3. BitmapIsOfOptions /\ InOrder
  BY NothingIsLegible DEF Init, BitmapIsOfOptions, InOrder, Numbers
<1> QED
  BY <1>2, <1>3 DEF PacketInv
(* push_back, the sort and the bit.                                          *)
LEMMA AddKeeps == PacketInv /\ AddOption => PacketInv'
<1> SUFFICES ASSUME PacketInv, AddOption PROVE PacketInv'
  OBVIOUS
<1>1. TypeOK /\ Composed /\ BitmapIsOfOptions /\ InOrder
  BY DEF PacketInv, AddOption
<1>2. PICK o \in Options : PushAndSort(o)
  BY DEF AddOption
<1> DEFINE e == LeadingZero(o)
           longer == Append(options, e)
<1>3. o \in Option /\ o.number \in 0 .. OPTION_MAX_NUMBER
  BY AddedIsShort
<1>4. e \in Option /\ e \in ShortOption /\ e.number = o.number
  BY AddedIsShort
<1>5. /\ options' \in Sortings(longer) /\ bitmap' = bitmap \cup {o.number}
      /\ added' = Append(added, e)
  BY <1>2 DEF PushAndSort
<1>6. /\ options \in Seq(Option) /\ added \in Seq(Option)
      /\ bitmap = Numbers(options)
      /\ options \in Seq(ShortOption)
  BY <1>1 DEF TypeOK, BitmapIsOfOptions, InOrder, Legible
<1> HIDE DEF e
<1>7. /\ longer \in Seq(Option) /\ DOMAIN longer = 1 .. Len(options) + 1
      /\ \A k \in 1 .. Len(options) : longer[k] = options[k]
      /\ longer[Len(options) + 1] = e
      /\ DOMAIN options = 1 .. Len(options) /\ Len(options) \in Nat
  BY <1>4, <1>6
<1>8. Numbers(longer) = Numbers(options) \cup {o.number}
  <2> HIDE DEF longer
  <2>1. ASSUME NEW k \in DOMAIN longer
        PROVE  longer[k].number \in Numbers(options) \cup {o.number}
    <3>1. CASE k \in 1 .. Len(options)
      BY <1>7, <3>1 DEF Numbers
    <3>2. CASE k = Len(options) + 1
      BY <1>4, <1>7, <3>2
    <3> QED
      BY <1>7, <3>1, <3>2
  <2>2. ASSUME NEW k \in DOMAIN options PROVE options[k].number \in Numbers(longer)
    <3>1. k \in DOMAIN longer /\ longer[k] = options[k]
      BY <1>7
    <3>2. longer[k].number \in Numbers(longer)
      BY <3>1 DEF Numbers
    <3> QED
      BY <3>1, <3>2
  <2>3. o.number \in Numbers(longer)
    <3>1. Len(options) + 1 \in DOMAIN longer
      BY <1>7
    <3>2. longer[Len(options) + 1].number \in Numbers(longer)
      BY <3>1 DEF Numbers
    <3> QED
      BY <1>4, <1>7, <3>2
  <2>4. Numbers(longer) \subseteq Numbers(options) \cup {o.number}
    BY <2>1 DEF Numbers
  <2>5. Numbers(options) \subseteq Numbers(longer)
    BY <2>2 DEF Numbers
  <2> QED
    BY <2>3, <2>4, <2>5
<1>9. longer \in Seq(ShortOption)
  BY <1>4, <1>6
<1> HIDE DEF longer
<1>10. Rearranged(longer, options')
  BY <1>5, <1>7, SortingsRearrange
<1>11. /\ options' \in Seq(Option) /\ Numbers(options') = Numbers(longer)
       /\ Legible(options')
  <2>1. options' \in Seq(Option)
    BY <1>10 DEF Rearranged
  <2>2. longer \in Seq(Option)
    BY <1>7
  <2>3. Numbers(options') = Numbers(longer)
    BY <1>10, <2>2, RearrangedKeeps
  <2>4. options' \in Seq(ShortOption)
    BY <1>9, <1>10, RearrangedInside
  <2>5. \A k \in 2 .. Len(options') : options'[k - 1].number <= options'[k].number
    BY <1>5, <2>2, SortingsInOrder
  <2> QED
    BY <2>1, <2>3, <2>4, <2>5 DEF Legible
<1>12. TypeOK'
  <2>1. added' \in Seq(Option) /\ bitmap' \subseteq 0 .. OPTION_MAX_NUMBER
    BY <1>1, <1>3, <1>4, <1>5, <1>6 DEF TypeOK
  <2> QED
    BY <1>1, <1>11, <2>1 DEF AddOption, TypeOK, header
<1>13. BitmapIsOfOptions'
  BY <1>5, <1>6, <1>8, <1>11 DEF BitmapIsOfOptions
<1>14. InOrder'
  BY <1>11 DEF InOrder
<1> QED
  BY <1>12, <1>13, <1>14 DEF PacketInv

(* find_options sorts; it changes no more than the order.                    *)
LEMMA FindKeeps == PacketInv /\ Find => PacketInv'
<1> SUFFICES ASSUME PacketInv, Find PROVE PacketInv'
  OBVIOUS
<1>1. /\ options \in Seq(Option) /\ options' \in Sortings(options)
      /\ UNCHANGED <<added, bitmap>>
  BY DEF PacketInv, TypeOK, Find
<1>2. Rearranged(options, options')
  BY <1>1, SortingsRearrange
<1>3. /\ options' \in Seq(Option) /\ Len(options') = Len(options)
      /\ Numbers(options') = Numbers(options)
  BY <1>1, <1>2, RearrangedKeeps DEF Rearranged
<1>4. Composed' <=> Composed
  BY <1>1, <1>3 DEF Composed
<1>5. TypeOK'
  BY <1>1, <1>3 DEF PacketInv, Find, TypeOK, header
<1>6. BitmapIsOfOptions'
  BY <1>1, <1>3, <1>4 DEF PacketInv, BitmapIsOfOptions
<1>7. InOrder'
  <2> SUFFICES ASSUME Composed PROVE Legible(options')
    BY <1>4 DEF InOrder
  <2>1. options \in Seq(ShortOption)
    BY DEF PacketInv, InOrder, Legible
  <2>2. options' \in Seq(ShortOption)
    BY <1>2, <2>1, RearrangedInside
  <2>3. \A k \in 2 .. Len(options') : options'[k - 1].number <= options'[k].number
    BY <1>1, SortingsInOrder
  <2> QED
    BY <2>2, <2>3 DEF Legible
<1> QED
  BY <1>5, <1>6, <1>7 DEF PacketInv

(* A list that starts anew: nothing added, no bit set.                       *)
LEMMA Anew ==
  ASSUME options' \in Seq(Option), bitmap' = {}, added' = <<>>
  PROVE  BitmapIsOfOptions' /\ InOrder'
<1>1. Composed' <=> options' = <<>>
  BY DEF Composed
<1>2. options' = <<>> => Numbers(options') = {} /\ Legible(options')
  BY NothingIsLegible DEF Numbers
<1> QED
  BY <1>1, <1>2 DEF BitmapIsOfOptions, InOrder

LEMMA CleanKeeps == PacketInv /\ CleanOptions => PacketInv'
<1> SUFFICES ASSUME PacketInv, CleanOptions PROVE PacketInv'
  OBVIOUS
<1>1. options' = <<>> /\ added' = <<>> /\ bitmap' = {}
  BY DEF CleanOptions, CleanList
<1>2. <<>> \in Seq(Option)
  OBVIOUS
<1>3. TypeOK'
  BY <1>1, <1>2 DEF PacketInv, TypeOK, CleanOptions, CleanList, header
<1>4. BitmapIsOfOptions' /\ InOrder'
  BY <1>1, <1>2, Anew
<1> QED
  BY <1>3, <1>4 DEF PacketInv

(* What leaves the list alone keeps what is said of it.                      *)
LEMMA ListUnchanged ==
  PacketInv /\ UNCHANGED list => BitmapIsOfOptions' /\ InOrder'
BY DEF PacketInv, list, BitmapIsOfOptions, InOrder, Composed

LEMMA RequestKeeps == PacketInv /\ MakeRequest => PacketInv'
<1> SUFFICES ASSUME PacketInv, MakeRequest PROVE PacketInv'
  OBVIOUS
<1>1. tokenLength' \in 0 .. Nibbles - 1 /\ token' \in [1 .. TOKEN_MAX_LENGTH -> Octets]
  <2>1. CASE UNCHANGED <<tokenLength, token>>
    BY <2>1 DEF PacketInv, TypeOK
  <2>2. ASSUME tokenLength' \in 1 .. TOKEN_MAX_LENGTH,
               NEW t \in [1 .. tokenLength' -> TokenOctets],
               token' = [i \in DOMAIN token |-> IF i \in DOMAIN t THEN t[i] ELSE token[i]]
        PROVE  tokenLength' \in 0 .. Nibbles - 1
               /\ token' \in [1 .. TOKEN_MAX_LENGTH -> Octets]
    <3>1. \A i \in DOMAIN t : t[i] \in Octets
      BY <2>2, PacketAssumption
    <3>2. token \in [1 .. TOKEN_MAX_LENGTH -> Octets]
      BY DEF PacketInv, TypeOK
    <3>3. token' \in [1 .. TOKEN_MAX_LENGTH -> Octets]
      BY <2>2, <3>1, <3>2
    <3> QED
      BY <2>2, <3>3, WidthsOfPacket, Widths
  <2> QED
    BY <2>1, <2>2 DEF MakeRequest
<1>2. TypeOK'
  BY <1>1, WidthsOfPacket, PacketAssumption
     DEF PacketInv, TypeOK, MakeRequest, list
<1> QED
  BY <1>2, ListUnchanged DEF PacketInv, MakeRequest

LEMMA AnswerKeeps == PacketInv /\ PrepareAnswer => PacketInv'
<1> SUFFICES ASSUME PacketInv, PrepareAnswer PROVE PacketInv'
  OBVIOUS
<1>1. TypeOK'
  BY WidthsOfPacket, PacketAssumption DEF PacketInv, TypeOK, PrepareAnswer, list
<1> QED
  BY <1>1, ListUnchanged DEF PacketInv, PrepareAnswer

LEMMA ClearKeeps == PacketInv /\ ClearInstance => PacketInv'
<1> SUFFICES ASSUME PacketInv, ClearInstance PROVE PacketInv'
  OBVIOUS
<1>1. NoToken \in [1 .. TOKEN_MAX_LENGTH -> Octets] /\ 0 \in 0 .. Nibbles - 1
  BY WidthsOfPacket, Widths DEF NoToken
<1>2. <<>> \in Seq(Octets)
  OBVIOUS
<1>3. TypeOK'
  BY <1>1, <1>2 DEF PacketInv, TypeOK, ClearInstance, list
<1> QED
  BY <1>3, ListUnchanged DEF PacketInv, ClearInstance

LEMMA AbortKeeps == PacketInv /\ (SerializeAborts \/ ParseEmpty) => PacketInv'
<1> SUFFICES ASSUME PacketInv, SerializeAborts \/ ParseEmpty PROVE PacketInv'
  OBVIOUS
<1>1. UNCHANGED <<header, list, payload>> /\ alive' = FALSE
  BY DEF SerializeAborts, ParseEmpty
<1>2. TypeOK'
  BY <1>1 DEF PacketInv, TypeOK, header, list
<1> QED
  BY <1>1, <1>2, ListUnchanged DEF PacketInv

LEMMA ParseKeeps ==
  ASSUME PacketInv, NEW d \in Arrivals, NEW past \in BeyondOctets, Parse(d, past)
  PROVE  PacketInv'
<1>1. d \in Datagram /\ past \in Octets /\ TypeOK
  BY ArrivalsType, PacketAssumption DEF PacketInv
<1>2. d.version \in 0 .. 3 /\ d.tkl \in 0 .. Nibbles - 1
  BY <1>1 DEF Datagram
<1>3. ReadToken(d) \in [1 .. TOKEN_MAX_LENGTH -> Octets]
  BY <1>1, ReadTokenType
<1>4. Parsing(d)
  BY DEF Parse, ParseHeaderFails, ParseTokenFails, ParseOptionsFails, ParseAborts,
         ParseSucceeds, ParsingOptions
<1>5. CASE ParseHeaderFails(d)
  <2>1. TypeOK'
    BY <1>1, <1>2, <1>4, <1>5 DEF ParseHeaderFails, Parsing, TypeOK, list
  <2> QED
    BY <1>5, <2>1, ListUnchanged DEF PacketInv, ParseHeaderFails
<1>6. CASE ParseTokenFails(d)
  <2>1. TypeOK'
    BY <1>1, <1>2, <1>3, <1>4, <1>6 DEF ParseTokenFails, Parsing, TypeOK, list
  <2> QED
    BY <1>6, <2>1, ListUnchanged DEF PacketInv, ParseTokenFails
<1>7. ASSUME ParsingOptions(d, past), payload' \in Seq(Octets), alive' \in BOOLEAN
      PROVE  PacketInv'
  <2>1. options' \in Seq(Option) /\ bitmap' = {} /\ added' = <<>>
    BY <1>1, <1>7, ReadOptionListType DEF ParsingOptions
  <2>2. allocated' \in BOOLEAN
    BY <1>7 DEF ParsingOptions
  <2>3. <<>> \in Seq(Option)
    OBVIOUS
  <2>4. token' = ReadToken(d) /\ version' = d.version /\ tokenLength' = d.tkl
    BY <1>4, <1>7 DEF ParsingOptions, Parsing
  <2>5. TypeOK'
    BY <1>2, <1>3, <1>7, <2>1, <2>2, <2>3, <2>4 DEF TypeOK
  <2> QED
    BY <2>1, <2>5, Anew DEF PacketInv
<1>8. CASE ParseOptionsFails(d, past)
  <2>1. ParsingOptions(d, past) /\ payload' \in Seq(Octets) /\ alive' \in BOOLEAN
    BY <1>1, <1>8 DEF ParseOptionsFails, TypeOK
  <2> QED
    BY <1>7, <2>1
<1>9. CASE ParseAborts(d, past)
  <2>1. ParsingOptions(d, past) /\ payload' \in Seq(Octets) /\ alive' \in BOOLEAN
    BY <1>1, <1>9 DEF ParseAborts, TypeOK
  <2> QED
    BY <1>7, <2>1
<1>10. CASE ParseSucceeds(d, past)
  <2>1. ReadPayload(d, past) \in Seq(Octets)
    BY <1>1, <1>10, ReadPayloadType DEF ParseSucceeds
  <2>2. payload' \in Seq(Octets)
    BY <1>1, <1>10, <2>1 DEF ParseSucceeds, TypeOK
  <2>3. ParsingOptions(d, past) /\ alive' \in BOOLEAN
    BY <1>1, <1>10 DEF ParseSucceeds, TypeOK
  <2> QED
    BY <1>7, <2>2, <2>3
<1> QED
  BY <1>5, <1>6, <1>8, <1>9, <1>10 DEF Parse

LEMMA StutterKeeps == PacketInv /\ UNCHANGED vars => PacketInv'
<1> SUFFICES ASSUME PacketInv, UNCHANGED vars PROVE PacketInv'
  OBVIOUS
<1>1. TypeOK'
  BY DEF PacketInv, TypeOK, vars, header, list
<1> QED
  BY <1>1, ListUnchanged DEF PacketInv, vars

THEOREM PacketInvariant == Spec => []PacketInv
<1>1. PacketInv /\ [Next]_vars => PacketInv'
  <2> SUFFICES ASSUME PacketInv, [Next]_vars PROVE PacketInv'
    OBVIOUS
  <2>1. ASSUME NEW d \in Arrivals, NEW past \in BeyondOctets, Parse(d, past)
        PROVE  PacketInv'
    BY <2>1, ParseKeeps
  <2> QED
    BY <2>1, AddKeeps, CleanKeeps, ClearKeeps, RequestKeeps, AnswerKeeps,
       AbortKeeps, FindKeeps, StutterKeeps DEF Next
<1> QED
  BY <1>1, PacketInit, PTL DEF Spec

-----------------------------------------------------------------------------
(* Every field keeps its type, whatever arrives and in whatever order the    *)
(* operations of the packet are called.                                      *)
THEOREM PacketTypes == Spec => []TypeOK
<1>1. PacketInv => TypeOK
  BY DEF PacketInv
<1> QED
  BY <1>1, PacketInvariant, PTL

(* The bitmap has the numbers of the added options and none from before the  *)
(* last clean_options or parse, whichever way std::sort orders equal ones.   *)
THEOREM BitmapFollows == Spec => []BitmapIsOfOptions
<1>1. PacketInv => BitmapIsOfOptions
  BY DEF PacketInv
<1> QED
  BY <1>1, PacketInvariant, PTL

(* Of a message made with add_option, the buffer that the first pass of      *)
(* serialize measures is enough for the second one, and an assertion stops it*)
(* only if the message has neither an option nor a payload.                  *)
THEOREM MeasureIsEnough == Spec => []MeasuredIsEnough
<1>1. PacketInv => MeasuredIsEnough
  <2> SUFFICES ASSUME PacketInv, Composed, Serializes
               PROVE  SerializeInside <=> options # <<>> \/ payload # <<>>
    BY DEF MeasuredIsEnough
  <2>1. options \in Seq(Option) /\ payload \in Seq(Octets)
    BY DEF PacketInv, TypeOK
  <2>2. TokenSent \in Seq(Octets)
    BY TokenSentType DEF PacketInv
  <2>3. \A k \in DOMAIN options : options[k].value # <<>>
    <3>1. \A k \in 1 .. Len(options) :
            options[k].value \in Seq(Octets) /\ Len(options[k].value) \in 1 .. Octet + 1
      BY LegibleType DEF PacketInv, InOrder
    <3>2. DOMAIN options = 1 .. Len(options)
      BY <2>1
    <3> QED
      BY <3>1, <3>2, Widths
  <2> QED
    BY <2>1, <2>2, <2>3, MeasuredFits DEF SerializeInside
<1> QED
  BY <1>1, PacketInvariant, PTL

(* What the memory holds behind a datagram never changes what is read of it, *)
(* although option_parser looks one octet too far.                           *)
THEOREM PastEndNeverMatters == Spec => []PastEndIrrelevant
<1>1. PacketInv => PastEndIrrelevant
  <2> SUFFICES ASSUME PacketInv, NEW d \in Arrivals,
                      NEW past1 \in BeyondOctets, NEW past2 \in BeyondOctets
               PROVE  ReadOptions(d, past1) = ReadOptions(d, past2)
    BY DEF PastEndIrrelevant
  <2>1. d \in Datagram /\ past1 \in Octets /\ past2 \in Octets
    BY ArrivalsType, PacketAssumption DEF PacketInv
  <2> QED
    BY <2>1, ReadOptionsPast
<1> QED
  BY <1>1, PacketInvariant, PTL

(* The token of the packet's own datagram is read as it was written.         *)
LEMMA TokenIsRead ==
  ASSUME PacketInv, Serializes
  PROVE  /\ Own \in Datagram /\ TokenSent \in Seq(Octets) /\ Own.tkl = Len(TokenSent)
         /\ TokenReadable(Own)
         /\ SubSeq(ReadToken(Own), 1, tokenLength) = TokenSent
<1> DEFINE d == Own
           t == TokenSent
           r == ReadToken(d)
<1>1. /\ tokenLength \in Nat /\ tokenLength <= TOKEN_MAX_LENGTH
      /\ token \in [1 .. TOKEN_MAX_LENGTH -> Octets]
      /\ options \in Seq(Option) /\ payload \in Seq(Octets)
  BY Widths DEF PacketInv, TypeOK, Serializes
<1>2. TOKEN_MAX_LENGTH \in Nat
  BY WidthsOfPacket
<1>3. t \in Seq(Octets) /\ Len(t) = tokenLength
  <2>1. \A i \in 1 .. tokenLength : token[i] \in Octets
    BY <1>1, <1>2
  <2>2. /\ t \in Seq(Octets)
        /\ Len(t) = IF 1 <= tokenLength THEN tokenLength - 1 + 1 ELSE 0
    BY <1>1, <2>1, SubSeqProperties DEF TokenSent
  <2> HIDE DEF t
  <2> QED
    BY <1>1, <2>2
<1>4. d \in Datagram
  <2>1. d \in Arrivals \/ d \in Datagram
    <3>1. WrittenBody(t, options, payload) \in Seq(Octets)
      BY <1>1, <1>3, WrittenBodyType
    <3> QED
      BY <3>1 DEF Own, Datagram, PacketInv, TypeOK
  <2> QED
    BY <2>1, ArrivalsType DEF PacketInv
<1>5. d.tkl = tokenLength /\ d.body = WrittenBody(t, options, payload)
  BY DEF Own
<1> HIDE DEF d, t
<1>6. Len(t) <= Len(d.body) /\ \A i \in 1 .. Len(t) : d.body[i] = t[i]
  BY <1>1, <1>3, <1>4, <1>5, PayloadLies
<1>7. TokenReadable(d)
  BY <1>1, <1>3, <1>5, <1>6 DEF TokenReadable
<1>8. r \in [1 .. TOKEN_MAX_LENGTH -> Octets]
  BY <1>4, ReadTokenType
<1>9. \A i \in 1 .. tokenLength : r[i] = t[i] /\ r[i] \in Octets
  <2> TAKE i \in 1 .. tokenLength
  <2>1. i \in 1 .. TOKEN_MAX_LENGTH /\ i <= d.tkl /\ i \in 1 .. Len(t)
    BY <1>1, <1>2, <1>3, <1>5
  <2>2. r[i] = d.body[i]
    BY <1>7, <2>1 DEF ReadToken
  <2> HIDE DEF r
  <2> QED
    BY <1>6, <1>8, <2>1, <2>2
<1> HIDE DEF r
<1> DEFINE u == SubSeq(r, 1, tokenLength)
<1>10. u = t
  <2>1. /\ u \in Seq(Octets)
        /\ Len(u) = IF 1 <= tokenLength THEN tokenLength - 1 + 1 ELSE 0
        /\ \A i \in 1 .. tokenLength - 1 + 1 : u[i] = r[1 + i - 1]
    BY <1>1, <1>9, SubSeqProperties
  <2> HIDE DEF u
  <2>2. Len(u) = tokenLength /\ \A i \in 1 .. tokenLength : u[i] = r[i]
    BY <1>1, <2>1
  <2>3. \A i \in 1 .. Len(t) : u[i] = t[i]
    BY <1>3, <1>9, <2>2
  <2> QED
    BY <1>3, <2>1, <2>2, <2>3
<1> QED
  BY <1>3, <1>4, <1>5, <1>7, <1>10 DEF d, t, u, r

(* A message made of added options, serialized by this library and parsed by *)
(* it, is the message: token, numbers, values (with the zero parse puts in   *)
(* front of the first one) and payload, for every width of a nibble, although*)
(* both ends of the codec have flaws in their long forms; and only a message *)
(* with a payload gets past the reader's assertion.                          *)
THEOREM MessagesAreRead == Spec => []WhatIsWrittenIsRead
<1>1. PacketInv => WhatIsWrittenIsRead
  <2> SUFFICES ASSUME PacketInv, Composed, Serializes, NEW past \in BeyondOctets
               PROVE  /\ TokenReadable(Own) /\ OptionsReadable(Own, past)
                      /\ SubSeq(ReadToken(Own), 1, tokenLength) = TokenSent
                      /\ ReadOptionList(Own, past) =
                           IF options = <<>> THEN <<>>
                           ELSE <<LeadingZero(Head(options))>> \o Tail(options)
                      /\ PayloadReadable(Own, past) <=> payload # <<>>
                      /\ payload # <<>> => ReadPayload(Own, past) = payload
    BY DEF WhatIsWrittenIsRead
  <2>1. /\ Own \in Datagram /\ TokenSent \in Seq(Octets) /\ Own.tkl = Len(TokenSent)
        /\ TokenReadable(Own)
        /\ SubSeq(ReadToken(Own), 1, tokenLength) = TokenSent
    BY TokenIsRead
  <2>2. Legible(options) /\ payload \in Seq(Octets) /\ past \in Octets
    BY PacketAssumption DEF PacketInv, InOrder, TypeOK
  <2>3. Own.body = WrittenBody(TokenSent, options, payload)
    BY DEF Own
  <2>4. /\ OptionsReadable(Own, past)
        /\ ReadOptions(Own, past).options = options
        /\ PayloadReadable(Own, past) <=> payload # <<>>
        /\ payload # <<>> => ReadPayload(Own, past) = payload
    BY <2>1, <2>2, <2>3, WrittenIsRead
  <2>5. ReadOptionList(Own, past) =
          IF options = <<>> THEN <<>> ELSE <<LeadingZero(Head(options))>> \o Tail(options)
    BY <2>4 DEF ReadOptionList
  <2> QED
    BY <2>1, <2>4, <2>5
<1> QED
  BY <1>1, PacketInvariant, PTL

(* While std::sort keeps the order of equals, the options with one number,   *)
(* as the segments of a path, stay in the order they were added in, however  *)
(* often and in whatever order they are sorted in between.                   *)
LEMMA SortedOnce ==
  ASSUME NEW opts \in Seq(Option), NEW others \in Sortings(opts),
         Len(opts) <= StableLimit
  PROVE  Regrouped(opts, others)
<1>1. others = StablySorted(opts)
  BY DEF Sortings
<1> QED
  BY <1>1, StablySortedRegroups

LEMMA AddKeepsPath ==
  ASSUME PacketInv, PathKept, AddOption
  PROVE  PathKept'
<1> SUFFICES ASSUME Len(options') <= StableLimit
             PROVE  Regrouped(added', options')
  BY DEF PathKept
<1>1. PICK o \in Options : PushAndSort(o)
  BY DEF AddOption
<1> DEFINE z == LeadingZero(o)
<1>2. z \in Option
  BY AddedIsShort
<1>3. /\ options \in Seq(Option) /\ added \in Seq(Option)
      /\ Len(added) = Len(options)
  BY DEF PacketInv, TypeOK, AddOption, Composed
<1>4. options' \in Sortings(Append(options, z)) /\ added' = Append(added, z)
  BY <1>1 DEF PushAndSort
<1> HIDE DEF z
<1>5. /\ Append(options, z) \in Seq(Option) /\ Append(added, z) \in Seq(Option)
      /\ Len(Append(options, z)) = Len(options) + 1 /\ Len(options) \in Nat
  BY <1>2, <1>3
<1>6. options' \in Seq(Option) /\ Len(options') = Len(options) + 1
  BY <1>4, <1>5, SortingsRearrange DEF Rearranged
<1>7. StableLimit \in Nat /\ Len(options) <= StableLimit
  BY <1>5, <1>6, StableAssumption
<1>8. Regrouped(added, options)
  BY <1>3, <1>7 DEF PathKept, Composed
<1>9. Regrouped(Append(added, z), Append(options, z))
  BY <1>2, <1>3, <1>8, RegroupedLonger
<1>10. Regrouped(Append(options, z), options')
  BY <1>4, <1>5, <1>6, SortedOnce
<1> QED
  BY <1>4, <1>5, <1>6, <1>9, <1>10, RegroupedTwice

LEMMA FindKeepsPath ==
  ASSUME PacketInv, PathKept, Find
  PROVE  PathKept'
<1> SUFFICES ASSUME Composed', Len(options') <= StableLimit
             PROVE  Regrouped(added', options')
  BY DEF PathKept
<1>1. /\ options \in Seq(Option) /\ added \in Seq(Option)
      /\ options' \in Sortings(options) /\ added' = added
  BY DEF PacketInv, TypeOK, Find
<1>2. options' \in Seq(Option) /\ Len(options') = Len(options)
  BY <1>1, SortingsRearrange DEF Rearranged
<1>3. Regrouped(added, options)
  BY <1>1, <1>2 DEF PathKept, Composed
<1>4. Regrouped(options, options')
  BY <1>1, <1>2, SortedOnce
<1> QED
  BY <1>1, <1>2, <1>3, <1>4, RegroupedTwice

LEMMA NothingRegrouped == Regrouped(<<>>, <<>>)
<1>1. StablySorted(<<>>) = <<>> /\ <<>> \in Seq(Option)
  BY DEF StablySorted
<1> QED
  BY <1>1, StablySortedRegroups

LEMMA AnewKeepsPath ==
  ASSUME options' \in Seq(Option), added' = <<>>
  PROVE  PathKept'
<1>1. Composed' => options' = <<>>
  BY DEF Composed
<1> QED
  BY <1>1, NothingRegrouped DEF PathKept

LEMMA ListKeepsPath == PathKept /\ UNCHANGED list => PathKept'
BY DEF PathKept, list, Composed

LEMMA ParseKeepsPath ==
  ASSUME PacketInv, PathKept, NEW d \in Arrivals, NEW past \in BeyondOctets,
         Parse(d, past)
  PROVE  PathKept'
<1>1. CASE UNCHANGED list
  BY <1>1, ListKeepsPath
<1>2. CASE ParsingOptions(d, past)
  <2>1. d \in Datagram /\ past \in Octets
    BY ArrivalsType, PacketAssumption DEF PacketInv
  <2>2. options' \in Seq(Option) /\ added' = <<>>
    BY <1>2, <2>1, ReadOptionListType DEF ParsingOptions
  <2> QED
    BY <2>2, AnewKeepsPath
<1> QED
  BY <1>1, <1>2 DEF Parse, ParseHeaderFails, ParseTokenFails, ParseOptionsFails,
                    ParseAborts, ParseSucceeds

THEOREM PathsAreKept == Spec => []PathKept
<1>1. Init => PathKept
  BY NothingRegrouped DEF Init, PathKept
<1>2. PacketInv /\ PathKept /\ [Next]_vars => PathKept'
  <2> SUFFICES ASSUME PacketInv, PathKept, [Next]_vars PROVE PathKept'
    OBVIOUS
  <2>1. CASE AddOption
    BY <2>1, AddKeepsPath
  <2>2. CASE Find
    BY <2>2, FindKeepsPath
  <2>3. CASE CleanOptions
    <3>1. options' = <<>> /\ added' = <<>> /\ <<>> \in Seq(Option)
      BY <2>3 DEF CleanOptions, CleanList
    <3> QED
      BY <3>1, AnewKeepsPath
  <2>4. CASE ClearInstance \/ MakeRequest \/ PrepareAnswer \/ SerializeAborts
             \/ ParseEmpty \/ UNCHANGED vars
    <3>1. UNCHANGED list
      BY <2>4 DEF ClearInstance, MakeRequest, PrepareAnswer, SerializeAborts,
                  ParseEmpty, vars
    <3> QED
      BY <3>1, ListKeepsPath
  <2>5. ASSUME NEW d \in Arrivals, NEW past \in BeyondOctets, Parse(d, past)
        PROVE  PathKept'
    BY <2>5, ParseKeepsPath
  <2> QED
    BY <2>1, <2>2, <2>3, <2>4, <2>5 DEF Next
<1> QED
  BY <1>1, <1>2, PacketInvariant, PTL DEF Spec

-----------------------------------------------------------------------------
(* The binary search. Its middle is between min and max, so the range it goes*)
(* on with is narrower: the loop ends, and the recursion has a solution.     *)
Middle(r) == (r[1] + r[2]) \div 2

SearchStep(opts, beyond, n, f, r) ==
  IF r[1] > r[2] THEN [at |-> -1, min |-> r[1]]
  ELSE IF NumberAt(opts, beyond, Middle(r)) < n THEN f[<<Middle(r) + 1, r[2]>>]
  ELSE IF NumberAt(opts, beyond, Middle(r)) > n THEN f[<<r[1], Middle(r) - 1>>]
  ELSE [at |-> Middle(r), min |-> r[1]]

Searcher(opts, beyond, n) ==
  CHOOSE f : f = [r \in Ranges(opts) |-> SearchStep(opts, beyond, n, f, r)]

LEMMA SearchSearcher ==
  ASSUME NEW opts, NEW beyond, NEW n
  PROVE  Search(opts, beyond, n) = Searcher(opts, beyond, n)[<<0, Len(opts)>>]
BY DEF Search, Searcher, SearchStep, Middle

LEMMA RangeType ==
  ASSUME NEW opts \in Seq(Option), NEW r \in Ranges(opts)
  PROVE  /\ r[1] \in 0 .. Len(opts) + 1 /\ r[2] \in -1 .. Len(opts) /\ Len(opts) \in Nat
         /\ r[1] <= r[2] =>
              /\ Middle(r) \in r[1] .. r[2] /\ Middle(r) \in 0 .. Len(opts)
              /\ Middle(r) = Len(opts) => r[1] = Len(opts)
              /\ <<Middle(r) + 1, r[2]>> \in Ranges(opts)
              /\ <<r[1], Middle(r) - 1>> \in Ranges(opts)
<1> DEFINE n == Len(opts)
           a == r[1]
           b == r[2]
           m == Middle(r)
<1>1. a \in 0 .. n + 1 /\ b \in -1 .. n /\ n \in Nat
  BY DEF Ranges
<1>2. m = (a + b) \div 2
  BY DEF Middle
<1> HIDE DEF a, b, m, n
<1>3. ASSUME a <= b PROVE m \in a .. b /\ m \in 0 .. n /\ (m = n => a = n)
  <2>1. a + b \in Int /\ a \in Int /\ b \in Int
    BY <1>1
  <2>2. m \in Int /\ 2 * m <= a + b /\ a + b <= 2 * m + 1
    BY <1>2, <2>1
  <2> QED
    BY <1>1, <1>3, <2>1, <2>2
<1>4. ASSUME a <= b
      PROVE  m + 1 \in 0 .. n + 1 /\ m - 1 \in -1 .. n
  BY <1>1, <1>3, <1>4
<1> QED
  BY <1>1, <1>3, <1>4 DEF a, b, m, n, Ranges

LEMMA RangeWidth ==
  ASSUME NEW opts \in Seq(Option), NEW r \in Ranges(opts)
  PROVE  /\ r[2] - r[1] < Len(opts) + 1
         /\ r[1] <= r[2] \/ r[1] > r[2]
         /\ ~(r[1] <= r[2] /\ r[1] > r[2])
         /\ r[2] - r[1] < 0 => r[1] > r[2]
         /\ \A k \in Nat : r[2] - r[1] < k => r[2] - r[1] < k + 1
<1> DEFINE n == Len(opts)
           a == r[1]
           b == r[2]
<1>1. a \in 0 .. n + 1 /\ b \in -1 .. n /\ n \in Nat
  BY DEF Ranges
<1> HIDE DEF a, b, n
<1>2. /\ b - a < n + 1
      /\ a <= b \/ a > b
      /\ ~(a <= b /\ a > b)
      /\ b - a < 0 => a > b
      /\ \A k \in Nat : b - a < k => b - a < k + 1
  BY <1>1
<1> QED
  BY <1>2 DEF a, b, n

Narrow(opts, k) == {r \in Ranges(opts) : r[2] - r[1] < k}

LEMMA NarrowAll ==
  ASSUME NEW opts \in Seq(Option)
  PROVE  Len(opts) + 1 \in Nat /\ Narrow(opts, Len(opts) + 1) = Ranges(opts)
<1>1. ASSUME NEW r \in Ranges(opts) PROVE r[2] - r[1] < Len(opts) + 1
  BY RangeWidth
<1> QED
  BY <1>1 DEF Narrow

LEMMA Narrower ==
  ASSUME NEW opts \in Seq(Option), NEW k \in Nat, NEW r \in Narrow(opts, k + 1),
         r[1] <= r[2]
  PROVE  /\ <<Middle(r) + 1, r[2]>> \in Narrow(opts, k)
         /\ <<r[1], Middle(r) - 1>> \in Narrow(opts, k)
<1>1. r \in Ranges(opts) /\ r[2] - r[1] < k + 1
  BY DEF Narrow
<1> DEFINE a == r[1]
           b == r[2]
           m == Middle(r)
<1>2. /\ a \in Int /\ b \in Int /\ m \in a .. b
      /\ <<m + 1, b>> \in Ranges(opts) /\ <<a, m - 1>> \in Ranges(opts)
  BY <1>1, RangeType
<1> HIDE DEF a, b, m
<1>3. b - (m + 1) < k /\ (m - 1) - a < k
  BY <1>1, <1>2 DEF a, b
<1>4. /\ <<m + 1, b>>[1] = m + 1 /\ <<m + 1, b>>[2] = b
      /\ <<a, m - 1>>[1] = a /\ <<a, m - 1>>[2] = m - 1
  OBVIOUS
<1> QED
  BY <1>2, <1>3, <1>4 DEF Narrow, a, b, m

LEMMA NarrowNone ==
  ASSUME NEW opts \in Seq(Option), NEW r \in Narrow(opts, 0)
  PROVE  r[1] > r[2]
<1>1. r \in Ranges(opts) /\ r[2] - r[1] < 0
  BY DEF Narrow
<1> QED
  BY <1>1, RangeWidth

LEMMA RangeInduction ==
  ASSUME NEW opts \in Seq(Option), NEW X,
         \A r \in Ranges(opts) :
           (r[1] <= r[2] => /\ <<Middle(r) + 1, r[2]>> \in X
                            /\ <<r[1], Middle(r) - 1>> \in X) => r \in X
  PROVE  \A r \in Ranges(opts) : r \in X
<1> DEFINE S == {k \in Nat : Narrow(opts, k) \subseteq X}
<1>1. 0 \in S
  <2>1. ASSUME NEW r \in Narrow(opts, 0) PROVE r \in X
    <3>1. r \in Ranges(opts) /\ ~(r[1] <= r[2])
      BY NarrowNone, RangeWidth DEF Narrow
    <3> QED
      BY <3>1
  <2> QED
    BY <2>1
<1>2. ASSUME NEW k \in S PROVE k + 1 \in S
  <2>1. k \in Nat /\ Narrow(opts, k) \subseteq X
    BY <1>2
  <2>2. ASSUME NEW r \in Narrow(opts, k + 1) PROVE r \in X
    <3>1. r \in Ranges(opts)
      BY DEF Narrow
    <3>2. r[1] <= r[2] => /\ <<Middle(r) + 1, r[2]>> \in X
                          /\ <<r[1], Middle(r) - 1>> \in X
      BY <2>1, <2>2, Narrower
    <3> QED
      BY <3>1, <3>2
  <2> QED
    BY <2>1, <2>2
<1> HIDE DEF S
<1>3. \A k \in Nat : k \in S
  <2>1. S \subseteq Nat
    BY DEF S
  <2> QED
    BY <1>1, <1>2, <2>1, Induction
<1> QED
  BY <1>3, NarrowAll DEF S

LEMMA SearcherUnfolds ==
  ASSUME NEW opts \in Seq(Option), NEW beyond, NEW n
  PROVE  Searcher(opts, beyond, n) =
           [r \in Ranges(opts) |-> SearchStep(opts, beyond, n, Searcher(opts, beyond, n), r)]
<1> DEFINE Step(f, r) == SearchStep(opts, beyond, n, f, r)
           Solves(f, k) == f = [r \in Narrow(opts, k) |-> Step(f, r)]
           S == {k \in Nat : \E f : Solves(f, k)}
<1>1. 0 \in S
  <2> DEFINE f == [r \in Narrow(opts, 0) |-> Step(<<>>, r)]
  <2>1. ASSUME NEW r \in Narrow(opts, 0) PROVE Step(<<>>, r) = Step(f, r)
    BY NarrowNone DEF SearchStep
  <2>2. Solves(f, 0)
    BY <2>1
  <2> QED
    BY <2>2
<1>2. ASSUME NEW k \in S PROVE k + 1 \in S
  <2>1. PICK f : Solves(f, k)
    BY <1>2
  <2> DEFINE g == [r \in Narrow(opts, k + 1) |-> Step(f, r)]
  <2>2. ASSUME NEW r \in Narrow(opts, k) PROVE f[r] = g[r]
    <3>1. r \in Narrow(opts, k + 1)
      <4>1. r \in Ranges(opts) /\ r[2] - r[1] < k /\ k \in Nat
        BY <1>2 DEF Narrow
      <4>2. r[2] - r[1] < k + 1
        BY <4>1, RangeWidth
      <4> QED
        BY <4>1, <4>2 DEF Narrow
    <3>2. f[r] = Step(f, r)
      BY <2>1
    <3> QED
      BY <3>1, <3>2
  <2>3. ASSUME NEW r \in Narrow(opts, k + 1) PROVE Step(f, r) = Step(g, r)
    <3>1. CASE r[1] > r[2]
      BY <3>1 DEF SearchStep
    <3>2. CASE ~(r[1] > r[2])
      <4>1. k \in Nat /\ r \in Ranges(opts)
        BY <1>2 DEF Narrow
      <4>2. r[1] <= r[2]
        BY <3>2, <4>1, RangeWidth
      <4>3. /\ <<Middle(r) + 1, r[2]>> \in Narrow(opts, k)
            /\ <<r[1], Middle(r) - 1>> \in Narrow(opts, k)
        BY <4>1, <4>2, Narrower
      <4> HIDE DEF g
      <4>4. /\ f[<<Middle(r) + 1, r[2]>>] = g[<<Middle(r) + 1, r[2]>>]
            /\ f[<<r[1], Middle(r) - 1>>] = g[<<r[1], Middle(r) - 1>>]
        BY <2>2, <4>3
      <4> QED
        BY <4>4 DEF SearchStep
    <3> QED
      BY <3>1, <3>2
  <2>4. Solves(g, k + 1)
    BY <2>3
  <2> HIDE DEF g, Solves
  <2>5. k + 1 \in Nat /\ \E h : Solves(h, k + 1)
    BY <1>2, <2>4
  <2> QED
    BY <2>5
<1> HIDE DEF S
<1>3. \A k \in Nat : k \in S
  <2>1. S \subseteq Nat
    BY DEF S
  <2> QED
    BY <1>1, <1>2, <2>1, Induction
<1>4. \E f : Solves(f, Len(opts) + 1)
  BY <1>3, NarrowAll DEF S
<1>5. \E f : f = [r \in Ranges(opts) |-> Step(f, r)]
  BY <1>4, NarrowAll
<1> QED
  BY <1>5 DEF Searcher

(* The numbers the search compares: those of the list, which ascend, and     *)
(* those behind them, which may be any.                                      *)
Memory == [before : Nat, behind : Seq(Nat) \ {<<>>}]

LEMMA NumberInside ==
  ASSUME NEW opts \in Seq(Option), NEW beyond \in Memory
  PROVE  /\ \A i \in 0 .. Len(opts) - 1 :
              NumberAt(opts, beyond, i) = opts[i + 1].number /\ opts[i + 1].number \in Nat
         /\ \A j \in 1 .. Len(beyond.behind) :
              NumberAt(opts, beyond, Len(opts) + j - 1) = beyond.behind[j]
         /\ NumberAt(opts, beyond, Len(opts) + Len(beyond.behind)) = -1
         /\ \A i \in 0 .. Len(opts) : NumberAt(opts, beyond, i) \in Nat
<1> DEFINE b == beyond.behind
           n == Len(opts)
<1>1. /\ n \in Nat /\ b \in Seq(Nat) /\ Len(b) \in Nat \ {0} /\ DOMAIN b = 1 .. Len(b)
      /\ \A j \in 1 .. Len(b) : b[j] \in Nat
  <2>1. b \in Seq(Nat) /\ b # <<>>
    BY DEF Memory
  <2> HIDE DEF b
  <2>2. Len(b) \in Nat /\ Len(b) # 0 /\ DOMAIN b = 1 .. Len(b)
    BY <2>1
  <2> QED
    BY <2>1, <2>2
<1>2. ASSUME NEW i \in 0 .. Len(opts) - 1
      PROVE  NumberAt(opts, beyond, i) = opts[i + 1].number /\ opts[i + 1].number \in Nat
  <2>1. i # -1 /\ i \in 0 .. Len(opts) - 1 /\ i - Len(opts) + 1 \notin DOMAIN beyond.behind
    <3> HIDE DEF b
    <3> QED
      BY <1>1 DEF b
  <2>2. opts[i + 1] \in Option
    BY <1>1
  <2>3. NumberAt(opts, beyond, i) = opts[i + 1].number
    BY <2>1 DEF NumberAt
  <2> QED
    BY <2>2, <2>3 DEF Option
<1>3. ASSUME NEW j \in 1 .. Len(b) PROVE NumberAt(opts, beyond, n + j - 1) = b[j]
  <2> HIDE DEF b, n
  <2>1. /\ n + j - 1 # -1 /\ n + j - 1 \notin 0 .. n - 1
        /\ (n + j - 1) - n + 1 = j /\ j \in DOMAIN b
    BY <1>1
  <2> QED
    BY <2>1 DEF NumberAt, b, n
<1>4. NumberAt(opts, beyond, n + Len(b)) = -1
  <2> HIDE DEF b, n
  <2>1. /\ n + Len(b) # -1 /\ n + Len(b) \notin 0 .. n - 1
        /\ (n + Len(b)) - n + 1 \notin DOMAIN b
    BY <1>1
  <2> QED
    BY <2>1 DEF NumberAt, b, n
<1>5. ASSUME NEW i \in 0 .. n PROVE NumberAt(opts, beyond, i) \in Nat
  <2>1. i \in 0 .. n - 1 \/ i = n
    <3> HIDE DEF n
    <3> QED
      BY <1>1
  <2>2. CASE i \in 0 .. n - 1
    BY <1>2, <2>2
  <2>3. CASE i = n
    <3>1. 1 \in 1 .. Len(b) /\ n + 1 - 1 = n
      <4> HIDE DEF b, n
      <4> QED
        BY <1>1
    <3>2. NumberAt(opts, beyond, n) = b[1]
      BY <1>3, <3>1
    <3> QED
      BY <1>1, <2>3, <3>1, <3>2
  <2> QED
    BY <2>1, <2>2, <2>3
<1> QED
  BY <1>2, <1>3, <1>4, <1>5

LEMMA NumbersAscend ==
  ASSUME NEW opts \in Seq(Option), Ascending(opts),
         NEW beyond \in Memory,
         NEW i \in 0 .. Len(opts) - 1, NEW j \in 0 .. Len(opts) - 1, i <= j
  PROVE  NumberAt(opts, beyond, i) <= NumberAt(opts, beyond, j)
<1>1. /\ NumberAt(opts, beyond, i) = opts[i + 1].number /\ opts[i + 1].number \in Nat
      /\ NumberAt(opts, beyond, j) = opts[j + 1].number
  BY NumberInside
<1>2. i + 1 \in DOMAIN opts /\ j + 1 \in DOMAIN opts /\ (i = j \/ i + 1 < j + 1)
  OBVIOUS
<1> QED
  BY <1>1, <1>2 DEF Ascending

LEMMA NumbersAreThere ==
  ASSUME NEW opts \in Seq(Option), NEW beyond \in Memory
  PROVE  Numbers(opts) = {NumberAt(opts, beyond, i) : i \in 0 .. Len(opts) - 1}
<1>1. ASSUME NEW k \in DOMAIN opts
      PROVE  k - 1 \in 0 .. Len(opts) - 1 /\ NumberAt(opts, beyond, k - 1) = opts[k].number
  <2>1. k - 1 \in 0 .. Len(opts) - 1 /\ (k - 1) + 1 = k
    OBVIOUS
  <2> QED
    BY <2>1, NumberInside
<1>2. ASSUME NEW i \in 0 .. Len(opts) - 1
      PROVE  i + 1 \in DOMAIN opts /\ NumberAt(opts, beyond, i) = opts[i + 1].number
  BY NumberInside
<1> QED
  BY <1>1, <1>2 DEF Numbers

(* The loop's invariant: what is in front of min is smaller, what is behind  *)
(* max is greater. And what the search leaves.                               *)
Brackets(opts, beyond, n, r) ==
  \A i \in 0 .. Len(opts) - 1 :
    /\ i < r[1] => NumberAt(opts, beyond, i) < n
    /\ i > r[2] => NumberAt(opts, beyond, i) > n

Stops(opts, beyond, n, stop) ==
  \/ stop.at = -1 /\ n \notin Numbers(opts)
  \/ /\ stop.at \in 0 .. Len(opts) /\ stop.min \in 0 .. stop.at
     /\ NumberAt(opts, beyond, stop.at) = n
     /\ \A i \in 0 .. Len(opts) - 1 : i < stop.min => NumberAt(opts, beyond, i) < n
     /\ stop.at = Len(opts) => stop.min = Len(opts)

LEMMA BracketsGoOn ==
  ASSUME NEW opts \in Seq(Option), Ascending(opts),
         NEW beyond \in Memory, NEW n \in Nat,
         NEW r \in Ranges(opts), Brackets(opts, beyond, n, r), r[1] <= r[2]
  PROVE  /\ NumberAt(opts, beyond, Middle(r)) < n
              => Brackets(opts, beyond, n, <<Middle(r) + 1, r[2]>>)
         /\ NumberAt(opts, beyond, Middle(r)) > n
              => Brackets(opts, beyond, n, <<r[1], Middle(r) - 1>>)
         /\ NumberAt(opts, beyond, Middle(r)) = n
              => Stops(opts, beyond, n, [at |-> Middle(r), min |-> r[1]])
<1> DEFINE a == r[1]
           b == r[2]
           m == Middle(r)
           l == Len(opts)
           num(i) == NumberAt(opts, beyond, i)
<1>1. /\ a \in 0 .. l + 1 /\ b \in -1 .. l /\ l \in Nat
      /\ m \in a .. b /\ m \in 0 .. l /\ (m = l => a = l)
  BY RangeType
<1>2. \A i \in 0 .. l - 1 : (i < a => num(i) < n) /\ (i > b => num(i) > n)
  BY DEF Brackets
<1>3. /\ \A i \in 0 .. l : num(i) \in Nat
      /\ \A i, j \in 0 .. l - 1 : i <= j => num(i) <= num(j)
  BY NumberInside, NumbersAscend
<1> HIDE DEF a, b, m, l, num
<1>4. ASSUME num(m) < n, NEW i \in 0 .. l - 1, i < m + 1 PROVE num(i) < n
  <2>1. CASE m = l
    BY <1>1, <1>2, <2>1
  <2>2. CASE m # l
    <3>1. m \in 0 .. l - 1 /\ i <= m /\ i \in 0 .. l
      BY <1>1, <1>4, <2>2
    <3>2. num(i) <= num(m) /\ num(i) \in Nat /\ num(m) \in Nat
      BY <1>1, <1>3, <3>1
    <3> QED
      BY <1>4, <3>2
  <2> QED
    BY <2>1, <2>2
<1>5. ASSUME num(m) > n, NEW i \in 0 .. l - 1, i > m - 1 PROVE num(i) > n
  <2>1. m \in 0 .. l - 1 /\ m <= i /\ i \in 0 .. l
    BY <1>1, <1>5
  <2>2. num(m) <= num(i) /\ num(i) \in Nat /\ num(m) \in Nat
    BY <1>1, <1>3, <2>1
  <2> QED
    BY <1>5, <2>2
<1>6. ASSUME num(m) < n PROVE Brackets(opts, beyond, n, <<m + 1, b>>)
  <2>1. <<m + 1, b>>[1] = m + 1 /\ <<m + 1, b>>[2] = b
    OBVIOUS
  <2> QED
    BY <1>2, <1>4, <1>6, <2>1 DEF Brackets, l, num
<1>7. ASSUME num(m) > n PROVE Brackets(opts, beyond, n, <<a, m - 1>>)
  <2>1. <<a, m - 1>>[1] = a /\ <<a, m - 1>>[2] = m - 1
    OBVIOUS
  <2> QED
    BY <1>2, <1>5, <1>7, <2>1 DEF Brackets, l, num
<1>8. ASSUME num(m) = n PROVE Stops(opts, beyond, n, [at |-> m, min |-> a])
  <2>1. a \in 0 .. m
    BY <1>1
  <2> QED
    BY <1>1, <1>2, <1>8, <2>1 DEF Stops, l, num
<1> QED
  BY <1>6, <1>7, <1>8 DEF a, b, m, num

LEMMA SearchStops ==
  ASSUME NEW opts \in Seq(Option), Ascending(opts),
         NEW beyond \in Memory, NEW n \in Nat
  PROVE  Stops(opts, beyond, n, Search(opts, beyond, n))
<1> DEFINE f == Searcher(opts, beyond, n)
           X == {r \in Ranges(opts) :
                   Brackets(opts, beyond, n, r) => Stops(opts, beyond, n, f[r])}
<1>1. \A r \in Ranges(opts) : f[r] = SearchStep(opts, beyond, n, f, r)
  <2>1. f = [r \in Ranges(opts) |-> SearchStep(opts, beyond, n, f, r)]
    BY SearcherUnfolds
  <2> HIDE DEF f
  <2> QED
    BY <2>1
<1> HIDE DEF f
<1>2. ASSUME NEW r \in Ranges(opts),
             r[1] <= r[2] => /\ <<Middle(r) + 1, r[2]>> \in X
                             /\ <<r[1], Middle(r) - 1>> \in X
      PROVE  r \in X
  <2> SUFFICES ASSUME Brackets(opts, beyond, n, r) PROVE Stops(opts, beyond, n, f[r])
    OBVIOUS
  <2>1. CASE r[1] > r[2]
    <3>1. f[r] = [at |-> -1, min |-> r[1]]
      BY <1>1, <2>1 DEF SearchStep
    <3>2. ASSUME NEW i \in 0 .. Len(opts) - 1 PROVE NumberAt(opts, beyond, i) # n
      <4>1. /\ r[1] \in 0 .. Len(opts) + 1 /\ r[2] \in -1 .. Len(opts)
        BY RangeType
      <4>2. i < r[1] \/ i > r[2]
        BY <2>1, <4>1
      <4>3. NumberAt(opts, beyond, i) \in Nat
        BY NumberInside
      <4>4. NumberAt(opts, beyond, i) < n \/ NumberAt(opts, beyond, i) > n
        BY <4>2 DEF Brackets
      <4> HIDE DEF f
      <4> QED
        BY <4>3, <4>4
    <3>3. n \notin Numbers(opts)
      BY <3>2, NumbersAreThere
    <3> QED
      BY <3>1, <3>3 DEF Stops
  <2>2. CASE ~(r[1] > r[2])
    <3> DEFINE m == NumberAt(opts, beyond, Middle(r))
    <3>1. r[1] <= r[2] /\ Middle(r) \in 0 .. Len(opts)
      BY <2>2, RangeWidth, RangeType
    <3>2. m \in Nat
      BY <3>1, NumberInside
    <3>3. f[r] = IF m < n THEN f[<<Middle(r) + 1, r[2]>>]
                 ELSE IF m > n THEN f[<<r[1], Middle(r) - 1>>]
                 ELSE [at |-> Middle(r), min |-> r[1]]
      BY <1>1, <2>2 DEF SearchStep
    <3>4. /\ m < n => Brackets(opts, beyond, n, <<Middle(r) + 1, r[2]>>)
          /\ m > n => Brackets(opts, beyond, n, <<r[1], Middle(r) - 1>>)
          /\ m = n => Stops(opts, beyond, n, [at |-> Middle(r), min |-> r[1]])
      BY <3>1, BracketsGoOn
    <3>5. /\ m < n => Stops(opts, beyond, n, f[<<Middle(r) + 1, r[2]>>])
          /\ m > n => Stops(opts, beyond, n, f[<<r[1], Middle(r) - 1>>])
      BY <1>2, <3>1, <3>4
    <3>6. m < n \/ m > n \/ m = n
      BY <3>2
    <3>7. ~(m < n /\ m > n) /\ ~(m = n /\ m < n) /\ ~(m = n /\ m > n)
      BY <3>2
    <3> HIDE DEF m
    <3> QED
      BY <3>3, <3>4, <3>5, <3>6, <3>7
  <2> QED
    BY <2>1, <2>2
<1>3. \A r \in Ranges(opts) : r \in X
  <2> HIDE DEF X
  <2> QED
    BY <1>2, RangeInduction
<1> DEFINE all == <<0, Len(opts)>>
<1>4. all \in Ranges(opts) /\ all[1] = 0 /\ all[2] = Len(opts) /\ Len(opts) \in Nat
  BY DEF Ranges
<1>5. Brackets(opts, beyond, n, all)
  <2> HIDE DEF all
  <2> QED
    BY <1>4 DEF Brackets
<1>6. Stops(opts, beyond, n, f[all])
  BY <1>3, <1>4, <1>5
<1> QED
  BY <1>6, SearchSearcher DEF f

LEMMA MinOf ==
  ASSUME NEW a \in Int, NEW S, S # {}, \A x \in S : x \in Int /\ x >= a
  PROVE  Min(S) \in S /\ \A x \in S : Min(S) <= x
<1> DEFINE T == {x - a : x \in S}
<1>1. T \subseteq Nat /\ T # {}
  OBVIOUS
<1>2. PICK t \in T : \A u \in T : t <= u
  <2> HIDE DEF T
  <2> QED
    BY <1>1, LeastNumber
<1>3. PICK x \in S : t = x - a
  OBVIOUS
<1>4. \A y \in S : x <= y
  <2> TAKE y \in S
  <2>1. t <= y - a
    BY <1>2
  <2> QED
    BY <1>3, <2>1
<1> QED
  BY <1>4 DEF Min

LEMMA MaxOf ==
  ASSUME NEW b \in Int, NEW S, S # {}, \A x \in S : x \in Int /\ x <= b
  PROVE  Max(S) \in S /\ \A x \in S : x <= Max(S)
<1> DEFINE T == {b - x : x \in S}
<1>1. T \subseteq Nat /\ T # {}
  OBVIOUS
<1>2. PICK t \in T : \A u \in T : t <= u
  <2> HIDE DEF T
  <2> QED
    BY <1>1, LeastNumber
<1>3. PICK x \in S : t = b - x
  OBVIOUS
<1>4. \A y \in S : x >= y
  <2> TAKE y \in S
  <2>1. t <= b - y
    BY <1>2
  <2> QED
    BY <1>3, <2>1
<1>5. Max(S) \in S /\ \A y \in S : Max(S) >= y
  BY <1>4 DEF Max
<1> QED
  BY <1>5

(* The options with a number, counted; they lie side by side.                *)
CountOf(opts, n) == Cardinality({i \in DOMAIN opts : opts[i].number = n})

LEMMA CountBetween ==
  ASSUME NEW opts \in Seq(Option), NEW beyond \in Memory, NEW n,
         NEW s \in 0 .. Len(opts), NEW e \in s .. Len(opts),
         \A i \in 0 .. Len(opts) - 1 : NumberAt(opts, beyond, i) = n <=> i \in s .. e - 1
  PROVE  CountOf(opts, n) = e - s
<1>1. Len(opts) \in Nat /\ DOMAIN opts = 1 .. Len(opts)
  OBVIOUS
<1>2. ASSUME NEW k \in 1 .. Len(opts) PROVE opts[k].number = n <=> k \in s + 1 .. e
  <2>1. k - 1 \in 0 .. Len(opts) - 1 /\ (k - 1) + 1 = k
    BY <1>1
  <2>2. NumberAt(opts, beyond, k - 1) = opts[k].number
    BY <2>1, NumberInside
  <2>3. k - 1 \in s .. e - 1 <=> k \in s + 1 .. e
    BY <1>1
  <2> QED
    BY <2>1, <2>2, <2>3
<1>3. {i \in DOMAIN opts : opts[i].number = n} = s + 1 .. e
  <2>1. s + 1 .. e \subseteq 1 .. Len(opts)
    BY <1>1
  <2> QED
    BY <1>1, <1>2, <2>1
<1>4. Cardinality(s + 1 .. e) = IF s + 1 > e THEN 0 ELSE e - (s + 1) + 1
  <2>1. s + 1 \in Int /\ e \in Int
    BY <1>1
  <2> QED
    BY <2>1, FS_Interval
<1>5. (IF s + 1 > e THEN 0 ELSE e - (s + 1) + 1) = e - s
  BY <1>1
<1> QED
  BY <1>3, <1>4, <1>5 DEF CountOf

(* What lies behind the list and goes on with a number, counted.             *)
StaleOf(behind, n) ==
  Cardinality({k \in DOMAIN behind : \A j \in 1 .. k : behind[j] = n})

LEMMA StaleBetween ==
  ASSUME NEW b \in Seq(Nat), NEW n, NEW s \in 0 .. Len(b),
         \A j \in 1 .. s : b[j] = n, s < Len(b) => b[s + 1] # n
  PROVE  StaleOf(b, n) = s
<1>1. {k \in DOMAIN b : \A j \in 1 .. k : b[j] = n} = 1 .. s
  <2>1. ASSUME NEW k \in DOMAIN b, \A j \in 1 .. k : b[j] = n PROVE k \in 1 .. s
    <3>1. k > s => s < Len(b) /\ s + 1 \in 1 .. k
      OBVIOUS
    <3> QED
      BY <2>1, <3>1
  <2>2. ASSUME NEW k \in 1 .. s PROVE k \in DOMAIN b /\ \A j \in 1 .. k : b[j] = n
    <3>1. k \in DOMAIN b /\ \A j \in 1 .. k : j \in 1 .. s
      OBVIOUS
    <3> QED
      BY <3>1
  <2> QED
    BY <2>1, <2>2
<1>2. Cardinality(1 .. s) = s
  <2>1. Cardinality(1 .. s) = IF 1 > s THEN 0 ELSE s - 1 + 1
    BY FS_Interval
  <2> QED
    BY <2>1
<1> QED
  BY <1>1, <1>2 DEF StaleOf

(* From where the search stopped inside the list: the first of that number   *)
(* is found, and the end of them, wherever it lies.                          *)
LEMMA QuantityCounts ==
  ASSUME NEW opts \in Seq(Option), Ascending(opts),
         NEW beyond \in Memory, NEW n \in Nat,
         NEW stop, Stops(opts, beyond, n, stop),
         stop.at # -1, stop.at # Len(opts)
  PROVE  Quantity(opts, beyond, n, stop) =
           Cardinality({i \in DOMAIN opts : opts[i].number = n})
             + IF Last(opts).number = n THEN StaleOf(beyond.behind, n) ELSE 0
<1> DEFINE l == Len(opts)
           b == beyond.behind
           lb == Len(beyond.behind)
           at == stop.at
           min == stop.min
           num(i) == NumberAt(opts, beyond, i)
           differs(i) == num(i) # n
           below == {i \in min - 1 .. at - 1 : i = min - 1 \/ differs(i)}
           start == Max(below) + 1
           above == {i \in start .. l + lb : differs(i)}
           end == Min(above)
           all == Cardinality({i \in DOMAIN opts : opts[i].number = n})
<1>1. /\ l \in Nat /\ at \in 0 .. l - 1 /\ min \in 0 .. at /\ num(at) = n
      /\ \A i \in 0 .. l - 1 : i < min => num(i) < n
  <2>1. /\ Len(opts) \in Nat /\ stop.at \in 0 .. Len(opts) /\ stop.min \in 0 .. stop.at
        /\ NumberAt(opts, beyond, stop.at) = n
        /\ \A i \in 0 .. Len(opts) - 1 : i < stop.min => NumberAt(opts, beyond, i) < n
    BY DEF Stops
  <2> QED
    BY <2>1
<1>2. Quantity(opts, beyond, n, stop) = end - start
  BY DEF Quantity
<1>3. /\ \A i \in 0 .. l : num(i) \in Nat
      /\ \A i, j \in 0 .. l - 1 : i <= j => num(i) <= num(j)
      /\ \A j \in 1 .. lb : num(l + j - 1) = b[j]
      /\ num(l + lb) = -1
  BY NumberInside, NumbersAscend
<1>30. b \in Seq(Nat) /\ lb = Len(b) /\ lb \in Nat
  BY DEF Memory
<1>4. num(l - 1) = Last(opts).number
  <2>1. l - 1 \in 0 .. l - 1 /\ (l - 1) + 1 = l
    BY <1>1
  <2>2. num(l - 1) = opts[l].number
    BY <2>1, NumberInside
  <2> QED
    BY <2>2 DEF Last
<1> HIDE DEF num, at, min, l, b, lb
<1>5. Max(below) \in below /\ \A i \in below : i <= Max(below)
  <2>1. min - 1 \in below /\ at - 1 \in Int
    BY <1>1
  <2>2. \A i \in below : i \in Int /\ i <= at - 1
    BY <1>1
  <2> HIDE DEF below
  <2> QED
    BY <2>1, <2>2, MaxOf
<1>6. start \in min .. at /\ (start = min \/ num(start - 1) # n)
  <2> DEFINE x == Max(below)
  <2>1. x \in min - 1 .. at - 1 /\ (x = min - 1 \/ num(x) # n)
    BY <1>5
  <2>2. start = x + 1
    OBVIOUS
  <2> HIDE DEF x, start
  <2>3. start - 1 = x
    BY <1>1, <2>1, <2>2
  <2> QED
    BY <1>1, <2>1, <2>2, <2>3
<1>7. \A i \in start .. at - 1 : num(i) = n
  <2> DEFINE x == Max(below)
  <2>1. start = x + 1 /\ x \in Int
    <3>1. x \in min - 1 .. at - 1
      BY <1>5
    <3> HIDE DEF x
    <3> QED
      BY <1>1, <3>1 DEF x
  <2> SUFFICES ASSUME NEW i \in start .. at - 1, num(i) # n PROVE FALSE
    OBVIOUS
  <2>2. i \in min - 1 .. at - 1
    <3> HIDE DEF start
    <3> QED
      BY <1>1, <1>6
  <2>3. i <= x
    BY <1>5, <2>2
  <2> HIDE DEF x, start
  <2> QED
    BY <1>1, <1>6, <2>1, <2>3
<1> HIDE DEF start
<1>8. end \in above /\ \A i \in above : end <= i
  <2>1. l + lb \in above /\ start \in Int
    <3>1. num(l + lb) # n
      BY <1>3
    <3> QED
      BY <1>1, <1>6, <1>30, <3>1
  <2>2. \A i \in above : i \in Int /\ i >= start
    BY <1>1, <1>6, <1>30
  <2> HIDE DEF above
  <2> QED
    BY <2>1, <2>2, MinOf
<1>9. /\ end \in start .. l + lb /\ num(end) # n
      /\ \A i \in start .. end - 1 : num(i) = n
  <2>1. end \in start .. l + lb /\ num(end) # n
    BY <1>8
  <2> HIDE DEF end
  <2>2. ASSUME NEW i \in start .. end - 1, num(i) # n PROVE FALSE
    <3>1. i \in above
      BY <1>1, <1>6, <1>30, <2>1, <2>2
    <3>2. end <= i
      BY <1>8, <3>1 DEF end
    <3> QED
      BY <1>1, <1>6, <1>30, <2>1, <3>2
  <2> QED
    BY <2>1, <2>2
<1> HIDE DEF end
<1>10. end > at
  <2>1. CASE end \in start .. at - 1
    BY <1>7, <1>9, <2>1
  <2>2. CASE end = at
    BY <1>1, <1>9, <2>2
  <2> QED
    BY <1>1, <1>6, <1>9, <1>30, <2>1, <2>2
<1>11. \A i \in 0 .. l - 1 : i < start => num(i) # n
  <2> TAKE i \in 0 .. l - 1
  <2> SUFFICES ASSUME i < start PROVE num(i) # n
    OBVIOUS
  <2>1. num(i) \in Nat
    BY <1>1, <1>3
  <2>2. CASE start = min
    BY <1>1, <2>1, <2>2
  <2>3. CASE start # min
    <3>1. start - 1 \in 0 .. l - 1 /\ i <= start - 1 /\ start - 1 <= at
          /\ start - 1 \in 0 .. l
      BY <1>1, <1>6, <2>3
    <3>2. num(start - 1) # n /\ num(start - 1) <= n /\ num(i) <= num(start - 1)
      BY <1>1, <1>3, <1>6, <2>3, <3>1
    <3>3. num(start - 1) \in Nat
      BY <1>3, <3>1
    <3> QED
      BY <2>1, <3>2, <3>3
  <2> QED
    BY <2>2, <2>3
<1>12. CASE end <= l - 1
  <2>1. num(end) > n /\ num(end) \in Nat /\ end \in 0 .. l - 1
    <3>1. end \in 0 .. l - 1 /\ at <= end /\ end \in 0 .. l
      BY <1>1, <1>6, <1>9, <1>10, <1>12
    <3>2. num(end) \in Nat /\ num(at) <= num(end)
      BY <1>1, <1>3, <3>1
    <3> QED
      BY <1>1, <1>9, <3>1, <3>2
  <2>2. \A i \in 0 .. l - 1 : i >= end => num(i) > n
    <3> TAKE i \in 0 .. l - 1
    <3> SUFFICES ASSUME i >= end PROVE num(i) > n
      OBVIOUS
    <3>1. num(end) <= num(i) /\ num(i) \in Nat
      BY <1>1, <1>3, <2>1
    <3> QED
      BY <2>1, <3>1
  <2>3. \A i \in 0 .. l - 1 : num(i) = n <=> i \in start .. end - 1
    <3> TAKE i \in 0 .. l - 1
    <3>1. CASE i < start
      BY <1>6, <1>1, <1>11, <3>1
    <3>2. CASE i >= end
      <4>1. num(i) > n
        BY <2>2, <3>2
      <4>2. num(i) # n
        BY <4>1
      <4> QED
        BY <1>1, <1>6, <2>1, <3>2, <4>2
    <3>3. CASE i \in start .. end - 1
      BY <1>9, <3>3
    <3> QED
      BY <1>1, <1>6, <2>1, <3>1, <3>2, <3>3
  <2>4. all = end - start
    <3>1. start \in 0 .. Len(opts) /\ end \in start .. Len(opts)
      BY <1>1, <1>6, <1>9, <1>12 DEF l
    <3>2. \A i \in 0 .. Len(opts) - 1 :
            NumberAt(opts, beyond, i) = n <=> i \in start .. end - 1
      BY <2>3 DEF l, num
    <3>3. CountOf(opts, n) = end - start
      BY <3>1, <3>2, CountBetween
    <3> QED
      BY <3>3 DEF CountOf
  <2>5. num(l - 1) # n
    <3>1. l - 1 \in 0 .. l - 1 /\ l - 1 >= end
      BY <1>1, <1>12
    <3>2. num(l - 1) > n
      BY <2>2, <3>1
    <3> QED
      BY <3>2
  <2> HIDE DEF all
  <2> QED
    BY <1>1, <1>2, <1>4, <1>6, <2>1, <2>4, <2>5 DEF all
<1>13. CASE end \in l .. l + lb
  <2>1. \A i \in 0 .. l - 1 : num(i) = n <=> i \in start .. l - 1
    <3> TAKE i \in 0 .. l - 1
    <3>1. CASE i < start
      BY <1>6, <1>1, <1>11, <3>1
    <3>2. CASE i >= start
      BY <1>1, <1>6, <1>9, <1>13, <1>30, <3>2
    <3> QED
      BY <1>1, <1>6, <3>1, <3>2
  <2>2. all = l - start
    <3>1. start \in 0 .. Len(opts) /\ l \in start .. Len(opts)
      BY <1>1, <1>6 DEF l
    <3>2. \A i \in 0 .. Len(opts) - 1 :
            NumberAt(opts, beyond, i) = n <=> i \in start .. l - 1
      BY <2>1 DEF l, num
    <3>3. CountOf(opts, n) = l - start
      BY <3>1, <3>2, CountBetween
    <3> QED
      BY <3>3 DEF CountOf
  <2>3. num(l - 1) = n
    <3>1. l - 1 \in 0 .. l - 1 /\ l - 1 \in start .. l - 1
      BY <1>1, <1>6
    <3> QED
      BY <2>1, <3>1
  <2>4. StaleOf(b, n) = end - l
    <3> DEFINE s == end - l
    <3>1. s \in 0 .. Len(b)
      BY <1>1, <1>13, <1>30
    <3>2. ASSUME NEW j \in 1 .. s PROVE b[j] = n
      <4>1. j \in 1 .. lb /\ l + j - 1 \in start .. end - 1
        BY <1>1, <1>6, <1>13, <1>30
      <4> QED
        BY <1>3, <1>9, <4>1
    <3>3. ASSUME s < Len(b) PROVE b[s + 1] # n
      <4>1. s + 1 \in 1 .. lb /\ l + (s + 1) - 1 = end
        BY <1>1, <1>13, <1>30, <3>1, <3>3
      <4>2. num(l + (s + 1) - 1) = b[s + 1]
        BY <1>3, <4>1
      <4> QED
        BY <1>9, <4>1, <4>2
    <3> HIDE DEF s
    <3>4. StaleOf(b, n) = s
      BY <1>30, <3>1, <3>2, <3>3, StaleBetween
    <3> QED
      BY <3>4 DEF s
  <2> HIDE DEF all
  <2>5. end - start = all + StaleOf(b, n)
    BY <1>1, <1>6, <1>13, <1>30, <2>2, <2>4
  <2> QED
    BY <1>2, <1>4, <2>3, <2>5 DEF all, b
<1> QED
  BY <1>1, <1>6, <1>9, <1>12, <1>13, <1>30

(* Whatever lies around the options and whichever way std::sort orders equal *)
(* ones, find_options returns an option of the number if there is one, and   *)
(* counts all of them and, where they are the last of the list, those that   *)
(* lie next to them behind it; if there is none it returns nothing or, for a *)
(* number greater than all, the element behind the last.                     *)
THEOREM FindsWhatIsThere == Spec => []FindNeverMisses
<1>1. TypeOK => FindNeverMisses
  <2> SUFFICES ASSUME TypeOK, NEW opts \in Sortings(options), NEW beyond \in Beyond,
                      NEW n \in Numbers(options) \cup {beyond.before}
                                                 \cup Range(beyond.behind)
               PROVE  LET found == FindOptions(opts, beyond, n)
                          all == Cardinality({i \in DOMAIN opts : opts[i].number = n})
                      IN  IF n \in Numbers(opts)
                            THEN /\ found.at \in 0 .. Len(opts) - 1
                                 /\ opts[found.at + 1].number = n
                                 /\ found.quantity =
                                      all + IF Last(opts).number = n
                                              THEN StaleOf(beyond.behind, n) ELSE 0
                            ELSE found.at # -1 => /\ found.at = Len(opts)
                                                  /\ \A m \in Numbers(opts) : m < n
    BY DEF FindNeverMisses, StaleOf
  <2> DEFINE stop == Search(opts, beyond, n)
             found == FindOptions(opts, beyond, n)
             num(i) == NumberAt(opts, beyond, i)
             l == Len(opts)
  <2>1. options \in Seq(Option) /\ beyond \in Memory
    BY PacketAssumption DEF TypeOK, Memory
  <2>2. opts \in Seq(Option) /\ Ascending(opts) /\ Numbers(opts) = Numbers(options)
    BY <2>1, SortingsAscend, SortingsRearrange, RearrangedKeeps DEF Rearranged
  <2>3. Numbers(opts) = {num(i) : i \in 0 .. l - 1}
    BY <2>1, <2>2, NumbersAreThere
  <2>4. /\ \A i \in 0 .. l - 1 : num(i) = opts[i + 1].number /\ num(i) \in Nat
        /\ l \in Nat
    BY <2>1, <2>2, NumberInside
  <2>5. n \in Nat
    <3>1. \A m \in Numbers(opts) : m \in Nat
      BY <2>3, <2>4
    <3>2. beyond.before \in Nat /\ \A m \in Range(beyond.behind) : m \in Nat
      <4>1. beyond.before \in Nat /\ beyond.behind \in Seq(Nat)
        BY <2>1 DEF Memory
      <4> HIDE DEF stop, found, num, l
      <4> QED
        BY <4>1 DEF Range
    <3> QED
      BY <2>2, <3>1, <3>2
  <2>6. Stops(opts, beyond, n, stop)
    BY <2>1, <2>2, <2>5, SearchStops
  <2>7. /\ found.at = stop.at
        /\ stop.at # -1 => found.quantity = Quantity(opts, beyond, n, stop)
    BY DEF FindOptions
  <2>8. stop.at # -1 =>
          /\ stop.at \in 0 .. l /\ num(stop.at) = n
          /\ \A i \in 0 .. l - 1 : i < stop.min => num(i) < n
          /\ stop.at = l => stop.min = l
    BY <2>6 DEF Stops
  <2>9. stop.at = -1 => n \notin Numbers(opts)
    BY <2>4, <2>6 DEF Stops
  <2>10. ASSUME stop.at = l PROVE \A i \in 0 .. l - 1 : num(i) < n
    BY <2>4, <2>8, <2>10
  <2>11. CASE n \in Numbers(opts)
    <3>1. stop.at # l
      <4> SUFFICES ASSUME stop.at = l PROVE FALSE
        OBVIOUS
      <4>1. PICK i \in 0 .. l - 1 : num(i) = n
        BY <2>3, <2>11
      <4>2. num(i) < n
        BY <2>10
      <4> HIDE DEF num
      <4> QED
        BY <2>5, <4>1, <4>2
    <3>2. stop.at \in 0 .. l - 1
      <4> HIDE DEF stop, l, num
      <4> QED
        BY <2>4, <2>8, <2>9, <2>11, <3>1
    <3>3. opts[stop.at + 1].number = n
      BY <2>4, <2>8, <2>9, <2>11, <3>2
    <3>4. stop.at # -1
      BY <2>9, <2>11
    <3>5. Quantity(opts, beyond, n, stop) =
            Cardinality({i \in DOMAIN opts : opts[i].number = n})
              + IF Last(opts).number = n THEN StaleOf(beyond.behind, n) ELSE 0
      BY <2>1, <2>2, <2>5, <2>6, <3>1, <3>4, QuantityCounts
    <3> HIDE DEF stop, found
    <3> QED
      BY <2>7, <2>11, <3>2, <3>3, <3>4, <3>5 DEF found
  <2>12. CASE n \notin Numbers(opts)
    <3> SUFFICES ASSUME stop.at # -1
                 PROVE  stop.at = l /\ \A m \in Numbers(opts) : m < n
      BY <2>7, <2>12
    <3>1. stop.at = l
      <4>1. stop.at \in 0 .. l - 1 => n \in Numbers(opts)
        BY <2>3, <2>8
      <4> HIDE DEF stop, l, num
      <4> QED
        BY <2>4, <2>8, <2>12, <4>1
    <3> QED
      BY <2>3, <2>10, <3>1
  <2> QED
    BY <2>11, <2>12
<1> QED
  BY <1>1, PacketTypes, PTL
=============================================================================
