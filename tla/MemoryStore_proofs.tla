-------------------------- MODULE MemoryStore_proofs --------------------------
(* Proofs about MemoryStore: the slices stay in order, keep no serial twice  *)
(* and stay within their bound, and what prune and pruneRevoked do to them   *)
(* is what SessionStore does to its sets, for every bound and every history  *)
(* of calls. So SessionStore's theorems hold of the slices.                  *)
EXTENDS MemoryStore, FiniteSetTheorems, FunctionTheorems, TLAPS

-----------------------------------------------------------------------------
(* Finite sets, one member after the other.                                 *)

\* The members of P up to x.
UpTo(P, R, x) == {y \in P : <<y, x>> \in R \/ y = x}

\* A finite set can be listed in any strict total order of it: each member at the
\* number of those up to it.
LEMMA ListedInOrder ==
  ASSUME NEW P, IsFiniteSet(P), NEW R,
         \A x \in P : <<x, x>> \notin R,
         \A x, y, z \in P : <<x, y>> \in R /\ <<y, z>> \in R => <<x, z>> \in R,
         \A x, y \in P : x # y => <<x, y>> \in R \/ <<y, x>> \in R
  PROVE  \E f \in [1..Cardinality(P) -> P] :
           \A i, j \in 1..Cardinality(P) : i < j => <<f[i], f[j]>> \in R
<1> DEFINE n == Cardinality(P)
           rank == [x \in P |-> Cardinality(UpTo(P, R, x))]
<1>1. n \in Nat
  BY FS_CardinalityType
<1>2. ASSUME NEW x \in P
      PROVE  IsFiniteSet(UpTo(P, R, x)) /\ Cardinality(UpTo(P, R, x)) \in 1..n
  <2>1. UpTo(P, R, x) \in SUBSET P /\ x \in UpTo(P, R, x)
    BY DEF UpTo
  <2>2. IsFiniteSet(UpTo(P, R, x)) /\ Cardinality(UpTo(P, R, x)) <= n
    BY <2>1, FS_Subset
  <2>3. Cardinality(UpTo(P, R, x)) \in Nat /\ Cardinality(UpTo(P, R, x)) # 0
    BY <2>1, <2>2, FS_CardinalityType, FS_EmptySet
  <2> QED  BY <1>1, <2>2, <2>3
<1>3. ASSUME NEW x \in P, NEW y \in P, <<x, y>> \in R
      PROVE  Cardinality(UpTo(P, R, x)) < Cardinality(UpTo(P, R, y))
  <2>1. UpTo(P, R, x) \subseteq UpTo(P, R, y)
    BY <1>3 DEF UpTo
  <2>2. y \in UpTo(P, R, y) /\ y \notin UpTo(P, R, x)
    BY <1>3 DEF UpTo
  <2>3. /\ Cardinality(UpTo(P, R, x)) <= Cardinality(UpTo(P, R, y))
        /\ Cardinality(UpTo(P, R, x)) # Cardinality(UpTo(P, R, y))
    BY <1>2, <2>1, <2>2, FS_Subset
  <2> QED  BY <1>2, <2>3
<1>4. rank \in [P -> 1..n] /\ \A x, y \in P : <<x, y>> \in R => rank[x] < rank[y]
  BY <1>2, <1>3
<1> HIDE DEF rank
<1>5. ASSUME NEW x \in P, NEW y \in P, rank[x] = rank[y] PROVE x = y
  <2>1. rank[x] \in Int /\ rank[y] \in Int
    BY <1>1, <1>4
  <2>2. ~(rank[x] < rank[y]) /\ ~(rank[y] < rank[x])
    BY <1>5, <2>1
  <2>3. <<x, y>> \notin R /\ <<y, x>> \notin R
    BY <1>4, <2>2
  <2> QED  BY <2>3
<1>6. rank \in Injection(P, 1..n)
  BY <1>4, <1>5, Fun_IsInj
<1>7. IsFiniteSet(1..n) /\ Cardinality(1..n) = n
  BY <1>1, FS_Interval
<1>8. rank \in Surjection(P, 1..n)
  BY <1>6, <1>7, FS_Injection
<1>9. \A i \in 1..n : \E x \in P : rank[x] = i
  BY <1>8, Fun_SurjectionProperties
<1> DEFINE f == [i \in 1..n |-> CHOOSE x \in P : rank[x] = i]
<1>10. f \in [1..n -> P] /\ \A i \in 1..n : rank[f[i]] = i
  BY <1>9
<1> HIDE DEF f
<1>11. ASSUME NEW i \in 1..n, NEW j \in 1..n, i < j PROVE <<f[i], f[j]>> \in R
  <2>1. f[i] \in P /\ f[j] \in P /\ rank[f[i]] = i /\ rank[f[j]] = j
    BY <1>10
  <2>2. i \in Int /\ j \in Int /\ ~(j < i) /\ i # j
    BY <1>1, <1>11
  <2>3. <<f[j], f[i]>> \notin R
    BY <1>4, <2>1, <2>2
  <2>4. f[i] # f[j]
    BY <2>1, <2>2
  <2> QED  BY <2>1, <2>3, <2>4
<1> QED  BY <1>10, <1>11

\* A listing without repetitions misses nobody.
LEMMA ListingIsComplete ==
  ASSUME NEW P, IsFiniteSet(P), NEW f \in [1..Cardinality(P) -> P],
         \A i, j \in 1..Cardinality(P) : f[i] = f[j] => i = j
  PROVE  \A x \in P : \E i \in 1..Cardinality(P) : f[i] = x
<1>1. Cardinality(P) \in Nat
  BY FS_CardinalityType
<1>2. f \in Injection(1..Cardinality(P), P)
  BY Fun_IsInj
<1>3. Cardinality(1..Cardinality(P)) = Cardinality(P)
  BY <1>1, FS_Interval
<1>4. IsFiniteSet(1..Cardinality(P))
  BY <1>1, FS_Interval
<1>5. f \in Surjection(1..Cardinality(P), P)
  BY <1>2, <1>3, <1>4, FS_Injection
<1> QED  BY <1>5 DEF Surjection

\* A one-to-one image has as many members.
LEMMA SameNumber ==
  ASSUME NEW S, NEW T, IsFiniteSet(S), NEW f \in [S -> T],
         \A a, b \in S : f[a] = f[b] => a = b,
         \A t \in T : \E s \in S : f[s] = t
  PROVE  IsFiniteSet(T) /\ Cardinality(T) = Cardinality(S)
<1>1. f \in Bijection(S, T)
  BY Fun_IsBij
<1> QED  BY <1>1, FS_Bijection, Fun_ExistsBij

-----------------------------------------------------------------------------
(* Keep: a part of a slice, in the order of the slice.                      *)

LEMMA InOrderListsAll ==
  ASSUME NEW P \in SUBSET Int, IsFiniteSet(P)
  PROVE  /\ Cardinality(P) \in Nat
         /\ InOrder(P) \in [1..Cardinality(P) -> P]
         /\ \A i, j \in 1..Cardinality(P) : i < j => InOrder(P)[i] < InOrder(P)[j]
         /\ \A x \in P : \E i \in 1..Cardinality(P) : InOrder(P)[i] = x
<1> DEFINE R == {p \in P \X P : p[1] < p[2]}
           n == Cardinality(P)
<1>1. n \in Nat
  BY FS_CardinalityType
<1>2. \A x, y \in P : <<x, y>> \in R <=> x < y
  OBVIOUS
<1> HIDE DEF R
<1>3. \E f \in [1..n -> P] : \A i, j \in 1..n : i < j => <<f[i], f[j]>> \in R
  <2>1. \A x \in P : <<x, x>> \notin R
    BY <1>2
  <2>2. \A x, y, z \in P : <<x, y>> \in R /\ <<y, z>> \in R => <<x, z>> \in R
    BY <1>2
  <2>3. \A x, y \in P : x # y => <<x, y>> \in R \/ <<y, x>> \in R
    BY <1>2
  <2> QED  BY <2>1, <2>2, <2>3, ListedInOrder
<1>4. \E f \in [1..n -> P] : \A i, j \in 1..n : i < j => f[i] < f[j]
  BY <1>2, <1>3
<1>5. InOrder(P) \in [1..n -> P] /\ \A i, j \in 1..n : i < j => InOrder(P)[i] < InOrder(P)[j]
  BY <1>4 DEF InOrder
<1>6. ASSUME NEW i \in 1..n, NEW j \in 1..n, InOrder(P)[i] = InOrder(P)[j] PROVE i = j
  <2>1. InOrder(P)[i] \in P /\ InOrder(P)[j] \in P
    BY <1>5
  <2>2. i \in Int /\ j \in Int
    BY <1>1
  <2>3. ~(InOrder(P)[i] < InOrder(P)[j]) /\ ~(InOrder(P)[j] < InOrder(P)[i])
    <3> HIDE DEF n
    <3>1. \A x, y \in P : x = y => ~(x < y) /\ ~(y < x)
      OBVIOUS
    <3> QED  BY <1>6, <2>1, <3>1
  <2>4. ~(i < j) /\ ~(j < i)
    BY <1>5, <2>3
  <2> QED  BY <2>2, <2>4
<1>7. \A x \in P : \E i \in 1..n : InOrder(P)[i] = x
  BY <1>5, <1>6, ListingIsComplete
<1> QED  BY <1>1, <1>5, <1>7

LEMMA KeepListsPart ==
  ASSUME NEW T, NEW list \in Seq(T), NEW P \in SUBSET DOMAIN list
  PROVE  /\ IsFiniteSet(P) /\ Cardinality(P) \in Nat
         /\ Keep(list, P) \in Seq(T) /\ Len(Keep(list, P)) = Cardinality(P)
         /\ DOMAIN Keep(list, P) = 1..Cardinality(P)
         /\ \E f \in [1..Cardinality(P) -> P] :
              /\ \A i, j \in 1..Cardinality(P) : i < j => f[i] < f[j]
              /\ \A x \in P : \E i \in 1..Cardinality(P) : f[i] = x
              /\ \A i \in 1..Cardinality(P) : Keep(list, P)[i] = list[f[i]]
<1> DEFINE n == Cardinality(P)
           f == InOrder(P)
<1>1. P \in SUBSET Int /\ P \subseteq 1..Len(list) /\ Len(list) \in Nat
  OBVIOUS
<1>2. IsFiniteSet(P)
  BY <1>1, FS_Interval, FS_Subset
<1>3. /\ n \in Nat /\ f \in [1..n -> P]
      /\ \A i, j \in 1..n : i < j => f[i] < f[j]
      /\ \A x \in P : \E i \in 1..n : f[i] = x
  BY <1>1, <1>2, InOrderListsAll
<1>4. Keep(list, P) = [j \in 1..n |-> list[f[j]]]
  BY DEF Keep
<1> HIDE DEF f, n
<1>5. \A j \in 1..n : list[f[j]] \in T
  BY <1>3
<1>6. Keep(list, P) \in Seq(T) /\ Len(Keep(list, P)) = n /\ DOMAIN Keep(list, P) = 1..n
  BY <1>3, <1>4, <1>5
<1> QED  BY <1>2, <1>3, <1>4, <1>6 DEF n

\* part is what list holds at the positions P, in the order of list.
PartOf(part, list, P) ==
    \E f \in [DOMAIN part -> P] :
        /\ \A i, j \in DOMAIN part : i < j => f[i] < f[j]
        /\ \A x \in P : \E i \in DOMAIN part : f[i] = x
        /\ \A i \in DOMAIN part : part[i] = list[f[i]]

\* Keep gives a part, with as many entries as were to stay.
LEMMA KeepGivesPart ==
  ASSUME NEW T, NEW list \in Seq(T), NEW P \in SUBSET DOMAIN list
  PROVE  /\ Keep(list, P) \in Seq(T)
         /\ Len(Keep(list, P)) = Cardinality(P)
         /\ PartOf(Keep(list, P), list, P)
<1>1. /\ Keep(list, P) \in Seq(T) /\ Len(Keep(list, P)) = Cardinality(P)
      /\ DOMAIN Keep(list, P) = 1..Cardinality(P)
  BY KeepListsPart
<1>2. PICK f \in [1..Cardinality(P) -> P] :
         /\ \A i, j \in 1..Cardinality(P) : i < j => f[i] < f[j]
         /\ \A x \in P : \E i \in 1..Cardinality(P) : f[i] = x
         /\ \A i \in 1..Cardinality(P) : Keep(list, P)[i] = list[f[i]]
  BY KeepListsPart
<1>3. PartOf(Keep(list, P), list, P)
  <2> HIDE DEF Keep
  <2> QED  BY <1>1, <1>2 DEF PartOf
<1> QED  BY <1>1, <1>3

\* A slice is all of itself.
LEMMA AllIsPart ==
  ASSUME NEW list
  PROVE  PartOf(list, list, DOMAIN list)
<1> DEFINE f == [i \in DOMAIN list |-> i]
<1>1. f \in [DOMAIN list -> DOMAIN list] /\ \A i \in DOMAIN list : f[i] = i
  OBVIOUS
<1> QED  BY <1>1 DEF PartOf

\* A part has the serials of its positions.
LEMMA PartSerials ==
  ASSUME NEW part, NEW list, NEW P, PartOf(part, list, P)
  PROVE  SerialsOf(part) = {list[i].serial : i \in P}
BY DEF PartOf, SerialsOf

-----------------------------------------------------------------------------
(* What a slice's entries have to do with each other and with the log.      *)

\* NewestFirst of any slice.
Descending(list) == \A i, j \in DOMAIN list : i < j => list[i].serial > list[j].serial

\* RevokedOnce of any slice.
Distinct(list) == \A i, j \in DOMAIN list : list[i].serial = list[j].serial => i = j

\* Each session has the expiry of the credential it was made for.
SessionsFollow(log, list) ==
    \A i \in DOMAIN list : /\ list[i].serial \in 1..Len(log)
                           /\ list[i].expires = log[list[i].serial].expires

\* Each revocation lasts as long as the credential it is for.
RevocationsFollow(log, list) ==
    \A i \in DOMAIN list : /\ list[i].serial \in 1..Len(log)
                           /\ list[i].until = log[list[i].serial].expires

\* Cutting a slice puts nothing out of order, and nothing in it twice.
LEMMA PartKeeps ==
  ASSUME NEW T, NEW part \in Seq(T), NEW list \in Seq(T), NEW P \in SUBSET DOMAIN list,
         NEW log, PartOf(part, list, P)
  PROVE  /\ Descending(list) => Descending(part)
         /\ Distinct(list) => Distinct(part)
         /\ SessionsFollow(log, list) => SessionsFollow(log, part)
         /\ RevocationsFollow(log, list) => RevocationsFollow(log, part)
<1>1. PICK f \in [DOMAIN part -> P] :
        /\ \A i, j \in DOMAIN part : i < j => f[i] < f[j]
        /\ \A i \in DOMAIN part : part[i] = list[f[i]]
  BY DEF PartOf
<1>2. \A i \in DOMAIN part : f[i] \in DOMAIN list
  BY <1>1
<1>3. Descending(list) => Descending(part)
  BY <1>1, <1>2 DEF Descending
<1>4. ASSUME Distinct(list), NEW i \in DOMAIN part, NEW j \in DOMAIN part,
             part[i].serial = part[j].serial
      PROVE  i = j
  <2>1. f[i] = f[j]
    BY <1>1, <1>2, <1>4 DEF Distinct
  <2>2. i \in Int /\ j \in Int /\ f[i] \in Int
    <3>1. DOMAIN part \subseteq Int /\ DOMAIN list \subseteq Int
      OBVIOUS
    <3> QED  BY <1>2, <3>1
  <2>3. ~(i < j) /\ ~(j < i)
    BY <1>1, <2>1, <2>2
  <2> QED  BY <2>2, <2>3
<1>5. SessionsFollow(log, list) => SessionsFollow(log, part)
  BY <1>1, <1>2 DEF SessionsFollow
<1>6. RevocationsFollow(log, list) => RevocationsFollow(log, part)
  BY <1>1, <1>2 DEF RevocationsFollow
<1> QED  BY <1>3, <1>4, <1>5, <1>6 DEF Distinct

\* A newest-first slice has no serial twice.
LEMMA DescendingIsDistinct ==
  ASSUME NEW list \in Seq(Session), Descending(list)
  PROVE  Distinct(list)
<1> SUFFICES ASSUME NEW i \in DOMAIN list, NEW j \in DOMAIN list,
                    list[i].serial = list[j].serial
             PROVE  i = j
  BY DEF Distinct
<1>1. i \in Int /\ j \in Int /\ list[i] \in Session
  OBVIOUS
<1>2. list[i].serial \in Int
  <2>1. list[i].serial \in 1..MaxIssued
    BY <1>1 DEF Session
  <2> QED  BY <2>1, ModelBoundsAreNat
<1>3. ~(i < j) /\ ~(j < i)
  BY <1>1, <1>2 DEF Descending
<1> QED  BY <1>1, <1>3

-----------------------------------------------------------------------------
(* DropSurplus.                                                             *)

\* The positions of the entries that prune would drop later than the one at i.
Later(live, i) == {k \in DOMAIN live : Sooner(live, i, k)}

\* The sort lists every position of the slice, each after those that expire sooner.
LEMMA SortedListsAll ==
  ASSUME NEW live \in Seq(Session)
  PROVE  /\ Sorted(live) \in [DOMAIN live -> DOMAIN live]
         /\ \A m, n \in DOMAIN live : m < n <=> Sooner(live, Sorted(live)[m], Sorted(live)[n])
         /\ \A i \in DOMAIN live : \E n \in DOMAIN live : Sorted(live)[n] = i
         /\ \A m, n \in DOMAIN live : Sorted(live)[m] = Sorted(live)[n] => m = n
<1> DEFINE P == DOMAIN live
           R == {p \in P \X P : Sooner(live, p[1], p[2])}
           order == Sorted(live)
<1>1. Len(live) \in Nat /\ P = 1..Len(live)
  OBVIOUS
<1>2. IsFiniteSet(P) /\ Cardinality(P) = Len(live)
  BY <1>1, FS_Interval
<1>3. \A i \in P : i \in Int /\ live[i].expires \in Int
  <2> SUFFICES ASSUME NEW i \in P PROVE i \in Int /\ live[i].expires \in Int
    OBVIOUS
  <2>1. live[i] \in Session
    OBVIOUS
  <2> QED  BY <1>1, <2>1 DEF Session
<1>4. \A x, y \in P : <<x, y>> \in R <=> Sooner(live, x, y)
  OBVIOUS
<1> HIDE DEF P, R
<1>5. \A x \in P : <<x, x>> \notin R
  BY <1>3, <1>4 DEF Sooner
<1>6. \A x, y, z \in P : <<x, y>> \in R /\ <<y, z>> \in R => <<x, z>> \in R
  BY <1>3, <1>4 DEF Sooner
<1>7. \A x, y \in P : x # y => <<x, y>> \in R \/ <<y, x>> \in R
  BY <1>3, <1>4 DEF Sooner
<1>8. \E f \in [1..Cardinality(P) -> P] :
        \A i, j \in 1..Cardinality(P) : i < j => <<f[i], f[j]>> \in R
  BY <1>2, <1>5, <1>6, <1>7, ListedInOrder
<1>9. \E f \in [P -> P] : \A i, j \in P : i < j => <<f[i], f[j]>> \in R
  BY <1>1, <1>2, <1>8
<1>10. \E f \in [P -> P] : \A i, j \in P : i < j => Sooner(live, f[i], f[j])
  BY <1>4, <1>9
<1>11. order \in [P -> P] /\ \A i, j \in P : i < j => Sooner(live, order[i], order[j])
  BY <1>10 DEF Sorted, P
<1> HIDE DEF order
<1>12. ASSUME NEW m \in P, NEW n \in P, order[m] = order[n] PROVE m = n
  <2>1. m \in Int /\ n \in Int /\ order[m] \in P
    BY <1>3, <1>11
  <2>2. ~Sooner(live, order[m], order[n]) /\ ~Sooner(live, order[n], order[m])
    BY <1>4, <1>5, <1>12, <2>1
  <2>3. ~(m < n) /\ ~(n < m)
    BY <1>11, <2>2
  <2> QED  BY <2>1, <2>3
<1>13. \A i \in P : \E n \in P : order[n] = i
  <2>1. P = 1..Cardinality(P)
    BY <1>1, <1>2
  <2>2. /\ order \in [1..Cardinality(P) -> P]
        /\ \A m, n \in 1..Cardinality(P) : order[m] = order[n] => m = n
    BY <1>11, <1>12, <2>1
  <2>3. \A i \in P : \E n \in 1..Cardinality(P) : order[n] = i
    BY ONLY <1>2, <2>2, ListingIsComplete
  <2> QED  BY <2>1, <2>3
<1>14. ASSUME NEW m \in P, NEW n \in P, Sooner(live, order[m], order[n]) PROVE m < n
  <2>1. m \in Int /\ n \in Int /\ order[m] \in P /\ order[n] \in P
    BY <1>3, <1>11
  <2>2. ~Sooner(live, order[n], order[m]) /\ order[m] # order[n]
    BY <1>4, <1>5, <1>6, <1>14, <2>1
  <2>3. ~(n < m) /\ m # n
    BY <1>11, <2>2
  <2> QED  BY <2>1, <2>3
<1> QED  BY <1>11, <1>12, <1>13, <1>14 DEF P, order

\* A slice has finitely many positions, as many as it is long.
LEMMA PositionsAreFinite ==
  ASSUME NEW T, NEW list \in Seq(T)
  PROVE  /\ Len(list) \in Nat /\ DOMAIN list = 1..Len(list)
         /\ IsFiniteSet(DOMAIN list) /\ Cardinality(DOMAIN list) = Len(list)
<1>1. Len(list) \in Nat /\ DOMAIN list = 1..Len(list)
  OBVIOUS
<1>2. IsFiniteSet(1..Len(list)) /\ Cardinality(1..Len(list)) = Len(list)
  BY <1>1, FS_Interval
<1> QED  BY <1>1, <1>2

\* max is positive whatever the configuration says.
LEMMA MaxIsPositive == max \in Nat \ {0}
BY BoundIsInt, DefaultIsPositive DEF max

\* What is left after the first Len(live) - max of the sorted order are dropped
\* are the entries with fewer than max that are dropped later.
LEMMA SurvivorsOfTheCut ==
  ASSUME NEW live \in Seq(Session), Len(live) > max
  PROVE  DOMAIN live \ {Sorted(live)[n] : n \in 1..(Len(live) - max)}
           = {i \in DOMAIN live : Cardinality(Later(live, i)) < max}
<1> DEFINE N == Len(live)
           order == Sorted(live)
           doomed == {order[n] : n \in 1..(N - max)}
<1>1. N \in Nat /\ DOMAIN live = 1..N /\ max \in Nat \ {0} /\ N > max
  BY MaxIsPositive
<1>2. /\ order \in [1..N -> 1..N]
      /\ \A m, n \in 1..N : m < n <=> Sooner(live, order[m], order[n])
      /\ \A i \in 1..N : \E n \in 1..N : order[n] = i
      /\ \A m, n \in 1..N : order[m] = order[n] => m = n
  BY <1>1, SortedListsAll
<1> HIDE DEF N, order
<1>3. ASSUME NEW m \in 1..N PROVE Cardinality(Later(live, order[m])) = N - m
  <2> DEFINE after == [q \in (m + 1)..N |-> order[q]]
  <2>1. m \in Int /\ (m + 1)..N \subseteq 1..N
    BY <1>1
  <2>2. \A q \in 1..N : Sooner(live, order[m], order[q]) <=> q \in (m + 1)..N
    <3>1. \A q \in 1..N : m < q <=> q \in (m + 1)..N
      BY <1>1, <2>1
    <3> QED  BY <1>2, <3>1
  <2>3. after \in [(m + 1)..N -> Later(live, order[m])]
    BY <1>1, <1>2, <2>1, <2>2 DEF Later
  <2>4. \A a, b \in (m + 1)..N : after[a] = after[b] => a = b
    BY <1>2, <2>1
  <2>5. \A k \in Later(live, order[m]) : \E q \in (m + 1)..N : after[q] = k
    BY <1>1, <1>2, <2>2 DEF Later
  <2>6. IsFiniteSet((m + 1)..N) /\ Cardinality((m + 1)..N) = N - m
    <3>1. m + 1 \in Int /\ N \in Int
      BY <1>1, <2>1
    <3>2. IsFiniteSet((m + 1)..N)
          /\ Cardinality((m + 1)..N) = IF m + 1 > N THEN 0 ELSE N - (m + 1) + 1
      BY <3>1, FS_Interval
    <3> QED  BY <1>1, <2>1, <3>2
  <2> HIDE DEF after
  <2>7. Cardinality(Later(live, order[m])) = Cardinality((m + 1)..N)
    <3>1. PICK S, T : S = (m + 1)..N /\ T = Later(live, order[m])
      OBVIOUS
    <3>2. /\ IsFiniteSet(S) /\ after \in [S -> T]
          /\ \A a, b \in S : after[a] = after[b] => a = b
          /\ \A k \in T : \E q \in S : after[q] = k
      BY ONLY <2>3, <2>4, <2>5, <2>6, <3>1
    <3>3. Cardinality(T) = Cardinality(S)
      BY ONLY <3>2, SameNumber
    <3> QED  BY ONLY <3>1, <3>3
  <2> QED  BY <2>6, <2>7
<1>4. ASSUME NEW m \in 1..N
      PROVE  order[m] \notin doomed <=> Cardinality(Later(live, order[m])) < max
  <2>1. m \in Int /\ 1..(N - max) \subseteq 1..N
    BY <1>1
  <2>2. order[m] \in doomed <=> m \in 1..(N - max)
    <3>1. order[m] \in doomed <=> \E q \in 1..(N - max) : order[q] = order[m]
      OBVIOUS
    <3>2. \A q \in 1..(N - max) : order[q] = order[m] => q = m
      BY <1>2, <2>1
    <3> HIDE DEF doomed
    <3> QED  BY <3>1, <3>2
  <2>3. m \in 1..(N - max) <=> ~(N - m < max)
    BY <1>1, <2>1
  <2> QED  BY <1>3, <2>2, <2>3
<1>5. \A i \in 1..N : i \notin doomed <=> Cardinality(Later(live, i)) < max
  <2> HIDE DEF doomed
  <2> QED  BY <1>2, <1>4
<1> QED  BY <1>1, <1>5 DEF N, order

\* DropSurplus keeps the part of the slice that has fewer than max later entries,
\* so no more entries than max.
LEMMA DropSurplusGivesPart ==
  ASSUME NEW live \in Seq(Session)
  PROVE  /\ DropSurplus(live) \in Seq(Session)
         /\ PartOf(DropSurplus(live), live,
                   {i \in DOMAIN live : Cardinality(Later(live, i)) < max})
         /\ Len(DropSurplus(live)) <= max
<1> DEFINE Q == {i \in DOMAIN live : Cardinality(Later(live, i)) < max}
<1>1. Len(live) \in Nat /\ DOMAIN live = 1..Len(live) /\ max \in Nat \ {0}
  BY MaxIsPositive
<1>2. CASE Len(live) <= max
  <2>1. DropSurplus(live) = live
    BY <1>1, <1>2 DEF DropSurplus
  <2>2. ASSUME NEW i \in DOMAIN live PROVE Cardinality(Later(live, i)) < max
    <3>1. IsFiniteSet(DOMAIN live) /\ Cardinality(DOMAIN live) = Len(live)
      BY PositionsAreFinite
    <3>2. live[i] \in Session /\ i \in Int
      BY <1>1
    <3>3. i \notin Later(live, i)
      BY <3>2 DEF Later, Sooner, Session
    <3>4. Later(live, i) \subseteq DOMAIN live /\ Later(live, i) # DOMAIN live
      BY <3>3 DEF Later
    <3>5. /\ Cardinality(Later(live, i)) <= Len(live)
          /\ Cardinality(Later(live, i)) # Len(live)
          /\ Cardinality(Later(live, i)) \in Nat
      BY <3>1, <3>4, FS_Subset, FS_CardinalityType
    <3> QED  BY <1>1, <1>2, <3>5
  <2>3. Q = DOMAIN live
    BY <2>2
  <2> HIDE DEF Q
  <2> QED  BY <1>2, <2>1, <2>3, AllIsPart DEF Q
<1>3. CASE Len(live) > max
  <2> DEFINE doomed == {Sorted(live)[n] : n \in 1..(Len(live) - max)}
  <2>1. DOMAIN live \ doomed = Q
    BY <1>3, SurvivorsOfTheCut
  <2>2. DropSurplus(live) = Keep(live, DOMAIN live \ doomed)
    BY <1>1, <1>3 DEF DropSurplus
  <2>3. DropSurplus(live) = Keep(live, Q)
    BY <2>1, <2>2
  <2>4. Cardinality(DOMAIN live \ doomed) = max
    <3> DEFINE order == Sorted(live)
               kept == [n \in (Len(live) - max + 1)..Len(live) |-> order[n]]
    <3>1. /\ order \in [1..Len(live) -> 1..Len(live)]
          /\ \A i \in 1..Len(live) : \E n \in 1..Len(live) : order[n] = i
          /\ \A m, n \in 1..Len(live) : order[m] = order[n] => m = n
      BY <1>1, SortedListsAll
    <3>2. /\ (Len(live) - max + 1)..Len(live) \subseteq 1..Len(live)
          /\ 1..(Len(live) - max) \subseteq 1..Len(live)
          /\ \A n \in 1..Len(live) :
                n \in (Len(live) - max + 1)..Len(live) <=> n \notin 1..(Len(live) - max)
      BY <1>1, <1>3
    <3>3. doomed = {order[n] : n \in 1..(Len(live) - max)}
      OBVIOUS
    <3> HIDE DEF order, doomed
    <3>4. \A n \in 1..Len(live) : order[n] \in doomed <=> n \in 1..(Len(live) - max)
      BY <3>1, <3>2, <3>3
    <3>5. kept \in [(Len(live) - max + 1)..Len(live) -> DOMAIN live \ doomed]
      BY <1>1, <3>1, <3>2, <3>4
    <3>6. \A a, b \in (Len(live) - max + 1)..Len(live) : kept[a] = kept[b] => a = b
      BY <3>1, <3>2
    <3>7. \A i \in DOMAIN live \ doomed :
             \E n \in (Len(live) - max + 1)..Len(live) : kept[n] = i
      BY <1>1, <3>1, <3>2, <3>4
    <3>8. /\ IsFiniteSet((Len(live) - max + 1)..Len(live))
          /\ Cardinality((Len(live) - max + 1)..Len(live)) = max
      <4>1. Len(live) - max + 1 \in Int /\ Len(live) \in Int
        BY <1>1
      <4>2. /\ IsFiniteSet((Len(live) - max + 1)..Len(live))
            /\ Cardinality((Len(live) - max + 1)..Len(live)) =
                  IF Len(live) - max + 1 > Len(live) THEN 0
                  ELSE Len(live) - (Len(live) - max + 1) + 1
        BY <4>1, FS_Interval
      <4> QED  BY <1>1, <4>2
    <3> DEFINE last == (Len(live) - max + 1)..Len(live)
               left == DOMAIN live \ doomed
    <3> HIDE DEF kept, last, left
    <3>9. Cardinality(left) = Cardinality(last)
      <4>1. /\ kept \in [last -> left] /\ IsFiniteSet(last)
            /\ \A a, b \in last : kept[a] = kept[b] => a = b
            /\ \A i \in left : \E n \in last : kept[n] = i
        BY <3>5, <3>6, <3>7, <3>8 DEF last, left
      <4> QED  BY <4>1, SameNumber
    <3> QED  BY <3>8, <3>9 DEF last, left
  <2> HIDE DEF Q
  <2>5. Q \in SUBSET DOMAIN live
    BY DEF Q
  <2>6. /\ Keep(live, Q) \in Seq(Session) /\ Len(Keep(live, Q)) = Cardinality(Q)
        /\ PartOf(Keep(live, Q), live, Q)
    BY <2>5, KeepGivesPart
  <2>7. Len(Keep(live, Q)) = max
    BY <2>1, <2>4, <2>6
  <2> QED  BY <1>1, <2>3, <2>6, <2>7 DEF Q
<1> QED  BY <1>1, <1>2, <1>3

-----------------------------------------------------------------------------
(* What prune and pruneRevoked keep, in terms of SessionStore's sets.       *)

\* In a newest-first slice that follows the log, the entry at the other position
\* is dropped later when its credential outlives this one.
LEMMA SoonerIsOutlived ==
  ASSUME NEW log, NEW list \in Seq(Session), Descending(list), SessionsFollow(log, list),
         NEW a \in DOMAIN list, NEW b \in DOMAIN list
  PROVE  Sooner(list, a, b) <=> Store!Outlives(log, list[b].serial, list[a].serial)
<1>1. a \in Int /\ b \in Int /\ list[a] \in Session /\ list[b] \in Session
  OBVIOUS
<1>2. /\ list[a].expires \in Int /\ list[b].expires \in Int
      /\ list[a].serial \in Int /\ list[b].serial \in Int
  BY <1>1, ModelBoundsAreNat DEF Session
<1>3. a > b <=> list[b].serial > list[a].serial
  <2>1. a < b => list[a].serial > list[b].serial
    BY DEF Descending
  <2>2. b < a => list[b].serial > list[a].serial
    BY DEF Descending
  <2> QED  BY <1>1, <1>2, <2>1, <2>2
<1>4. list[a].expires = log[list[a].serial].expires /\ list[b].expires = log[list[b].serial].expires
  BY DEF SessionsFollow
<1> QED  BY <1>2, <1>3, <1>4 DEF Sooner, Store!Outlives

\* The instance counts as this module does.
LEMMA StoreCounts == \A S : Store!Cardinality(S) = Cardinality(S)
BY Zenon DEF Store!Cardinality, Cardinality, Store!IsFiniteSet, IsFiniteSet

\* DropSurplus keeps the serials that Longest does.
LEMMA DropSurplusIsLongest ==
  ASSUME NEW log, NEW list \in Seq(Session), Descending(list), SessionsFollow(log, list)
  PROVE  SerialsOf(DropSurplus(list)) = Store!Longest(log, SerialsOf(list))
<1> DEFINE S == SerialsOf(list)
           better(s) == {t \in S : Store!Outlives(log, t, s)}
<1>1. Distinct(list)
  BY DescendingIsDistinct
<1>2. ASSUME NEW i \in DOMAIN list
      PROVE  Cardinality(Later(list, i)) = Cardinality(better(list[i].serial))
  <2> DEFINE at == [k \in Later(list, i) |-> list[k].serial]
  <2>1. \A k \in DOMAIN list :
          k \in Later(list, i) <=> Store!Outlives(log, list[k].serial, list[i].serial)
    BY SoonerIsOutlived DEF Later
  <2>2. Later(list, i) \subseteq DOMAIN list
    BY DEF Later
  <2>3. at \in [Later(list, i) -> better(list[i].serial)]
    BY <2>1, <2>2 DEF SerialsOf
  <2>4. \A a, b \in Later(list, i) : at[a] = at[b] => a = b
    BY <1>1, <2>2 DEF Distinct
  <2>5. \A s \in better(list[i].serial) : \E k \in Later(list, i) : at[k] = s
    BY <2>1 DEF SerialsOf
  <2>6. IsFiniteSet(Later(list, i))
    <3>1. IsFiniteSet(DOMAIN list)
      BY PositionsAreFinite
    <3> QED  BY <2>2, <3>1, FS_Subset
  <2> HIDE DEF at, better
  <2> QED  BY <2>3, <2>4, <2>5, <2>6, SameNumber
<1>3. Store!MaxSessions = max
  BY DEF Store!MaxSessions, max
<1>4. SerialsOf(DropSurplus(list)) =
        {list[i].serial : i \in {j \in DOMAIN list : Cardinality(Later(list, j)) < max}}
  <2> DEFINE Q == {j \in DOMAIN list : Cardinality(Later(list, j)) < max}
  <2>1. PartOf(DropSurplus(list), list, Q)
    BY DropSurplusGivesPart
  <2> HIDE DEF Q
  <2>2. SerialsOf(DropSurplus(list)) = {list[i].serial : i \in Q}
    BY <2>1, PartSerials
  <2> QED  BY <2>2 DEF Q
<1>5. SerialsOf(DropSurplus(list)) = {s \in S : Cardinality(better(s)) < max}
  <2> HIDE DEF better
  <2> QED  BY <1>2, <1>4 DEF SerialsOf
<1>6. Store!Longest(log, S) = {s \in S : Cardinality(better(s)) < Store!MaxSessions}
  BY StoreCounts DEF Store!Longest
<1> HIDE DEF better
<1> QED  BY <1>3, <1>5, <1>6

\* prune does to the slice what Prune does to its serials, and keeps its order.
LEMMA PruneIsPrune ==
  ASSUME NEW log, NEW list \in Seq(Session), Descending(list), SessionsFollow(log, list), NEW t
  PROVE  /\ prune(list, t) \in Seq(Session) /\ Len(prune(list, t)) <= max
         /\ Descending(prune(list, t)) /\ SessionsFollow(log, prune(list, t))
         /\ SerialsOf(prune(list, t)) = Store!Prune(log, SerialsOf(list), t)
<1> DEFINE U == {i \in DOMAIN list : ~Expired(list[i], t)}
           live == Keep(list, U)
           Q == {i \in DOMAIN live : Cardinality(Later(live, i)) < max}
<1>1. prune(list, t) = DropSurplus(live)
  BY DEF prune
<1>2. U \in SUBSET DOMAIN list
  OBVIOUS
<1> HIDE DEF U
<1>3. live \in Seq(Session) /\ PartOf(live, list, U)
  BY <1>2, KeepGivesPart
<1> HIDE DEF live
<1>4. Descending(live) /\ SessionsFollow(log, live)
  BY <1>2, <1>3, PartKeeps
<1>5. SerialsOf(live) = Store!Unexpired(log, SerialsOf(list), t)
  <2>1. SerialsOf(live) = {list[i].serial : i \in U}
    BY <1>3, PartSerials
  <2>2. \A i \in DOMAIN list :
          i \in U <=> ~Store!Expired(log, list[i].serial, t)
    BY DEF U, SessionsFollow, Expired, Store!Expired
  <2> QED  BY <1>2, <2>1, <2>2 DEF SerialsOf, Store!Unexpired
<1>6. /\ DropSurplus(live) \in Seq(Session) /\ PartOf(DropSurplus(live), live, Q)
      /\ Len(DropSurplus(live)) <= max
  BY <1>3, DropSurplusGivesPart
<1>7. Q \in SUBSET DOMAIN live
  OBVIOUS
<1> HIDE DEF Q
<1>8. Descending(DropSurplus(live)) /\ SessionsFollow(log, DropSurplus(live))
  BY <1>3, <1>4, <1>6, <1>7, PartKeeps
<1>9. SerialsOf(DropSurplus(live)) = Store!Longest(log, SerialsOf(live))
  BY <1>3, <1>4, DropSurplusIsLongest
<1> QED  BY <1>1, <1>5, <1>6, <1>8, <1>9 DEF Store!Prune

\* pruneRevoked does to the slice what PruneRevoked does to its serials.
LEMMA PruneRevokedIsPruneRevoked ==
  ASSUME NEW log, NEW list \in Seq(Revocation), Distinct(list),
         RevocationsFollow(log, list), log \in Seq(Store!Credential), NEW t \in Int
  PROVE  /\ pruneRevoked(list, t) \in Seq(Revocation)
         /\ Distinct(pruneRevoked(list, t)) /\ RevocationsFollow(log, pruneRevoked(list, t))
         /\ SerialsOf(pruneRevoked(list, t)) = Store!PruneRevoked(log, SerialsOf(list), t)
<1> DEFINE U == {i \in DOMAIN list : t <= list[i].until}
<1>1. pruneRevoked(list, t) = Keep(list, U)
  BY DEF pruneRevoked
<1>2. U \in SUBSET DOMAIN list
  OBVIOUS
<1> HIDE DEF U
<1>3. Keep(list, U) \in Seq(Revocation) /\ PartOf(Keep(list, U), list, U)
  BY <1>2, KeepGivesPart
<1>4. Distinct(Keep(list, U)) /\ RevocationsFollow(log, Keep(list, U))
  BY <1>2, <1>3, PartKeeps
<1>5. SerialsOf(Keep(list, U)) = Store!PruneRevoked(log, SerialsOf(list), t)
  <2>1. SerialsOf(Keep(list, U)) = {list[i].serial : i \in U}
    BY <1>3, PartSerials
  <2>2. \A i \in DOMAIN list :
          i \in U <=> ~Store!Expired(log, list[i].serial, t)
    <3> SUFFICES ASSUME NEW i \in DOMAIN list
                 PROVE  i \in U <=> ~Store!Expired(log, list[i].serial, t)
      OBVIOUS
    <3>1. list[i] \in Revocation
      OBVIOUS
    <3>2. list[i].until \in Int /\ list[i].until = log[list[i].serial].expires
      BY <3>1 DEF Revocation, RevocationsFollow
    <3> QED  BY <3>2 DEF U, Store!Expired
  <2> QED  BY <1>2, <2>1, <2>2 DEF SerialsOf, Store!PruneRevoked, Store!Unexpired
<1> QED  BY <1>1, <1>3, <1>4, <1>5

-----------------------------------------------------------------------------
(* The inductive invariant.                                                 *)

\* The entries of both slices are those of the credentials they were made for: a
\* prune that compared anything else would not cut what SessionStore cuts.
EntriesFollow ==
    /\ issued \in Seq(Store!Credential) /\ Len(issued) <= MaxIssued
    /\ SessionsFollow(issued, sessions)
    /\ RevocationsFollow(issued, revoked)

IInv == TypeOK /\ NewestFirst /\ RevokedOnce /\ EntriesFollow /\ HeldAreBounded

\* IInv holds when the process starts.
LEMMA IInvInit == Init => IInv
<1> SUFFICES ASSUME Init PROVE IInv
  OBVIOUS
<1>1. now = 0 /\ issued = <<>> /\ sessions = <<>> /\ revoked = <<>> /\ ordered = {}
  BY DEF Init
<1>2. TypeOK
  BY <1>1, ModelBoundsAreNat DEF TypeOK
<1>3. NewestFirst /\ RevokedOnce
  BY <1>1 DEF NewestFirst, RevokedOnce
<1>4. EntriesFollow
  BY <1>1, ModelBoundsAreNat DEF EntriesFollow, SessionsFollow, RevocationsFollow
<1>5. HeldAreBounded
  BY <1>1, MaxIsPositive DEF HeldAreBounded
<1> QED  BY <1>2, <1>3, <1>4, <1>5 DEF IInv

\* A step that leaves the log and the slices alone leaves IInv alone.
LEMMA NothingMoved ==
  ASSUME IInv, UNCHANGED <<issued, sessions, revoked, ordered>>, now' \in 0..MaxTime
  PROVE  IInv'
BY DEF IInv, TypeOK, NewestFirst, RevokedOnce, EntriesFollow, HeldAreBounded,
       SessionsFollow, RevocationsFollow, max

\* Add keeps IInv, and adds the credential to the set that SessionStore holds.
LEMMA AddStep ==
  ASSUME IInv, NEW u \in Users, NEW k \in Kinds, NEW l \in Lifetimes, Add(u, k, l)
  PROVE  IInv' /\ Store!Add(u, k, l)
<1> DEFINE n == Len(issued) + 1
           c == [user |-> u, kind |-> k, expires |-> now + l]
           e == [serial |-> n, user |-> u, kind |-> k, expires |-> now + l]
           list == <<e>> \o sessions
<1>1. /\ n <= MaxIssued /\ issued' = Append(issued, c) /\ sessions' = prune(list, now)
      /\ UNCHANGED <<now, revoked, ordered>>
  BY DEF Add
<1>2. /\ now \in 0..MaxTime /\ sessions \in Seq(Session) /\ revoked \in Seq(Revocation)
      /\ ordered \subseteq DOMAIN issued
      /\ issued \in Seq(Store!Credential)
      /\ SessionsFollow(issued, sessions) /\ RevocationsFollow(issued, revoked)
      /\ NewestFirst /\ RevokedOnce
  BY DEF IInv, TypeOK, EntriesFollow
<1>3. now \in Int /\ l \in Int /\ Len(issued) \in Nat /\ MaxIssued \in Nat
  BY <1>2, LifetimesAreInt, ModelBoundsAreNat
<1>4. c \in Store!Credential
  BY <1>3 DEF Store!Credential, Store!Kinds, Kinds
<1>5. e \in Session
  BY <1>1, <1>3 DEF Session
<1> HIDE DEF c, e
<1>6. /\ issued' \in Seq(Store!Credential) /\ Len(issued') = n /\ issued'[n] = c
      /\ \A s \in 1..Len(issued) : issued'[s] = issued[s]
      /\ DOMAIN issued \subseteq DOMAIN issued'
  BY <1>1, <1>2, <1>4
<1>7. /\ list \in Seq(Session) /\ DOMAIN list = 1..(Len(sessions) + 1) /\ list[1] = e
      /\ \A i \in DOMAIN sessions : list[i + 1] = sessions[i]
      /\ \A i \in DOMAIN list : i # 1 => i - 1 \in DOMAIN sessions /\ list[i] = sessions[i - 1]
  BY <1>2, <1>5
<1>8. e.serial = n /\ e.expires = c.expires
  BY DEF c, e
<1> HIDE DEF list
<1>9. \A i \in DOMAIN sessions : sessions[i].serial \in 1..Len(issued)
  BY <1>2 DEF SessionsFollow
<1>10. Descending(list)
  <2> SUFFICES ASSUME NEW i \in DOMAIN list, NEW j \in DOMAIN list, i < j
               PROVE  list[i].serial > list[j].serial
    BY DEF Descending
  <2>1. i \in Int /\ j \in Int /\ i >= 1 /\ j # 1
    BY <1>2, <1>7
  <2>2. j - 1 \in DOMAIN sessions /\ list[j] = sessions[j - 1]
    BY <1>7, <2>1
  <2>3. CASE i = 1
    BY <1>3, <1>7, <1>8, <1>9, <2>2, <2>3
  <2>4. CASE i # 1
    <3>1. i - 1 \in DOMAIN sessions /\ list[i] = sessions[i - 1] /\ i - 1 < j - 1
      BY <1>7, <2>1, <2>4
    <3> QED  BY <1>2, <2>2, <3>1 DEF NewestFirst
  <2> QED  BY <2>3, <2>4
<1>11. SessionsFollow(issued', list)
  <2> SUFFICES ASSUME NEW i \in DOMAIN list
               PROVE  /\ list[i].serial \in 1..Len(issued')
                      /\ list[i].expires = issued'[list[i].serial].expires
    BY DEF SessionsFollow
  <2>1. CASE i = 1
    BY <1>3, <1>6, <1>7, <1>8, <2>1
  <2>2. CASE i # 1
    <3>1. i - 1 \in DOMAIN sessions /\ list[i] = sessions[i - 1]
      BY <1>7, <2>2
    <3>2. /\ sessions[i - 1].serial \in 1..Len(issued)
          /\ sessions[i - 1].expires = issued[sessions[i - 1].serial].expires
      BY <1>2, <3>1 DEF SessionsFollow
    <3> QED  BY <1>3, <1>6, <3>1, <3>2
  <2> QED  BY <2>1, <2>2
<1>12. RevocationsFollow(issued', revoked)
  <2> SUFFICES ASSUME NEW i \in DOMAIN revoked
               PROVE  /\ revoked[i].serial \in 1..Len(issued')
                      /\ revoked[i].until = issued'[revoked[i].serial].expires
    BY DEF RevocationsFollow
  <2>1. /\ revoked[i].serial \in 1..Len(issued)
        /\ revoked[i].until = issued[revoked[i].serial].expires
    BY <1>2 DEF RevocationsFollow
  <2> QED  BY <1>3, <1>6, <2>1
<1>13. /\ prune(list, now) \in Seq(Session) /\ Len(prune(list, now)) <= max
       /\ Descending(prune(list, now)) /\ SessionsFollow(issued', prune(list, now))
       /\ SerialsOf(prune(list, now)) = Store!Prune(issued', SerialsOf(list), now)
  <2>1. \A log : SessionsFollow(log, list) =>
          /\ prune(list, now) \in Seq(Session) /\ Len(prune(list, now)) <= max
          /\ Descending(prune(list, now)) /\ SessionsFollow(log, prune(list, now))
          /\ SerialsOf(prune(list, now)) = Store!Prune(log, SerialsOf(list), now)
    BY <1>7, <1>10, PruneIsPrune
  <2> QED  BY <1>11, <2>1
<1>14. SerialsOf(list) = SerialsOf(sessions) \cup {n}
  <2>1. \A s : s \in SerialsOf(list) => s \in SerialsOf(sessions) \cup {n}
    BY <1>7, <1>8 DEF SerialsOf
  <2>2. 1 \in DOMAIN list /\ \A i \in DOMAIN sessions : i + 1 \in DOMAIN list
    BY <1>2, <1>7
  <2>3. \A s \in SerialsOf(sessions) \cup {n} : s \in SerialsOf(list)
    BY <1>7, <1>8, <2>2 DEF SerialsOf
  <2> QED  BY <2>1, <2>3
<1>15. IInv'
  <2>1. TypeOK'
    BY <1>1, <1>2, <1>6, <1>13 DEF TypeOK
  <2>2. NewestFirst' /\ HeldAreBounded'
    BY <1>1, <1>13 DEF NewestFirst, Descending, HeldAreBounded, max
  <2>3. RevokedOnce'
    BY <1>1, <1>2 DEF RevokedOnce
  <2>4. EntriesFollow'
    BY <1>1, <1>6, <1>12, <1>13 DEF EntriesFollow
  <2> QED  BY <2>1, <2>2, <2>3, <2>4 DEF IInv
<1>16. Store!Add(u, k, l)
  BY <1>1, <1>3, <1>6, <1>13, <1>14 DEF Store!Add, c, n
<1> QED  BY <1>15, <1>16

\* For, All and Tracked keep IInv, and prune the set that SessionStore holds.
LEMMA LookStep ==
  ASSUME IInv, Look
  PROVE  IInv' /\ Store!Look
<1>1. sessions' = prune(sessions, now) /\ UNCHANGED <<now, issued, revoked, ordered>>
  BY DEF Look
<1>2. /\ sessions \in Seq(Session) /\ Descending(sessions) /\ SessionsFollow(issued, sessions)
  BY DEF IInv, TypeOK, NewestFirst, EntriesFollow, Descending
<1>3. /\ prune(sessions, now) \in Seq(Session) /\ Len(prune(sessions, now)) <= max
      /\ Descending(prune(sessions, now)) /\ SessionsFollow(issued, prune(sessions, now))
      /\ SerialsOf(prune(sessions, now)) = Store!Prune(issued, SerialsOf(sessions), now)
  BY <1>2, PruneIsPrune
<1>4. TypeOK'
  BY <1>1, <1>3 DEF IInv, TypeOK
<1>5. NewestFirst' /\ HeldAreBounded'
  BY <1>1, <1>3 DEF NewestFirst, Descending, HeldAreBounded, max
<1>6. RevokedOnce' /\ EntriesFollow'
  BY <1>1, <1>3 DEF IInv, RevokedOnce, EntriesFollow
<1>7. Store!Look
  BY <1>1, <1>3 DEF Store!Look
<1> QED  BY <1>4, <1>5, <1>6, <1>7 DEF IInv

\* What pruneRevoked leaves of a slice that agrees with the log is what IInv asks of
\* the revocations.
LEMMA PruneRevokedStep ==
  ASSUME IInv, NEW list \in Seq(Revocation), Distinct(list), RevocationsFollow(issued, list),
         revoked' = pruneRevoked(list, now), UNCHANGED <<now, issued, sessions>>,
         ordered' \subseteq DOMAIN issued
  PROVE  IInv' /\ SerialsOf(revoked)' = Store!PruneRevoked(issued, SerialsOf(list), now)
<1>1. now \in Int /\ issued \in Seq(Store!Credential)
  BY ModelBoundsAreNat DEF IInv, TypeOK, EntriesFollow
<1>2. /\ pruneRevoked(list, now) \in Seq(Revocation)
      /\ Distinct(pruneRevoked(list, now)) /\ RevocationsFollow(issued, pruneRevoked(list, now))
      /\ SerialsOf(pruneRevoked(list, now)) = Store!PruneRevoked(issued, SerialsOf(list), now)
  BY <1>1, PruneRevokedIsPruneRevoked
<1>3. TypeOK'
  BY <1>2 DEF IInv, TypeOK
<1>4. NewestFirst' /\ HeldAreBounded'
  BY DEF IInv, NewestFirst, HeldAreBounded, max
<1>5. RevokedOnce'
  BY <1>2 DEF RevokedOnce, Distinct
<1>6. EntriesFollow'
  BY <1>2 DEF IInv, EntriesFollow
<1>7. SerialsOf(revoked)' = Store!PruneRevoked(issued, SerialsOf(list), now)
  BY <1>2 DEF SerialsOf
<1> QED  BY <1>3, <1>4, <1>5, <1>6, <1>7 DEF IInv

\* Revoke keeps IInv, and adds the serial to the set that SessionStore holds.
LEMMA RevokeStep ==
  ASSUME IInv, NEW s \in DOMAIN issued, Revoke(s)
  PROVE  IInv' /\ Store!Revoke(s)
<1> DEFINE r == [serial |-> s, kind |-> issued[s].kind, until |-> issued[s].expires]
           list == RecordRevocation(revoked, r)
<1>1. /\ revoked' = pruneRevoked(list, now) /\ ordered' = ordered \cup {s}
      /\ UNCHANGED <<now, issued, sessions>>
  BY DEF Revoke
<1>2. /\ revoked \in Seq(Revocation) /\ Distinct(revoked) /\ RevocationsFollow(issued, revoked)
      /\ issued \in Seq(Store!Credential) /\ Len(issued) <= MaxIssued
      /\ ordered \subseteq DOMAIN issued /\ MaxIssued \in Nat
  BY ModelBoundsAreNat DEF IInv, TypeOK, RevokedOnce, EntriesFollow, Distinct
<1>3. s \in 1..Len(issued) /\ s \in 1..MaxIssued /\ issued[s] \in Store!Credential
  BY <1>2
<1>4. r \in Revocation /\ r.serial = s /\ r.until = issued[s].expires
  BY <1>3 DEF Revocation, Store!Credential, Store!Kinds, Kinds
<1> HIDE DEF r
<1>5. /\ list \in Seq(Revocation) /\ Distinct(list) /\ RevocationsFollow(issued, list)
      /\ SerialsOf(list) = SerialsOf(revoked) \cup {s}
  <2>1. CASE s \in SerialsOf(revoked)
    <3>1. list = revoked
      BY <1>4, <2>1 DEF RecordRevocation
    <3> QED  BY <1>2, <2>1, <3>1
  <2>2. CASE s \notin SerialsOf(revoked)
    <3>1. list = Append(revoked, r)
      BY <1>4, <2>2 DEF RecordRevocation
    <3>2. /\ list \in Seq(Revocation) /\ DOMAIN list = 1..(Len(revoked) + 1)
          /\ Len(revoked) + 1 \in DOMAIN list /\ list[Len(revoked) + 1] = r
          /\ \A i \in DOMAIN revoked : i \in DOMAIN list /\ list[i] = revoked[i]
          /\ \A i \in DOMAIN list : i \in DOMAIN revoked \/ i = Len(revoked) + 1
      BY <1>2, <1>4, <3>1
    <3>3. \A i \in DOMAIN revoked : revoked[i].serial # s
      BY <2>2 DEF SerialsOf
    <3> HIDE DEF list
    <3>4. Distinct(list)
      BY <1>2, <1>4, <3>2, <3>3 DEF Distinct
    <3>5. RevocationsFollow(issued, list)
      <4> SUFFICES ASSUME NEW i \in DOMAIN list
                   PROVE  /\ list[i].serial \in 1..Len(issued)
                          /\ list[i].until = issued[list[i].serial].expires
        BY DEF RevocationsFollow
      <4>1. CASE i \in DOMAIN revoked
        BY <1>2, <3>2, <4>1 DEF RevocationsFollow
      <4>2. CASE i = Len(revoked) + 1
        BY <1>3, <1>4, <3>2, <4>2
      <4> QED  BY <3>2, <4>1, <4>2
    <3>6. SerialsOf(list) = SerialsOf(revoked) \cup {s}
      BY <1>4, <3>2 DEF SerialsOf
    <3> QED  BY <3>2, <3>4, <3>5, <3>6
  <2> QED  BY <2>1, <2>2
<1> HIDE DEF list
<1>6. ordered' \subseteq DOMAIN issued
  BY <1>1, <1>2
<1>7. IInv' /\ SerialsOf(revoked)' = Store!PruneRevoked(issued, SerialsOf(list), now)
  BY <1>1, <1>5, <1>6, PruneRevokedStep
<1>8. Store!Revoke(s)
  <2>1. SerialsOf(sessions)' = SerialsOf(sessions)
    BY <1>1 DEF SerialsOf
  <2> QED  BY <1>1, <1>5, <1>7, <2>1 DEF Store!Revoke
<1> QED  BY <1>7, <1>8

\* Revocations keeps IInv, and prunes the set that SessionStore holds.
LEMMA RevocationsStep ==
  ASSUME IInv, Revocations
  PROVE  IInv' /\ Store!ReadRevocations
<1>1. revoked' = pruneRevoked(revoked, now) /\ UNCHANGED <<now, issued, sessions, ordered>>
  BY DEF Revocations
<1>2. /\ revoked \in Seq(Revocation) /\ Distinct(revoked) /\ RevocationsFollow(issued, revoked)
      /\ ordered \subseteq DOMAIN issued
  BY DEF IInv, TypeOK, RevokedOnce, EntriesFollow, Distinct
<1>3. IInv' /\ SerialsOf(revoked)' = Store!PruneRevoked(issued, SerialsOf(revoked), now)
  BY <1>1, <1>2, PruneRevokedStep
<1>4. SerialsOf(sessions)' = SerialsOf(sessions)
  BY <1>1 DEF SerialsOf
<1> QED  BY <1>1, <1>3, <1>4 DEF Store!ReadRevocations, Store!LiveRevocations

\* Every method keeps IInv, and does to the slices what the method of SessionStore
\* does to its sets.
LEMMA StepIsStoreStep ==
  IInv /\ [Next]_vars => IInv' /\ [Store!StoreNext]_(Store!storeVars)
<1> SUFFICES ASSUME IInv, [Next]_vars
             PROVE  IInv' /\ [Store!StoreNext]_(Store!storeVars)
  OBVIOUS
<1>1. CASE Tick
  <2>1. now < MaxTime /\ now' = now + 1 /\ UNCHANGED <<issued, sessions, revoked, ordered>>
    BY <1>1 DEF Tick
  <2>2. now' \in 0..MaxTime
    BY <2>1, ModelBoundsAreNat DEF IInv, TypeOK
  <2>3. SerialsOf(sessions)' = SerialsOf(sessions) /\ SerialsOf(revoked)' = SerialsOf(revoked)
    BY <2>1 DEF SerialsOf
  <2>4. Store!Tick
    BY <2>1, <2>3 DEF Store!Tick
  <2> QED  BY <2>1, <2>2, <2>4, NothingMoved DEF Store!StoreNext
<1>2. ASSUME NEW u \in Users, NEW k \in Kinds, NEW l \in Lifetimes, Add(u, k, l)
      PROVE  IInv' /\ Store!StoreNext
  BY <1>2, AddStep DEF Store!StoreNext, Store!Kinds, Kinds
<1>3. CASE Look
  BY <1>3, LookStep DEF Store!StoreNext
<1>4. ASSUME NEW s \in DOMAIN issued, Revoke(s)
      PROVE  IInv' /\ Store!StoreNext
  <2>1. DOMAIN issued = Store!Serials
    BY DEF IInv, EntriesFollow, Store!Serials
  <2> QED  BY <1>4, <2>1, RevokeStep DEF Store!StoreNext
<1>5. CASE Revocations
  BY <1>5, RevocationsStep DEF Store!StoreNext
<1>6. CASE UNCHANGED vars
  <2>1. now \in 0..MaxTime /\ UNCHANGED <<now, issued, sessions, revoked, ordered>>
    BY <1>6 DEF vars, IInv, TypeOK
  <2>2. UNCHANGED Store!storeVars
    BY <2>1 DEF Store!storeVars, SerialsOf
  <2> QED  BY <2>1, <2>2, NothingMoved
<1> QED  BY <1>1, <1>2, <1>3, <1>4, <1>5, <1>6 DEF Next

\* IInv is an invariant.
LEMMA IInvCorrect == Spec => []IInv
BY IInvInit, StepIsStoreStep, PTL DEF Spec

\* The two slices hold sessions and revocations, and only issued serials are ordered.
THEOREM TypeCorrect == Spec => []TypeOK
BY IInvCorrect, PTL DEF IInv

\* However the slice is added to, cut, sorted and rebuilt, it stays newest first, so
\* the position keeps telling the age that the next prune breaks ties by (prune).
THEOREM OrderCorrect == Spec => []NewestFirst
BY IInvCorrect, PTL DEF IInv

\* No serial is listed twice, however often it is revoked (Revoke, pruneRevoked).
THEOREM RevokedOnceCorrect == Spec => []RevokedOnce
BY IInvCorrect, PTL DEF IInv

\* The slice is never longer than the bound after a call (prune, max).
THEOREM BoundCorrect == Spec => []HeldAreBounded
BY IInvCorrect, PTL DEF IInv

-----------------------------------------------------------------------------
(* The slices implement the sets.                                           *)

\* The slices do what the sets of SessionStore do, step by step: sorting positions
\* and rebuilding the slice in place keeps exactly what the cap of SessionStore keeps.
THEOREM MemoryStoreImplementsSessionStore == Spec => ImplementsSessionStore
<1>1. Init => Store!StoreInit
  BY DEF Init, Store!StoreInit, SerialsOf
<1> QED  BY <1>1, StepIsStoreStep, IInvCorrect, PTL
         DEF Spec, ImplementsSessionStore, Store!StoreSpec

SP == INSTANCE SessionStore_proofs WITH
    held <- SerialsOf(sessions), revoked <- SerialsOf(revoked)

\* What can still be revoked are the longest-lived of all the unexpired credentials
\* ever issued, for every bound and every history of calls: what SessionStore's cap
\* promises holds of the slice (prune).
THEOREM RetentionOfTheSlice == Spec => []HeldAreTheLongestLived
<1>1. SP!StoreSpec => []SP!HeldAreTheLongestLived
  BY SP!RetentionCorrect, LifetimesAreInt, BoundIsInt, DefaultIsPositive, ModelBoundsAreNat
<1>2. SP!StoreInit <=> Store!StoreInit
  BY DEF SP!StoreInit, Store!StoreInit
<1>3. [SP!StoreNext]_(SP!storeVars) <=> [Store!StoreNext]_(Store!storeVars)
  BY Zenon
     DEF SP!StoreNext, Store!StoreNext, SP!storeVars, Store!storeVars, SP!Tick,
         Store!Tick, SP!Add, Store!Add, SP!Look, Store!Look, SP!Revoke, Store!Revoke,
         SP!ReadRevocations, Store!ReadRevocations, SP!Kinds, Store!Kinds, SP!Serials,
         Store!Serials, SP!PruneRevoked, Store!PruneRevoked, SP!LiveRevocations,
         Store!LiveRevocations, SP!Unexpired, Store!Unexpired, SP!Expired,
         Store!Expired, SP!Prune, Store!Prune, SP!Longest, Store!Longest, SP!Outlives,
         Store!Outlives, SP!MaxSessions, Store!MaxSessions, SP!Cardinality,
         Store!Cardinality
<1>4. SP!HeldAreTheLongestLived <=> HeldAreTheLongestLived
  BY Zenon
     DEF HeldAreTheLongestLived, SP!HeldAreTheLongestLived,
         Store!HeldAreTheLongestLived, SP!Serials, Store!Serials, SP!Unexpired,
         Store!Unexpired, SP!Expired, Store!Expired, SP!Prune, Store!Prune, SP!Longest,
         Store!Longest, SP!Outlives, Store!Outlives, SP!MaxSessions, Store!MaxSessions,
         SP!Cardinality, Store!Cardinality
<1> QED  BY <1>1, <1>2, <1>3, <1>4, MemoryStoreImplementsSessionStore, PTL
         DEF SP!StoreSpec, ImplementsSessionStore, Store!StoreSpec
=============================================================================
