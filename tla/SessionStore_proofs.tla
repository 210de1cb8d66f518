------------------------- MODULE SessionStore_proofs -------------------------
(* Proofs about SessionStore: its type invariant, what the cap keeps, and   *)
(* that no revocation is dropped while its certificate is valid, for every  *)
(* bound and every set of lifetimes.                                        *)
EXTENDS SessionStore, TLAPS, FiniteSetTheorems, WellFoundedInduction

\* Pruning keeps a part of what it is given (prune).
LEMMA PruneIsSubset ==
  ASSUME NEW log, NEW S, NEW t
  PROVE  Prune(log, S, t) \subseteq S
BY DEF Prune, Longest, Unexpired

\* Pruning keeps a part of what it is given (pruneRevoked).
LEMMA PruneRevokedIsSubset ==
  ASSUME NEW log, NEW S, NEW t
  PROVE  PruneRevoked(log, S, t) \subseteq S
BY DEF PruneRevoked, Unexpired

\* Appending a credential to the log leaves the earlier ones as they were.
LEMMA AppendKeeps ==
  ASSUME NEW log \in Seq(Credential), NEW c \in Credential
  PROVE  /\ Append(log, c) \in Seq(Credential)
         /\ Len(Append(log, c)) = Len(log) + 1
         /\ Append(log, c)[Len(log) + 1] = c
         /\ \A s \in 1..Len(log) : Append(log, c)[s] = log[s]
OBVIOUS

\* Every serial of the log has an expiry.
LEMMA ExpiresIsInt ==
  ASSUME NEW log \in Seq(Credential), NEW s \in 1..Len(log)
  PROVE  log[s].expires \in Int
<1>1. log[s] \in Credential
    OBVIOUS
<1>2. QED
    BY <1>1 DEF Credential

\* A log has finitely many serials.
LEMMA LogIsFinite ==
  ASSUME NEW log \in Seq(Credential)
  PROVE  IsFiniteSet(1..Len(log))
<1>1. Len(log) \in Int
    OBVIOUS
<1>2. QED
    BY <1>1, FS_Interval

\* MemoryStore.max is positive whatever the configuration says.
LEMMA MaxSessionsIsPositive == MaxSessions \in Nat \ {0}
BY BoundIsInt, DefaultIsPositive DEF MaxSessions

----------------------------------------------------------------------------
\* StoreTypeOK is an invariant of the store.
LEMMA StoreTypeInit == StoreInit => StoreTypeOK
BY DEF StoreInit, StoreTypeOK, Serials

\* Each method of the store keeps the types.
LEMMA StoreTypeStep == StoreTypeOK /\ [StoreNext]_storeVars => StoreTypeOK'
<1> SUFFICES ASSUME StoreTypeOK, [StoreNext]_storeVars
             PROVE  StoreTypeOK'
    OBVIOUS
<1> USE DEF StoreTypeOK, Serials
<1>1. CASE Tick
    BY <1>1 DEF Tick
<1>2. ASSUME NEW u \in Users, NEW k \in Kinds, NEW l \in Lifetimes, Add(u, k, l)
      PROVE  StoreTypeOK'
    <2> DEFINE c == [user |-> u, kind |-> k, expires |-> now + l]
    <2>1. c \in Credential
        BY LifetimesAreInt DEF Credential
    <2>2. issued' = Append(issued, c)
        BY <1>2 DEF Add
    <2>3. issued' \in Seq(Credential) /\ Len(issued') = Len(issued) + 1
        BY <2>1, <2>2, AppendKeeps
    <2>4. held' \subseteq held \cup {Len(issued')}
        BY <1>2, PruneIsSubset DEF Add
    <2>5. UNCHANGED <<now, revoked, ordered>>
        BY <1>2 DEF Add
    <2>6. Len(issued) \in Nat /\ 1..Len(issued) \subseteq 1..Len(issued')
        BY <2>3
    <2>7. QED
        BY <2>3, <2>4, <2>5, <2>6
<1>3. CASE Look
    BY <1>3, PruneIsSubset DEF Look
<1>4. ASSUME NEW s \in Serials, Revoke(s)
      PROVE  StoreTypeOK'
    BY <1>4, PruneRevokedIsSubset DEF Revoke
<1>5. CASE ReadRevocations
    BY <1>5, PruneRevokedIsSubset DEF ReadRevocations, LiveRevocations
<1>6. CASE UNCHANGED storeVars
    BY <1>6 DEF storeVars
<1>7. QED
    BY <1>1, <1>2, <1>3, <1>4, <1>5, <1>6 DEF StoreNext

\* The store's variables keep their types, and it names only issued serials.
THEOREM StoreTypeCorrect == StoreSpec => []StoreTypeOK
BY StoreTypeInit, StoreTypeStep, PTL DEF StoreSpec

----------------------------------------------------------------------------
\* RevocationsAreHeld holds when the process starts.
LEMMA RevocationsHeldInit == StoreInit => RevocationsAreHeld
BY DEF StoreInit, RevocationsAreHeld, Unexpired

\* Each method of the store keeps every revocation that still matters.
LEMMA RevocationsHeldStep ==
  StoreTypeOK /\ RevocationsAreHeld /\ [StoreNext]_storeVars => RevocationsAreHeld'
<1> SUFFICES ASSUME StoreTypeOK, RevocationsAreHeld, [StoreNext]_storeVars
             PROVE  RevocationsAreHeld'
    OBVIOUS
<1> USE DEF StoreTypeOK, Serials, RevocationsAreHeld, Unexpired, Expired
<1>1. CASE Tick
    <2>1. \A s \in Serials : issued[s].expires \in Int
        BY ExpiresIsInt
    <2>2. now' = now + 1 /\ UNCHANGED <<issued, revoked, ordered>>
        BY <1>1 DEF Tick
    <2>3. ASSUME NEW s \in ordered, ~(now' > issued[s].expires)
          PROVE  ~(now > issued[s].expires)
        BY <2>1, <2>2, <2>3
    <2>4. QED
        BY <2>2, <2>3
<1>2. ASSUME NEW u \in Users, NEW k \in Kinds, NEW l \in Lifetimes, Add(u, k, l)
      PROVE  RevocationsAreHeld'
    <2> DEFINE c == [user |-> u, kind |-> k, expires |-> now + l]
    <2>1. c \in Credential
        BY LifetimesAreInt DEF Credential
    <2>2. \A s \in Serials : issued'[s] = issued[s]
        BY <1>2, <2>1, AppendKeeps DEF Add
    <2>3. UNCHANGED <<now, revoked, ordered>>
        BY <1>2 DEF Add
    <2>4. QED
        BY <2>2, <2>3
<1>3. CASE Look
    BY <1>3 DEF Look
<1>4. ASSUME NEW s \in Serials, Revoke(s)
      PROVE  RevocationsAreHeld'
    BY <1>4 DEF Revoke, PruneRevoked
<1>5. CASE ReadRevocations
    BY <1>5 DEF ReadRevocations, LiveRevocations, PruneRevoked
<1>6. CASE UNCHANGED storeVars
    BY <1>6 DEF storeVars
<1>7. QED
    BY <1>1, <1>2, <1>3, <1>4, <1>5, <1>6 DEF StoreNext

\* No revocation leaves the store while its certificate is valid, and none is
\* there that was not ordered (pruneRevoked).
THEOREM RevocationsHeld == StoreSpec => []RevocationsAreHeld
<1>1. StoreTypeOK /\ RevocationsAreHeld /\ [StoreNext]_storeVars => RevocationsAreHeld'
    BY RevocationsHeldStep
<1>2. QED
    BY <1>1, RevocationsHeldInit, StoreTypeCorrect, PTL DEF StoreSpec

----------------------------------------------------------------------------
(* What the cap keeps. Outlives is a strict total order on the serials of a *)
(* log, so Longest keeps an initial part of it.                             *)

\* No credential outlives itself.
LEMMA OutlivesIrreflexive ==
  ASSUME NEW log \in Seq(Credential), NEW a \in 1..Len(log)
  PROVE  ~Outlives(log, a, a)
BY ExpiresIsInt DEF Outlives

\* Outlives is transitive.
LEMMA OutlivesTransitive ==
  ASSUME NEW log \in Seq(Credential),
         NEW a \in 1..Len(log), NEW b \in 1..Len(log), NEW c \in 1..Len(log),
         Outlives(log, a, b), Outlives(log, b, c)
  PROVE  Outlives(log, a, c)
<1>1. /\ log[a].expires \in Int
      /\ log[b].expires \in Int
      /\ log[c].expires \in Int
    BY ExpiresIsInt
<1>2. QED
    BY <1>1 DEF Outlives

\* A non-empty set of serials has one that no other outlives.
LEMMA LongestLivedExists ==
  ASSUME NEW log \in Seq(Credential), NEW X \in SUBSET (1..Len(log)), X # {}
  PROVE  \E t \in X : \A y \in X : ~Outlives(log, y, t)
<1> DEFINE better(t) == {y \in X : Outlives(log, y, t)}
           F == {better(t) : t \in X}
           O == StrictSubsetOrdering(X)
<1>1. IsFiniteSet(X)
    BY LogIsFinite, FS_Subset
<1>2. F \subseteq FiniteSubsetsOf(X) /\ F # {}
    <2>1. \A t \in X : better(t) \subseteq X /\ IsFiniteSet(better(t))
        BY <1>1, FS_Subset
    <2>2. QED
        BY <2>1 DEF FiniteSubsetsOf
<1>3. IsWellFoundedOn(O, FiniteSubsetsOf(X))
    BY FS_StrictSubsetOrderingWellFounded
<1>4. PICK m \in F : \A B \in F : <<B, m>> \notin O
    <2> HIDE DEF F, O
    <2>1. QED
        BY <1>2, <1>3, WFMin
<1>5. PICK t \in X : m = better(t)
    OBVIOUS
<1>6. ASSUME NEW y \in X, Outlives(log, y, t)
      PROVE  FALSE
    <2>1. better(y) \subseteq better(t)
        BY <1>6, OutlivesTransitive
    <2>2. y \in better(t) /\ y \notin better(y)
        BY <1>6, OutlivesIrreflexive
    <2>3. <<better(y), better(t)>> \in O
        BY <2>1, <2>2 DEF StrictSubsetOrdering
    <2>4. QED
        BY <1>4, <1>5, <2>3
<1>7. QED
    BY <1>6

\* The members of S that outlive s: a credential is kept while these are fewer
\* than the bound.
Betters(log, S, s) == {t \in S : Outlives(log, t, s)}

\* A larger set has more members that outlive s.
LEMMA BettersMonotonic ==
  ASSUME NEW log \in Seq(Credential), NEW T \in SUBSET (1..Len(log)), NEW S \in SUBSET T,
         NEW a, NEW b, Betters(log, S, a) \subseteq Betters(log, T, b)
  PROVE  /\ Cardinality(Betters(log, S, a)) \in Nat
         /\ Cardinality(Betters(log, T, b)) \in Nat
         /\ Cardinality(Betters(log, S, a)) <= Cardinality(Betters(log, T, b))
<1>1. IsFiniteSet(Betters(log, T, b))
    BY LogIsFinite, FS_Subset DEF Betters
<1>2. QED
    BY <1>1, FS_Subset, FS_CardinalityType

\* Longest in terms of Betters.
LEMMA LongestByBetters ==
  ASSUME NEW log, NEW S
  PROVE  Longest(log, S) = {s \in S : Cardinality(Betters(log, S, s)) < MaxSessions}
BY DEF Longest, Betters

\* Whatever outlives a credential that is kept is kept too.
LEMMA LongestIsUpwardClosed ==
  ASSUME NEW log \in Seq(Credential), NEW S \in SUBSET (1..Len(log)),
         NEW s \in Longest(log, S), NEW t \in S, Outlives(log, t, s)
  PROVE  t \in Longest(log, S)
<1>1. s \in S
    BY LongestByBetters
<1>2. Betters(log, S, t) \subseteq Betters(log, S, s)
    BY <1>1, OutlivesTransitive DEF Betters
<1>3. Cardinality(Betters(log, S, t)) <= Cardinality(Betters(log, S, s))
      /\ Cardinality(Betters(log, S, t)) \in Nat
      /\ Cardinality(Betters(log, S, s)) \in Nat
    BY <1>2, BettersMonotonic
<1>4. Cardinality(Betters(log, S, s)) < MaxSessions
    BY LongestByBetters
<1>5. QED
    BY <1>3, <1>4, MaxSessionsIsPositive, LongestByBetters

\* A part of S that whatever outlives its members belongs to is cut at the bound
\* as S is: expiry takes away the shortest-lived, and the cap does not notice.
LEMMA LongestOfUpperPart ==
  ASSUME NEW log \in Seq(Credential), NEW S \in SUBSET (1..Len(log)), NEW T \in SUBSET S,
         \A s \in T, t \in S : Outlives(log, t, s) => t \in T
  PROVE  Longest(log, T) = Longest(log, S) \cap T
<1>1. \A s \in T : Betters(log, T, s) = Betters(log, S, s)
    BY DEF Betters
<1>2. QED
    BY <1>1, LongestByBetters

\* An eviction is never regretted: what the cap dropped from S would have been
\* dropped again from what it kept of S and any set N of newcomers.
LEMMA LongestOfKept ==
  ASSUME NEW log \in Seq(Credential), NEW S \in SUBSET (1..Len(log)),
         NEW N \in SUBSET (1..Len(log))
  PROVE  Longest(log, Longest(log, S) \cup N) = Longest(log, S \cup N)
<1> DEFINE K == Longest(log, S)
<1>1. K \subseteq S
    BY LongestByBetters
<1>2. ASSUME NEW s \in Longest(log, S \cup N)
      PROVE  s \in Longest(log, K \cup N)
    <2>1. s \in S \cup N /\ Cardinality(Betters(log, S \cup N, s)) < MaxSessions
        BY LongestByBetters
    <2>2. Betters(log, K \cup N, s) \subseteq Betters(log, S \cup N, s)
        BY <1>1 DEF Betters
    <2>3. Cardinality(Betters(log, K \cup N, s)) < MaxSessions
        <3>1. K \cup N \in SUBSET (S \cup N) /\ S \cup N \in SUBSET (1..Len(log))
            BY <1>1
        <3>2. /\ Cardinality(Betters(log, K \cup N, s)) \in Nat
              /\ Cardinality(Betters(log, S \cup N, s)) \in Nat
              /\ Cardinality(Betters(log, K \cup N, s)) <= Cardinality(Betters(log, S \cup N, s))
            BY <2>2, <3>1, BettersMonotonic
        <3>3. QED
            BY <2>1, <3>2, MaxSessionsIsPositive
    <2>4. s \in K \cup N
        <3>1. CASE s \in S
            <4>1. Betters(log, S, s) \subseteq Betters(log, S \cup N, s)
                BY DEF Betters
            <4>2. /\ Cardinality(Betters(log, S, s)) \in Nat
                  /\ Cardinality(Betters(log, S \cup N, s)) \in Nat
                  /\ Cardinality(Betters(log, S, s)) <= Cardinality(Betters(log, S \cup N, s))
                BY <4>1, BettersMonotonic
            <4>3. QED
                BY <2>1, <3>1, <4>2, MaxSessionsIsPositive, LongestByBetters
        <3>2. QED
            BY <2>1, <3>1
    <2>5. QED
        BY <2>3, <2>4, LongestByBetters
<1>3. ASSUME NEW s \in Longest(log, K \cup N)
      PROVE  s \in Longest(log, S \cup N)
    <2>1. s \in K \cup N /\ Cardinality(Betters(log, K \cup N, s)) < MaxSessions
        BY LongestByBetters
    <2> DEFINE X == {t \in S \ K : Outlives(log, t, s)}
    <2>2. X = {}
        <3>1. SUFFICES ASSUME X # {} PROVE FALSE
            OBVIOUS
        <3>2. PICK t \in X : \A y \in X : ~Outlives(log, y, t)
            BY <3>1, LongestLivedExists
        <3>3. s \in 1..Len(log)
            BY <1>1, <2>1
        <3>4. Betters(log, S, t) \subseteq Betters(log, K \cup N, s)
            <4>1. ASSUME NEW y \in S, Outlives(log, y, t)
                  PROVE  y \in K /\ Outlives(log, y, s)
                <5>1. Outlives(log, y, s)
                    BY <3>3, <4>1, OutlivesTransitive
                <5>2. y \in K
                    BY <3>2, <4>1, <5>1
                <5>3. QED
                    BY <5>1, <5>2
            <4>2. QED
                BY <4>1 DEF Betters
        <3>5. /\ Cardinality(Betters(log, S, t)) \in Nat
              /\ Cardinality(Betters(log, K \cup N, s)) \in Nat
              /\ Cardinality(Betters(log, S, t)) <= Cardinality(Betters(log, K \cup N, s))
            <4>1. Betters(log, S, t) \subseteq Betters(log, S \cup N, s)
                BY <1>1, <3>4 DEF Betters
            <4>2. IsFiniteSet(Betters(log, K \cup N, s))
                BY <1>1, LogIsFinite, FS_Subset DEF Betters
            <4>3. QED
                BY <3>4, <4>2, FS_Subset, FS_CardinalityType
        <3>6. ~(Cardinality(Betters(log, S, t)) < MaxSessions)
            BY LongestByBetters
        <3>7. QED
            BY <2>1, <3>5, <3>6, MaxSessionsIsPositive
    <2>3. Betters(log, S \cup N, s) = Betters(log, K \cup N, s)
        BY <1>1, <2>2 DEF Betters
    <2>4. s \in S \cup N
        BY <1>1, <2>1
    <2>5. QED
        BY <2>1, <2>3, <2>4, LongestByBetters
<1>4. QED
    BY <1>2, <1>3

----------------------------------------------------------------------------
\* A longer log cuts a set of its older serials as the shorter one did.
LEMMA LongestUnderAppend ==
  ASSUME NEW log \in Seq(Credential), NEW c \in Credential,
         NEW S \in SUBSET (1..Len(log)), NEW t
  PROVE  /\ Longest(Append(log, c), S) = Longest(log, S)
         /\ Unexpired(Append(log, c), S, t) = Unexpired(log, S, t)
<1>1. \A s \in S : Append(log, c)[s] = log[s]
    BY AppendKeeps
<1>2. \A s \in S : {r \in S : Outlives(Append(log, c), r, s)} = {r \in S : Outlives(log, r, s)}
    BY <1>1 DEF Outlives
<1>3. QED
    BY <1>1, <1>2 DEF Longest, Unexpired, Expired

\* Looking at the store changes none of what it answers.
LEMMA PruneAgain ==
  ASSUME NEW log \in Seq(Credential), NEW S \in SUBSET (1..Len(log)), NEW t
  PROVE  /\ Unexpired(log, Prune(log, S, t), t) = Prune(log, S, t)
         /\ Longest(log, Prune(log, S, t)) = Prune(log, S, t)
<1> DEFINE L == Unexpired(log, S, t)
<1>1. L \in SUBSET (1..Len(log)) /\ Longest(log, L) \subseteq L
    BY DEF Unexpired, Longest
<1>2. Longest(log, Longest(log, L) \cup {}) = Longest(log, L \cup {})
    BY <1>1, LongestOfKept
<1>3. QED
    BY <1>1, <1>2 DEF Prune, Unexpired

\* HeldAreTheLongestLived holds when the process starts.
LEMMA RetentionInit == StoreInit => HeldAreTheLongestLived
BY DEF StoreInit, HeldAreTheLongestLived, Unexpired, Prune, Longest, Serials

\* Time passing takes the same credentials from the list and from the ideal.
LEMMA RetentionTick ==
  ASSUME StoreTypeOK, HeldAreTheLongestLived, Tick
  PROVE  HeldAreTheLongestLived'
<1> DEFINE L == Unexpired(issued, Serials, now)
           M == Unexpired(issued, Serials, now + 1)
<1>1. now' = now + 1 /\ UNCHANGED <<issued, held>> /\ now \in Nat
      /\ issued \in Seq(Credential) /\ held \subseteq Serials
    BY DEF Tick, StoreTypeOK
<1>2. \A s \in Serials : issued[s].expires \in Int
    BY <1>1, ExpiresIsInt DEF Serials
<1>3. L \in SUBSET (1..Len(issued)) /\ M \in SUBSET L
    BY <1>1, <1>2 DEF Unexpired, Expired, Serials
<1>4. \A s \in M, t \in L : Outlives(issued, t, s) => t \in M
    <2> SUFFICES ASSUME NEW s \in M, NEW t \in L, Outlives(issued, t, s)
                 PROVE  t \in M
        OBVIOUS
    <2>1. s \in Serials /\ t \in Serials /\ ~(now + 1 > issued[s].expires)
        BY DEF Unexpired, Expired
    <2>2. issued[s].expires \in Int /\ issued[t].expires \in Int
        BY <1>2, <2>1
    <2>3. issued[t].expires >= issued[s].expires
        BY <2>2 DEF Outlives
    <2>4. ~(now + 1 > issued[t].expires)
        BY <1>1, <2>1, <2>2, <2>3
    <2>5. QED
        BY <2>1, <2>4 DEF Unexpired, Expired
<1>5. Longest(issued, M) = Longest(issued, L) \cap M
    BY <1>1, <1>3, <1>4, LongestOfUpperPart
<1>6. Unexpired(issued, held, now + 1) = Unexpired(issued, held, now) \cap M
    BY <1>1, <1>3 DEF Unexpired
<1>7. Unexpired(issued, held, now) = Longest(issued, L)
    BY DEF HeldAreTheLongestLived, Prune
<1>8. QED
    BY <1>1, <1>5, <1>6, <1>7 DEF HeldAreTheLongestLived, Prune, Serials

\* A newcomer is weighed against what the list kept with the same result as
\* against everything that was ever issued.
LEMMA RetentionAdd ==
  ASSUME StoreTypeOK, HeldAreTheLongestLived,
         NEW u \in Users, NEW k \in Kinds, NEW l \in Lifetimes, Add(u, k, l)
  PROVE  HeldAreTheLongestLived'
<1> DEFINE c == [user |-> u, kind |-> k, expires |-> now + l]
           n == Len(issued) + 1
           L == Unexpired(issued, Serials, now)
           N == Unexpired(issued', {n}, now)
<1>1. now \in Nat /\ issued \in Seq(Credential) /\ held \subseteq Serials
    BY DEF StoreTypeOK
<1>2. c \in Credential
    BY <1>1, LifetimesAreInt DEF Credential
<1>3. /\ issued' = Append(issued, c)
      /\ issued' \in Seq(Credential)
      /\ Len(issued') = n
      /\ now' = now
      /\ held' = Prune(issued', held \cup {n}, now)
    <2>1. issued' = Append(issued, c) /\ now' = now
          /\ held' = Prune(issued', held \cup {Len(issued')}, now)
        BY DEF Add
    <2>2. QED
        BY <1>1, <1>2, <2>1, AppendKeeps
<1>4. Serials' = Serials \cup {n} /\ Serials \subseteq 1..Len(issued)
    BY <1>1, <1>3 DEF Serials
<1> HIDE DEF c, n
<1>5. Unexpired(issued', held \cup {n}, now) = Unexpired(issued, held, now) \cup N
    <2>1. Unexpired(issued', held, now) = Unexpired(issued, held, now)
        BY <1>1, <1>2, <1>3, LongestUnderAppend DEF Serials
    <2>2. QED
        BY <2>1 DEF Unexpired
<1>6. Unexpired(issued', Serials', now) = L \cup N
    <2>1. Unexpired(issued', Serials, now) = L
        BY <1>1, <1>2, <1>3, <1>4, LongestUnderAppend
    <2>2. QED
        BY <1>4, <2>1 DEF Unexpired
<1>7. Unexpired(issued, held, now) = Longest(issued', L)
    <2>1. L \in SUBSET (1..Len(issued))
        BY <1>4 DEF Unexpired
    <2>2. Longest(issued', L) = Longest(issued, L)
        BY <1>1, <1>2, <1>3, <2>1, LongestUnderAppend
    <2>3. QED
        BY <2>2 DEF HeldAreTheLongestLived, Prune
<1>8. L \in SUBSET (1..Len(issued')) /\ N \in SUBSET (1..Len(issued'))
    BY <1>4 DEF Unexpired, Serials
<1>9. Longest(issued', Longest(issued', L) \cup N) = Longest(issued', L \cup N)
    <2>1. ASSUME NEW log \in Seq(Credential), NEW S \in SUBSET (1..Len(log)),
                 NEW T \in SUBSET (1..Len(log))
          PROVE  Longest(log, Longest(log, S) \cup T) = Longest(log, S \cup T)
        BY LongestOfKept
    <2> HIDE DEF L, N
    <2>2. QED
        BY <1>3, <1>8, <2>1
<1>10. held' = Prune(issued', Serials', now)
    BY <1>3, <1>5, <1>6, <1>7, <1>9 DEF Prune
<1>11. Unexpired(issued', held', now) = held'
    <2>1. ASSUME NEW log \in Seq(Credential), NEW S \in SUBSET (1..Len(log)), NEW t
          PROVE  Unexpired(log, Prune(log, S, t), t) = Prune(log, S, t)
        BY PruneAgain
    <2>2. Serials' \in SUBSET (1..Len(issued'))
        BY DEF Serials
    <2>3. Unexpired(issued', Prune(issued', Serials', now), now) = Prune(issued', Serials', now)
        BY <1>3, <2>1, <2>2
    <2>4. QED
        BY <1>3, <1>10, <2>3
<1>12. QED
    BY <1>3, <1>10, <1>11 DEF HeldAreTheLongestLived, Serials

\* Each method of the store keeps HeldAreTheLongestLived.
LEMMA RetentionStep ==
  StoreTypeOK /\ HeldAreTheLongestLived /\ [StoreNext]_storeVars => HeldAreTheLongestLived'
<1> SUFFICES ASSUME StoreTypeOK, HeldAreTheLongestLived, [StoreNext]_storeVars
             PROVE  HeldAreTheLongestLived'
    OBVIOUS
<1>1. ASSUME Look
      PROVE  HeldAreTheLongestLived'
    <2>1. /\ issued \in Seq(Credential) /\ held \subseteq 1..Len(issued)
          /\ held' = Prune(issued, held, now) /\ UNCHANGED <<now, issued>>
        BY <1>1 DEF Look, StoreTypeOK, Serials
    <2>2. Unexpired(issued, held', now) = held'
        BY <2>1, PruneAgain
    <2>3. Longest(issued, Prune(issued, Serials, now)) = Prune(issued, Serials, now)
        BY <2>1, PruneAgain DEF Serials
    <2>4. held' = Prune(issued, Serials, now)
        BY <2>1, <2>3 DEF Prune, HeldAreTheLongestLived
    <2>5. QED
        BY <2>1, <2>2, <2>4 DEF HeldAreTheLongestLived, Serials
<1>2. ASSUME UNCHANGED <<now, issued, held>>
      PROVE  HeldAreTheLongestLived'
    BY <1>2 DEF HeldAreTheLongestLived, Serials
<1>3. QED
    BY <1>1, <1>2, RetentionTick, RetentionAdd
       DEF StoreNext, Revoke, ReadRevocations, storeVars

\* For every bound and every history of calls, the credentials that can be
\* revoked are the longest-lived of all the unexpired ones issued (prune).
THEOREM RetentionCorrect == StoreSpec => []HeldAreTheLongestLived
BY RetentionInit, RetentionStep, StoreTypeCorrect, PTL DEF StoreSpec

----------------------------------------------------------------------------
\* A non-empty set of serials has one that outlives no other.
LEMMA ShortestLivedExists ==
  ASSUME NEW log \in Seq(Credential), NEW X \in SUBSET (1..Len(log)), X # {}
  PROVE  \E t \in X : \A y \in X : ~Outlives(log, t, y)
<1> DEFINE worse(t) == {y \in X : Outlives(log, t, y)}
           F == {worse(t) : t \in X}
           O == StrictSubsetOrdering(X)
<1>1. IsFiniteSet(X)
    BY LogIsFinite, FS_Subset
<1>2. F \subseteq FiniteSubsetsOf(X) /\ F # {}
    <2>1. \A t \in X : worse(t) \subseteq X /\ IsFiniteSet(worse(t))
        BY <1>1, FS_Subset
    <2>2. QED
        BY <2>1 DEF FiniteSubsetsOf
<1>3. IsWellFoundedOn(O, FiniteSubsetsOf(X))
    BY FS_StrictSubsetOrderingWellFounded
<1>4. PICK m \in F : \A B \in F : <<B, m>> \notin O
    <2> HIDE DEF F, O
    <2>1. QED
        BY <1>2, <1>3, WFMin
<1>5. PICK t \in X : m = worse(t)
    OBVIOUS
<1>6. ASSUME NEW y \in X, Outlives(log, t, y)
      PROVE  FALSE
    <2>1. worse(y) \subseteq worse(t)
        BY <1>6, OutlivesTransitive
    <2>2. y \in worse(t) /\ y \notin worse(y)
        BY <1>6, OutlivesIrreflexive
    <2>3. <<worse(y), worse(t)>> \in O
        BY <2>1, <2>2 DEF StrictSubsetOrdering
    <2>4. QED
        BY <1>4, <1>5, <2>3
<1>7. QED
    BY <1>6

\* Longest keeps no more than the bound: the last one it keeps is outlived by
\* all the others.
LEMMA LongestIsBounded ==
  ASSUME NEW log \in Seq(Credential), NEW S \in SUBSET (1..Len(log))
  PROVE  Cardinality(Longest(log, S)) <= MaxSessions
<1> DEFINE K == Longest(log, S)
<1>1. K \subseteq S
    BY LongestByBetters
<1>2. CASE K = {}
    BY <1>2, FS_EmptySet, MaxSessionsIsPositive
<1>3. CASE K # {}
    <2>1. PICK w \in K : \A y \in K : ~Outlives(log, w, y)
        BY <1>1, <1>3, ShortestLivedExists
    <2>2. ASSUME NEW y \in K, y # w
          PROVE  Outlives(log, y, w)
        <3>1. log[y].expires \in Int /\ log[w].expires \in Int
            BY <1>1, ExpiresIsInt
        <3>2. y \in Int /\ w \in Int
            <4>1. y \in 1..Len(log) /\ w \in 1..Len(log)
                BY <1>1
            <4>2. QED
                BY <4>1
        <3>3. ~Outlives(log, w, y)
            BY <2>1
        <3>4. QED
            BY <2>2, <3>1, <3>2, <3>3 DEF Outlives
    <2>3. K \subseteq Betters(log, S, w) \cup {w}
        BY <1>1, <2>2 DEF Betters
    <2>4. IsFiniteSet(Betters(log, S, w))
        BY LogIsFinite, FS_Subset DEF Betters
    <2>5. /\ IsFiniteSet(Betters(log, S, w) \cup {w})
          /\ Cardinality(Betters(log, S, w) \cup {w}) <= Cardinality(Betters(log, S, w)) + 1
          /\ Cardinality(Betters(log, S, w)) \in Nat
          /\ Cardinality(Betters(log, S, w) \cup {w}) \in Nat
        <3>1. Cardinality(Betters(log, S, w)) \in Nat
            BY <2>4, FS_CardinalityType
        <3>2. /\ IsFiniteSet(Betters(log, S, w) \cup {w})
              /\ Cardinality(Betters(log, S, w) \cup {w}) =
                    IF w \in Betters(log, S, w) THEN Cardinality(Betters(log, S, w))
                                               ELSE Cardinality(Betters(log, S, w)) + 1
            BY <2>4, FS_AddElement
        <3>3. QED
            BY <3>1, <3>2
    <2>6. Cardinality(K) <= Cardinality(Betters(log, S, w) \cup {w}) /\ Cardinality(K) \in Nat
        BY <2>3, <2>5, FS_Subset, FS_CardinalityType
    <2>7. Cardinality(Betters(log, S, w)) < MaxSessions
        BY <2>1, LongestByBetters
    <2>8. QED
        BY <2>5, <2>6, <2>7, MaxSessionsIsPositive
<1>4. QED
    BY <1>2, <1>3

\* The store never holds more sessions than its bound (prune, max).
THEOREM StoreIsBounded == StoreSpec => []HeldAreBounded
<1>1. StoreInit => HeldAreBounded
    BY FS_EmptySet, MaxSessionsIsPositive DEF StoreInit, HeldAreBounded
<1>2. StoreTypeOK /\ StoreTypeOK' /\ HeldAreBounded /\ [StoreNext]_storeVars => HeldAreBounded'
    <2> SUFFICES ASSUME StoreTypeOK, StoreTypeOK', HeldAreBounded, [StoreNext]_storeVars
                 PROVE  HeldAreBounded'
        OBVIOUS
    <2>1. ASSUME NEW S \in SUBSET Serials', held' = Prune(issued', S, now)
          PROVE  HeldAreBounded'
        <3>1. issued' \in Seq(Credential) /\ Unexpired(issued', S, now) \in SUBSET (1..Len(issued'))
            BY <2>1 DEF StoreTypeOK, Serials, Unexpired
        <3>2. ASSUME NEW log \in Seq(Credential), NEW T \in SUBSET (1..Len(log))
              PROVE  Cardinality(Longest(log, T)) <= MaxSessions
            BY LongestIsBounded
        <3>3. QED
            BY <2>1, <3>1, <3>2 DEF Prune, HeldAreBounded
    <2>2. CASE Look
        BY <2>1, <2>2 DEF Look, StoreTypeOK, Serials
    <2>3. ASSUME NEW u \in Users, NEW k \in Kinds, NEW l \in Lifetimes, Add(u, k, l)
          PROVE  HeldAreBounded'
        <3>1. held' = Prune(issued', held \cup {Len(issued')}, now)
            BY <2>3 DEF Add
        <3>2. Len(issued') = Len(issued) + 1 /\ Len(issued) \in Nat /\ held \subseteq 1..Len(issued)
            BY <2>3 DEF Add, StoreTypeOK, Serials
        <3>3. held \cup {Len(issued')} \in SUBSET Serials'
            <4>1. held \subseteq 1..Len(issued') /\ Len(issued') \in 1..Len(issued')
                BY <3>2
            <4>2. QED
                BY <4>1 DEF Serials
        <3>4. QED
            BY <2>1, <3>1, <3>3
    <2>4. CASE UNCHANGED held
        BY <2>4 DEF HeldAreBounded
    <2>5. QED
        BY <2>2, <2>3, <2>4 DEF StoreNext, Tick, Revoke, ReadRevocations, storeVars
<1>3. QED
    BY <1>1, <1>2, StoreTypeCorrect, PTL DEF StoreSpec

----------------------------------------------------------------------------
\* A credential that is still valid can be found, unless the list is full of
\* credentials that outlive it.
MissingAreOutlived ==
    \A s \in Serials : ~Expired(issued, s, now) =>
        \/ s \in Prune(issued, held, now)
        \/ Cardinality({t \in held : Outlives(issued, t, s)}) >= MaxSessions

\* What the cap weighs: a valid credential that it dropped would be dropped again
\* if it came anew.
LEMMA MissingFollows ==
  ASSUME StoreTypeOK, HeldAreTheLongestLived
  PROVE  MissingAreOutlived
<1> DEFINE L == Unexpired(issued, Serials, now)
           U == Unexpired(issued, held, now)
<1>1. /\ issued \in Seq(Credential) /\ held \subseteq Serials
      /\ L \in SUBSET (1..Len(issued)) /\ U \subseteq held
    BY DEF StoreTypeOK, Unexpired, Serials
<1>2. U = Longest(issued, L)
    BY DEF HeldAreTheLongestLived, Prune
<1>3. Prune(issued, held, now) = U
    <2>1. Longest(issued, Prune(issued, Serials, now)) = Prune(issued, Serials, now)
        BY <1>1, PruneAgain DEF Serials
    <2>2. QED
        BY <2>1 DEF Prune, HeldAreTheLongestLived
<1> SUFFICES ASSUME NEW s \in Serials, ~Expired(issued, s, now), s \notin U,
                    ~(Cardinality({t \in held : Outlives(issued, t, s)}) >= MaxSessions)
             PROVE  FALSE
    BY <1>3 DEF MissingAreOutlived
<1>4. s \in L /\ s \in 1..Len(issued)
    BY DEF Unexpired, Serials
<1> HIDE DEF L, U
<1>5. Betters(issued, U \cup {s}, s) \subseteq Betters(issued, held, s)
    BY <1>1, <1>4, OutlivesIrreflexive DEF Betters
<1>6. Cardinality(Betters(issued, U \cup {s}, s)) < MaxSessions
    <2>1. IsFiniteSet(Betters(issued, held, s))
        BY <1>1, LogIsFinite, FS_Subset DEF Betters, Serials
    <2>2. /\ Cardinality(Betters(issued, held, s)) \in Nat
          /\ Cardinality(Betters(issued, U \cup {s}, s)) \in Nat
          /\ Cardinality(Betters(issued, U \cup {s}, s)) <= Cardinality(Betters(issued, held, s))
        BY <1>5, <2>1, FS_Subset, FS_CardinalityType
    <2>3. ~(Cardinality(Betters(issued, held, s)) >= MaxSessions)
        BY DEF Betters
    <2>4. QED
        BY <2>2, <2>3, MaxSessionsIsPositive
<1>7. s \in Longest(issued, U \cup {s})
    BY <1>6, LongestByBetters
<1>8. Longest(issued, Longest(issued, L) \cup {s}) = Longest(issued, L \cup {s})
    <2>1. \A N \in SUBSET (1..Len(issued)) :
             Longest(issued, Longest(issued, L) \cup N) = Longest(issued, L \cup N)
        BY <1>1, LongestOfKept
    <2>2. {s} \in SUBSET (1..Len(issued))
        BY <1>4
    <2>3. QED
        BY <2>1, <2>2
<1>9. L \cup {s} = L
    BY <1>4
<1>10. QED
    BY <1>2, <1>7, <1>8, <1>9

\* Whatever is valid and cannot be revoked any more has been pushed out by as many
\* longer-lived credentials as the list may hold, all of them held now (prune).
THEOREM MissingCorrect == StoreSpec => []MissingAreOutlived
BY MissingFollows, StoreTypeCorrect, RetentionCorrect, PTL
=============================================================================
