--------------------------- MODULE RateLimit_proofs ---------------------------
(* The limiter gives every user the capacity and what refills, refuses      *)
(* nobody who has some of it left, and keeps what a 429 promises, for any   *)
(* number of users and of requests that overtake each other.                *)
(*                                                                          *)
(* What a bucket will hold at t, while nobody touches it and it is not      *)
(* full, is tokens - last + t: a touch lowers tokens - last to Hour - t or  *)
(* leaves it, and a credential lowers it by one token. The invariant bounds *)
(* it from above and from below by what was granted.                        *)
EXTENDS RetryAfter, TLAPS

\* A waiting request read the clock at most MaxLag ago.
Timely ==
    \A r \in Requests : waiting[r] # None =>
        waiting[r].now <= clock /\ clock <= waiting[r].now + MaxLag

GrantsArePast == \A u \in Users : \A i \in DOMAIN granted[u] : granted[u][i] <= clock

\* No bucket is overdrawn now, though an overtaken request may find it so.
Solvent ==
    \A u \in DOMAIN buckets :
        /\ buckets[u].last <= clock
        /\ 0 <= buckets[u].tokens - buckets[u].last + clock

\* What the sweeps of u's bucket may have given away.
Blur(u) == 2 * (forgets[u] * MaxLag)

\* What is left to a user is not more than what was not granted.
PaidFor ==
    \A u \in Users : \A i \in DOMAIN granted[u] :
        IF u \in DOMAIN buckets
        THEN SpentSince(u, i) + buckets[u].tokens - buckets[u].last
                 <= Hour - granted[u][i] + Blur(u) + MaxLag
        ELSE SpentSince(u, i) + granted[u][i] <= clock + Blur(u)

\* Nor less: a bucket was full at some credential.
Earned ==
    \A u \in DOMAIN buckets : \E i \in DOMAIN granted[u] :
        SpentSince(u, i) + buckets[u].tokens - buckets[u].last >= Hour - granted[u][i]

IInv == TypeOK /\ Timely /\ GrantsArePast /\ Solvent /\ PaidFor /\ Earned

----------------------------------------------------------------------------
(* Arithmetic.                                                              *)

\* A token fits into the capacity, and both are whole numbers of ticks.
LEMMA CapacityHoldsAToken == Hour \in Nat /\ TokenTicks \in Nat \ {0} /\ TokenTicks <= Hour
<1>1. PerHour \in Nat /\ TokenTicks \in Nat \ {0} /\ PerHour >= 1
    BY CapacityIsPositive
<1>2. PerHour * TokenTicks \in Nat
    BY <1>1
<1>3. PerHour * TokenTicks = (PerHour - 1) * TokenTicks + TokenTicks
    BY <1>1
<1>4. (PerHour - 1) * TokenTicks >= 0
    BY <1>1
<1>5. QED
    BY <1>1, <1>2, <1>3, <1>4 DEF Hour

\* One more credential, or one more sweep, in ticks.
LEMMA OneMore ==
  ASSUME NEW k \in Nat, NEW m \in Nat
  PROVE  /\ k * m \in Nat
         /\ (k + 1) * m = k * m + m
         /\ (2 * k + 1) * m = 2 * (k * m) + m
         /\ 1 * m = m
<1>1. k * m \in Nat
    OBVIOUS
<1>2. (k + 1) * m = k * m + m
    OBVIOUS
<1>3. (2 * k + 1) * m = 2 * (k * m) + m
    OBVIOUS
<1>4. 1 * m = m
    OBVIOUS
<1>5. QED
    BY <1>1, <1>2, <1>3, <1>4

\* What a bucket holds.
LEMMA BucketHolds ==
  ASSUME NEW b \in Bucket
  PROVE  b.tokens \in Int /\ b.tokens >= -MaxLag /\ b.tokens <= Hour /\ b.last \in Nat
<1>1. b.tokens \in -MaxLag..Hour /\ b.last \in Nat
    BY DEF Bucket
<1>2. -MaxLag \in Int /\ Hour \in Int
    BY LimitsAreNat, CapacityHoldsAToken
<1>3. QED
    BY ONLY <1>1, <1>2

\* What a sweep at t gives away of a bucket last touched at l, in an hour h.
LEMMA WhatASweepGives ==
  ASSUME NEW s \in Nat, NEW g \in Nat, NEW k \in Int, NEW l \in Nat, NEW b \in Nat,
         NEW m \in Nat, NEW h \in Nat, NEW c \in Nat, NEW t \in Nat,
         s + k - l <= h - g + b + m, k >= -m, t - l > h, t <= c
  PROVE  s + g <= c + b + 2 * m
OBVIOUS

\* Twice one more sweep.
LEMMA TwiceOneMore ==
  ASSUME NEW a \in Nat, NEW m \in Nat, NEW b, b = a + m
  PROVE  2 * b = 2 * a + 2 * m /\ 2 * a \in Nat
OBVIOUS

\* What a user spent is a number of ticks.
LEMMA SpentIsNat ==
  ASSUME TypeOK, NEW u \in Users, NEW i \in DOMAIN granted[u]
  PROVE  /\ SpentSince(u, i) \in Nat
         /\ granted[u][i] \in Nat
         /\ i \in Nat /\ Len(granted[u]) - i + 1 \in Nat
<1>1. granted[u] \in Seq(Nat)
    BY DEF TypeOK
<1>2. i \in 1..Len(granted[u]) /\ Len(granted[u]) \in Nat
    BY <1>1
<1>3. Len(granted[u]) - i + 1 \in Nat /\ i \in Nat
    BY <1>2
<1>4. (Len(granted[u]) - i + 1) * TokenTicks \in Nat
    BY <1>3, OneMore, CapacityHoldsAToken
<1>5. QED
    BY <1>1, <1>2, <1>3, <1>4 DEF SpentSince

----------------------------------------------------------------------------
(* A touch of a bucket.                                                     *)

\* What Touch does to every user's bucket: the one touched is written and stays,
\* and the others are as they were or gone, an hour after their last touch.
LEMMA TouchedBuckets ==
  ASSUME TypeOK, NEW u \in Users, NEW t \in Nat, NEW k, Touch(u, t, k)
  PROVE  /\ u \in DOMAIN buckets'
         /\ buckets'[u] = [tokens |-> k, last |-> t]
         /\ forgets'[u] = forgets[u]
         /\ DOMAIN buckets' \subseteq Users
         /\ \A v \in DOMAIN buckets' : v # u =>
                v \in DOMAIN buckets /\ buckets'[v] = buckets[v] /\ forgets'[v] = forgets[v]
         /\ \A v \in Users \ DOMAIN buckets' :
                /\ v # u
                /\ \/ v \notin DOMAIN buckets /\ forgets'[v] = forgets[v]
                   \/ /\ v \in DOMAIN buckets /\ forgets'[v] = forgets[v] + 1
                      /\ t - buckets[v].last > Hour
         /\ forgets' \in [Users -> Nat]
<1> DEFINE written == [v \in DOMAIN buckets \cup {u} |->
                          IF v = u THEN [tokens |-> k, last |-> t] ELSE buckets[v]]
           swept == Swept(written, t)
<1>1. /\ buckets' = [v \in DOMAIN written \ swept |-> written[v]]
      /\ forgets' = [v \in Users |-> IF v \in swept THEN forgets[v] + 1 ELSE forgets[v]]
    BY DEF Touch
<1>2. \A v \in swept : v \in DOMAIN written /\ ~Fresh(written[v], t)
    BY DEF Swept
<1>3. DOMAIN written = DOMAIN buckets \cup {u}
    OBVIOUS
<1>4. written[u] = [tokens |-> k, last |-> t]
    OBVIOUS
<1>5. \A v \in DOMAIN buckets : v # u => written[v] = buckets[v]
    OBVIOUS
<1>6. Fresh(written[u], t)
    BY <1>4, CapacityHoldsAToken DEF Fresh
<1>7. u \notin swept
    BY <1>2, <1>6
<1> HIDE DEF written, swept
<1>8. \A v \in DOMAIN buckets : buckets[v].last \in Nat
    BY DEF TypeOK, Bucket
<1>9. \A v \in swept : v \in DOMAIN buckets /\ v # u /\ t - buckets[v].last > Hour
    <2>1. ASSUME NEW v \in swept
          PROVE  v \in DOMAIN buckets /\ v # u /\ t - buckets[v].last > Hour
        <3>1. v # u /\ v \in DOMAIN buckets /\ written[v] = buckets[v]
            BY <1>2, <1>3, <1>5, <1>7
        <3>2. ~(t - buckets[v].last <= Hour)
            BY <1>2, <3>1 DEF Fresh
        <3>3. QED
            BY <1>8, <3>1, <3>2, CapacityHoldsAToken
    <2>2. QED
        BY <2>1
<1>10. DOMAIN buckets' = (DOMAIN buckets \cup {u}) \ swept
    BY <1>1, <1>3
<1>11. \A v \in DOMAIN buckets' : buckets'[v] = written[v]
    BY <1>1
<1>12. DOMAIN buckets \subseteq Users /\ forgets \in [Users -> Nat]
    BY DEF TypeOK
<1>13. \A v \in Users : forgets'[v] = IF v \in swept THEN forgets[v] + 1 ELSE forgets[v]
    BY <1>1
<1>14. forgets' \in [Users -> Nat]
    BY <1>1, <1>12
<1>15. u \in DOMAIN buckets' /\ buckets'[u] = [tokens |-> k, last |-> t] /\ forgets'[u] = forgets[u]
    BY <1>4, <1>7, <1>10, <1>11, <1>13
<1>16. DOMAIN buckets' \subseteq Users
    BY <1>10, <1>12
<1>17. ASSUME NEW v \in DOMAIN buckets', v # u
       PROVE  v \in DOMAIN buckets /\ buckets'[v] = buckets[v] /\ forgets'[v] = forgets[v]
    BY <1>5, <1>10, <1>11, <1>12, <1>13, <1>17
<1>18. ASSUME NEW v \in Users \ DOMAIN buckets'
       PROVE  /\ v # u
              /\ \/ v \notin DOMAIN buckets /\ forgets'[v] = forgets[v]
                 \/ /\ v \in DOMAIN buckets /\ forgets'[v] = forgets[v] + 1
                    /\ t - buckets[v].last > Hour
    BY <1>9, <1>10, <1>13, <1>15, <1>18
<1>19. QED
    BY <1>14, <1>15, <1>16, <1>17, <1>18

\* A step that touches u's bucket keeps the invariant, if it does for u.
LEMMA OthersKeepTheirs ==
  ASSUME IInv, NEW u \in Users, NEW t \in Nat, NEW k \in -MaxLag..Hour,
         Touch(u, t, k), clock' = clock, t <= clock,
         granted' \in [Users -> Seq(Nat)],
         \A v \in Users : v # u => granted'[v] = granted[v],
         \A i \in DOMAIN granted'[u] : granted'[u][i] <= clock,
         0 <= k - t + clock,
         \A i \in DOMAIN granted'[u] :
             SpentSince(u, i)' + k - t <= Hour - granted'[u][i] + Blur(u) + MaxLag,
         \E i \in DOMAIN granted'[u] : SpentSince(u, i)' + k - t >= Hour - granted'[u][i]
  PROVE  /\ DOMAIN buckets' \subseteq Users
         /\ \A v \in DOMAIN buckets' : buckets'[v] \in Bucket
         /\ forgets' \in [Users -> Nat]
         /\ GrantsArePast' /\ Solvent' /\ PaidFor' /\ Earned'
<1> USE DEF IInv
<1>1. /\ u \in DOMAIN buckets' /\ buckets'[u] = [tokens |-> k, last |-> t]
      /\ forgets'[u] = forgets[u]
      /\ DOMAIN buckets' \subseteq Users
      /\ forgets' \in [Users -> Nat]
    BY TouchedBuckets
<1>2. \A v \in DOMAIN buckets' : v # u =>
          v \in DOMAIN buckets /\ buckets'[v] = buckets[v] /\ forgets'[v] = forgets[v]
    BY TouchedBuckets
<1>3. \A v \in Users \ DOMAIN buckets' :
          /\ v # u
          /\ \/ v \notin DOMAIN buckets /\ forgets'[v] = forgets[v]
             \/ /\ v \in DOMAIN buckets /\ forgets'[v] = forgets[v] + 1
                /\ t - buckets[v].last > Hour
    BY TouchedBuckets
<1>4. ASSUME NEW v \in DOMAIN buckets'
      PROVE  buckets'[v] \in Bucket
    <2>1. CASE v = u
        <3>1. [tokens |-> k, last |-> t] \in Bucket
            BY DEF Bucket
        <3>2. QED
            BY <1>1, <2>1, <3>1
    <2>2. CASE v # u
        <3>1. \A w \in DOMAIN buckets : buckets[w] \in Bucket
            BY DEF TypeOK
        <3>2. QED
            BY ONLY <1>2, <1>4, <2>2, <3>1
    <2>3. QED
        BY <2>1, <2>2
<1>5. \A v \in Users : \A i : v # u => SpentSince(v, i)' = SpentSince(v, i)
    BY DEF SpentSince
<1>6. GrantsArePast'
    BY DEF GrantsArePast
<1>7. Solvent'
    <2> SUFFICES ASSUME NEW v \in DOMAIN buckets'
                 PROVE  /\ buckets'[v].last <= clock
                        /\ 0 <= buckets'[v].tokens - buckets'[v].last + clock
        BY DEF Solvent
    <2>1. CASE v = u
        BY <1>1, <2>1
    <2>2. CASE v # u
        <3>1. v \in DOMAIN buckets /\ buckets'[v] = buckets[v]
            BY <1>2, <2>2
        <3>2. QED
            BY <3>1 DEF Solvent
    <2>3. QED
        BY <2>1, <2>2
<1>8. Blur(u)' = Blur(u)
    BY <1>1 DEF Blur
<1>9. PaidFor'
    <2> SUFFICES ASSUME NEW v \in Users, NEW i \in DOMAIN granted'[v]
                 PROVE  IF v \in DOMAIN buckets'
                        THEN SpentSince(v, i)' + buckets'[v].tokens - buckets'[v].last
                                 <= Hour - granted'[v][i] + Blur(v)' + MaxLag
                        ELSE SpentSince(v, i)' + granted'[v][i] <= clock' + Blur(v)'
        BY DEF PaidFor
    <2>1. CASE v = u
        BY <1>1, <1>8, <2>1
    <2>2. CASE v # u /\ v \in DOMAIN buckets'
        <3>1. /\ v \in DOMAIN buckets /\ buckets'[v] = buckets[v] /\ Blur(v)' = Blur(v)
              /\ granted'[v] = granted[v] /\ SpentSince(v, i)' = SpentSince(v, i)
            BY <1>2, <1>5, <2>2 DEF Blur
        <3>2. SpentSince(v, i) + buckets[v].tokens - buckets[v].last
                  <= Hour - granted[v][i] + Blur(v) + MaxLag
            BY <3>1 DEF PaidFor
        <3>3. QED
            BY <2>2, <3>1, <3>2
    <2>3. CASE v # u /\ v \notin DOMAIN buckets'
        <3>1. granted'[v] = granted[v] /\ SpentSince(v, i)' = SpentSince(v, i)
            BY <1>5, <2>3
        <3>2. CASE v \notin DOMAIN buckets /\ forgets'[v] = forgets[v]
            <4>1. SpentSince(v, i) + granted[v][i] <= clock + Blur(v)
                BY <3>1, <3>2 DEF PaidFor
            <4>2. Blur(v)' = Blur(v)
                BY <3>2 DEF Blur
            <4>3. QED
                BY <2>3, <3>1, <4>1, <4>2
        <3>3. CASE /\ v \in DOMAIN buckets /\ forgets'[v] = forgets[v] + 1
                   /\ t - buckets[v].last > Hour
            <4>1. SpentSince(v, i) + buckets[v].tokens - buckets[v].last
                      <= Hour - granted[v][i] + Blur(v) + MaxLag
                BY <3>1, <3>3 DEF PaidFor
            <4>2. /\ Blur(v) \in Nat
                  /\ Blur(v)' = Blur(v) + 2 * MaxLag
                <5>1. forgets[v] \in Nat /\ MaxLag \in Nat
                    BY LimitsAreNat DEF TypeOK
                <5>2. /\ forgets[v] * MaxLag \in Nat
                      /\ (forgets[v] + 1) * MaxLag = forgets[v] * MaxLag + MaxLag
                    BY <5>1, OneMore
                <5>3. forgets'[v] * MaxLag = forgets[v] * MaxLag + MaxLag
                    BY <3>3, <5>2
                <5>4. QED
                    BY ONLY <5>1, <5>2, <5>3, TwiceOneMore DEF Blur
            <4>3. buckets[v].tokens \in Int /\ buckets[v].tokens >= -MaxLag /\ buckets[v].last \in Nat
                <5>1. buckets[v] \in Bucket
                    BY <3>3 DEF TypeOK
                <5>2. QED
                    BY ONLY <5>1, BucketHolds
            <4>4. SpentSince(v, i) \in Nat /\ granted[v][i] \in Nat
                BY <3>1, SpentIsNat
            <4>5. SpentSince(v, i) + granted[v][i] <= clock + Blur(v) + 2 * MaxLag
                <5>1. clock \in Nat /\ MaxLag \in Nat /\ Hour \in Nat
                    BY LimitsAreNat, CapacityHoldsAToken DEF TypeOK
                <5>2. t - buckets[v].last > Hour
                    BY <3>3
                <5>3. QED
                    BY <4>1, <4>2, <4>3, <4>4, <5>1, <5>2, WhatASweepGives
            <4>6. SpentSince(v, i)' + granted'[v][i] <= clock' + Blur(v)'
                <5>1. clock \in Nat /\ MaxLag \in Nat
                    BY LimitsAreNat DEF TypeOK
                <5>2. QED
                    BY <3>1, <4>2, <4>5, <5>1
            <4>7. QED
                BY <2>3, <4>6
        <3>4. QED
            BY <1>3, <2>3, <3>2, <3>3
    <2>4. QED
        BY <2>1, <2>2, <2>3
<1>10. Earned'
    <2> SUFFICES ASSUME NEW v \in DOMAIN buckets'
                 PROVE  \E i \in DOMAIN granted'[v] :
                            SpentSince(v, i)' + buckets'[v].tokens - buckets'[v].last
                                >= Hour - granted'[v][i]
        BY DEF Earned
    <2>1. CASE v = u
        BY <1>1, <2>1
    <2>2. CASE v # u
        <3>1. v \in DOMAIN buckets /\ buckets'[v] = buckets[v] /\ granted'[v] = granted[v]
            BY <1>1, <1>2, <2>2
        <3>2. QED
            BY <1>1, <1>5, <2>2, <3>1 DEF Earned
    <2>3. QED
        BY <2>1, <2>2
<1>11. QED
    BY <1>1, <1>4, <1>6, <1>7, <1>9, <1>10

\* What a waiting request finds in its user's bucket.
LEMMA WhatARequestFinds ==
  ASSUME IInv, NEW r \in Requests, waiting[r] # None,
         NEW u, u = waiting[r].user, NEW t, t = waiting[r].now
  PROVE  /\ u \in Users /\ t \in Nat /\ t <= clock /\ clock <= t + MaxLag
         /\ clock \in Nat
         /\ Refill(u, t) \in -MaxLag..Hour
         /\ u \notin DOMAIN buckets => Refill(u, t) = Hour
         /\ u \in DOMAIN buckets =>
                /\ buckets[u].tokens \in Int /\ buckets[u].last \in Nat
                /\ \/ Refill(u, t) = buckets[u].tokens - buckets[u].last + t
                   \/ /\ Refill(u, t) = Hour
                      /\ Hour <= buckets[u].tokens - buckets[u].last + t
<1>1. u \in Users /\ t \in Nat /\ clock \in Nat
    BY DEF IInv, TypeOK
<1>2. t <= clock /\ clock <= t + MaxLag
    BY DEF IInv, Timely
<1>3. Hour \in Nat /\ MaxLag \in Nat
    BY CapacityHoldsAToken, LimitsAreNat
<1>4. CASE u \notin DOMAIN buckets
    BY <1>1, <1>2, <1>3, <1>4 DEF Refill
<1>5. CASE u \in DOMAIN buckets
    <2>1. buckets[u].tokens \in Int /\ buckets[u].last \in Nat
        <3>1. buckets[u] \in Bucket
            BY <1>5 DEF IInv, TypeOK
        <3>2. QED
            BY ONLY <3>1, BucketHolds
    <2>2. 0 <= buckets[u].tokens - buckets[u].last + clock
        BY <1>5 DEF IInv, Solvent
    <2>3. Refill(u, t) = IF Hour < buckets[u].tokens + (t - buckets[u].last)
                         THEN Hour ELSE buckets[u].tokens + (t - buckets[u].last)
        BY <1>5 DEF Refill, Lesser
    <2>4. QED
        BY <1>1, <1>2, <1>3, <1>5, <2>1, <2>2, <2>3
<1>6. QED
    BY <1>4, <1>5

----------------------------------------------------------------------------
(* The invariant.                                                           *)

\* It holds before the first request.
LEMMA InvInit == Init => IInv
<1> SUFFICES ASSUME Init PROVE IInv
    OBVIOUS
<1> USE DEF Init
<1>1. DOMAIN buckets = {}
    OBVIOUS
<1>2. \A u \in Users : DOMAIN granted[u] = {}
    OBVIOUS
<1>3. granted \in [Users -> Seq(Nat)] /\ forgets \in [Users -> Nat]
    OBVIOUS
<1>4. QED
    BY <1>1, <1>2, <1>3 DEF IInv, TypeOK, Timely, GrantsArePast, Solvent, PaidFor, Earned

\* Time passing: what a bucket will hold at t does not depend on the clock.
LEMMA InvPassTime == IInv /\ PassTime => IInv'
<1> SUFFICES ASSUME IInv, PassTime PROVE IInv'
    OBVIOUS
<1>1. /\ clock \in Nat /\ clock' = clock + 1 /\ MaxLag \in Nat
      /\ UNCHANGED <<buckets, waiting, granted, forgets>>
    BY LimitsAreNat DEF IInv, TypeOK, PassTime
<1>2. TypeOK'
    BY <1>1 DEF IInv, TypeOK
<1>3. Timely'
    <2> SUFFICES ASSUME NEW r \in Requests, waiting[r] # None
                 PROVE  waiting[r].now <= clock + 1 /\ clock + 1 <= waiting[r].now + MaxLag
        BY <1>1 DEF Timely
    <2>1. waiting[r].now \in Nat
        BY DEF IInv, TypeOK
    <2>2. waiting[r].now <= clock /\ clock < waiting[r].now + MaxLag
        BY DEF IInv, Timely, PassTime
    <2>3. QED
        BY <1>1, <2>1, <2>2
<1>4. GrantsArePast'
    <2> SUFFICES ASSUME NEW u \in Users, NEW i \in DOMAIN granted[u]
                 PROVE  granted[u][i] <= clock + 1
        BY <1>1 DEF GrantsArePast
    <2>1. granted[u][i] <= clock /\ granted[u][i] \in Nat
        BY SpentIsNat DEF IInv, GrantsArePast
    <2>2. QED
        BY <1>1, <2>1
<1>5. Solvent'
    <2> SUFFICES ASSUME NEW u \in DOMAIN buckets
                 PROVE  /\ buckets[u].last <= clock + 1
                        /\ 0 <= buckets[u].tokens - buckets[u].last + (clock + 1)
        BY <1>1 DEF Solvent
    <2>1. buckets[u] \in Bucket
        BY DEF IInv, TypeOK
    <2>2. buckets[u].tokens \in Int /\ buckets[u].last \in Nat
        BY ONLY <2>1, BucketHolds
    <2>3. QED
        BY <1>1, <2>2 DEF IInv, Solvent
<1>6. \A u \in Users : \A i : SpentSince(u, i)' = SpentSince(u, i) /\ Blur(u)' = Blur(u)
    BY <1>1 DEF SpentSince, Blur
<1>7. PaidFor'
    <2> SUFFICES ASSUME NEW u \in Users, NEW i \in DOMAIN granted[u]
                 PROVE  IF u \in DOMAIN buckets
                        THEN SpentSince(u, i) + buckets[u].tokens - buckets[u].last
                                 <= Hour - granted[u][i] + Blur(u) + MaxLag
                        ELSE SpentSince(u, i) + granted[u][i] <= clock + 1 + Blur(u)
        BY <1>1, <1>6 DEF PaidFor
    <2>1. CASE u \in DOMAIN buckets
        BY <2>1 DEF IInv, PaidFor
    <2>2. CASE u \notin DOMAIN buckets
        <3>1. SpentSince(u, i) + granted[u][i] <= clock + Blur(u)
            BY <2>2 DEF IInv, PaidFor
        <3>2. SpentSince(u, i) \in Nat /\ granted[u][i] \in Nat
            BY SpentIsNat DEF IInv
        <3>3. forgets[u] * MaxLag \in Nat
            BY <1>1, OneMore DEF IInv, TypeOK
        <3>4. Blur(u) \in Nat
            BY <3>3 DEF Blur
        <3>5. QED
            BY <1>1, <2>2, <3>1, <3>2, <3>4
    <2>3. QED
        BY <2>1, <2>2
<1>8. Earned'
    BY <1>1, <1>6 DEF IInv, TypeOK, Earned
<1>9. QED
    BY <1>2, <1>3, <1>4, <1>5, <1>7, <1>8 DEF IInv

\* A process that starts has granted and refused nothing.
LEMMA InvRestart == IInv /\ Restart => IInv'
<1> SUFFICES ASSUME IInv, Restart PROVE IInv'
    OBVIOUS
<1> USE DEF Restart
<1>1. DOMAIN buckets' = {} /\ clock' \in Nat
    BY DEF IInv, TypeOK
<1>2. \A u \in Users : DOMAIN granted'[u] = {}
    OBVIOUS
<1>3. granted' \in [Users -> Seq(Nat)] /\ forgets' \in [Users -> Nat]
    OBVIOUS
<1>4. QED
    BY <1>1, <1>2, <1>3 DEF IInv, TypeOK, Timely, GrantsArePast, Solvent, PaidFor, Earned

\* A request that reads the clock.
LEMMA InvArrive == ASSUME IInv, NEW r \in Requests, NEW u \in Users, Arrive(r, u) PROVE IInv'
<1>1. /\ clock \in Nat /\ MaxLag \in Nat
      /\ UNCHANGED <<clock, buckets, granted, forgets>>
      /\ waiting' = [waiting EXCEPT ![r] = [user |-> u, now |-> clock]]
    BY LimitsAreNat DEF IInv, TypeOK, Arrive
<1>2. TypeOK'
    BY <1>1 DEF IInv, TypeOK
<1>3. Timely'
    <2> SUFFICES ASSUME NEW q \in Requests, waiting'[q] # None
                 PROVE  waiting'[q].now <= clock /\ clock <= waiting'[q].now + MaxLag
        BY <1>1 DEF Timely
    <2>1. waiting \in [Requests -> [user : Users, now : Nat] \cup {None}]
        BY DEF IInv, TypeOK
    <2>2. CASE q = r
        <3>1. waiting'[q] = [user |-> u, now |-> clock]
            BY <1>1, <2>1, <2>2
        <3>2. QED
            BY <1>1, <3>1
    <2>3. CASE q # r
        <3>1. waiting'[q] = waiting[q]
            BY <1>1, <2>1, <2>3
        <3>2. QED
            BY <3>1 DEF IInv, Timely
    <2>4. QED
        BY <2>2, <2>3
<1>4. \A v \in Users : \A i : SpentSince(v, i)' = SpentSince(v, i) /\ Blur(v)' = Blur(v)
    BY <1>1 DEF SpentSince, Blur
<1>5. GrantsArePast' /\ Solvent'
    BY <1>1 DEF IInv, GrantsArePast, Solvent
<1>6. PaidFor' /\ Earned'
    BY <1>1, <1>4 DEF IInv, TypeOK, PaidFor, Earned
<1>7. QED
    BY <1>2, <1>3, <1>5, <1>6 DEF IInv

\* A request that leaves the mutex is not waiting any more.
LEMMA LeavingIsTimely ==
  ASSUME IInv, NEW r \in Requests, clock' = clock,
         waiting' = [waiting EXCEPT ![r] = None]
  PROVE  /\ waiting' \in [Requests -> [user : Users, now : Nat] \cup {None}]
         /\ Timely'
<1>1. waiting \in [Requests -> [user : Users, now : Nat] \cup {None}]
    BY DEF IInv, TypeOK
<1>2. \A q \in Requests : waiting'[q] = IF q = r THEN None ELSE waiting[q]
    BY <1>1
<1>3. QED
    BY <1>1, <1>2 DEF IInv, Timely

\* What u spent, once a credential at the present is added.
LEMMA SpendingOneMore ==
  ASSUME TypeOK, NEW u \in Users, NEW n, n = Len(granted[u]),
         granted' = [granted EXCEPT ![u] = Append(@, clock)]
  PROVE  /\ granted' \in [Users -> Seq(Nat)]
         /\ DOMAIN granted'[u] = DOMAIN granted[u] \cup {n + 1}
         /\ granted'[u][n + 1] = clock
         /\ SpentSince(u, n + 1)' = TokenTicks
         /\ \A i \in DOMAIN granted[u] :
                /\ granted'[u][i] = granted[u][i]
                /\ SpentSince(u, i)' = SpentSince(u, i) + TokenTicks
<1>1. granted[u] \in Seq(Nat) /\ clock \in Nat /\ n \in Nat
    BY DEF TypeOK
<1>2. granted'[u] = Append(granted[u], clock)
    BY DEF TypeOK
<1>3. /\ Len(granted'[u]) = n + 1
      /\ DOMAIN granted[u] = 1..n /\ DOMAIN granted'[u] = 1..(n + 1)
      /\ granted'[u][n + 1] = clock
      /\ \A i \in 1..n : granted'[u][i] = granted[u][i]
    BY <1>1, <1>2
<1>4. granted' \in [Users -> Seq(Nat)]
    BY <1>1 DEF TypeOK
<1>5. TokenTicks \in Nat
    BY CapacityHoldsAToken
<1>6. SpentSince(u, n + 1)' = TokenTicks
    <2>1. SpentSince(u, n + 1)' = (n + 1 - (n + 1) + 1) * TokenTicks
        BY <1>3 DEF SpentSince
    <2>2. n + 1 - (n + 1) + 1 = 1
        BY <1>1
    <2>3. QED
        BY <1>5, <2>1, <2>2, OneMore
<1>7. ASSUME NEW i \in DOMAIN granted[u]
      PROVE  SpentSince(u, i)' = SpentSince(u, i) + TokenTicks
    <2>1. i \in Nat /\ n - i + 1 \in Nat
        BY SpentIsNat
    <2>2. (n + 1) - i + 1 = (n - i + 1) + 1
        BY <1>1, <2>1
    <2>3. SpentSince(u, i)' = ((n + 1) - i + 1) * TokenTicks
        BY <1>3 DEF SpentSince
    <2>4. ((n - i + 1) + 1) * TokenTicks = (n - i + 1) * TokenTicks + TokenTicks
        BY <1>5, <2>1, OneMore
    <2>5. QED
        BY <2>2, <2>3, <2>4 DEF SpentSince
<1>8. QED
    BY <1>3, <1>4, <1>6, <1>7

\* A credential: the bucket gives up one token for it, and what is granted
\* grows by as much.
LEMMA InvAllow ==
  ASSUME IInv, NEW r \in Requests, Allow(r),
         NEW u, u = waiting[r].user, NEW t, t = waiting[r].now,
         NEW k, k = Refill(u, t), NEW n, n = Len(granted[u])
  PROVE  IInv'
<1>1. /\ waiting[r] # None /\ k >= TokenTicks /\ clock' = clock
      /\ Touch(u, t, k - TokenTicks)
      /\ granted' = [granted EXCEPT ![u] = Append(@, clock)]
      /\ waiting' = [waiting EXCEPT ![r] = None]
    BY DEF Allow, Enough
<1>2. /\ u \in Users /\ t \in Nat /\ t <= clock /\ clock <= t + MaxLag /\ clock \in Nat
      /\ k \in -MaxLag..Hour
      /\ u \notin DOMAIN buckets => k = Hour
      /\ u \in DOMAIN buckets =>
             /\ buckets[u].tokens \in Int /\ buckets[u].last \in Nat
             /\ \/ k = buckets[u].tokens - buckets[u].last + t
                \/ /\ k = Hour
                   /\ Hour <= buckets[u].tokens - buckets[u].last + t
    BY <1>1, WhatARequestFinds
<1>3. /\ granted' \in [Users -> Seq(Nat)]
      /\ DOMAIN granted'[u] = DOMAIN granted[u] \cup {n + 1}
      /\ granted'[u][n + 1] = clock
      /\ SpentSince(u, n + 1)' = TokenTicks
      /\ \A i \in DOMAIN granted[u] :
             /\ granted'[u][i] = granted[u][i]
             /\ SpentSince(u, i)' = SpentSince(u, i) + TokenTicks
    BY <1>1, <1>2, SpendingOneMore DEF IInv
<1>4. /\ MaxLag \in Nat /\ Hour \in Nat /\ TokenTicks \in Nat
      /\ Blur(u) \in Nat
    <2>1. forgets[u] * MaxLag \in Nat
        BY <1>2, LimitsAreNat, OneMore DEF IInv, TypeOK
    <2>2. QED
        BY <2>1, LimitsAreNat, CapacityHoldsAToken DEF Blur
<1>5. k \in Int /\ k <= Hour
    BY <1>2, <1>4
<1>6. k - TokenTicks \in -MaxLag..Hour
    BY <1>1, <1>4, <1>5
<1>time. t \in Nat /\ clock \in Nat /\ t <= clock /\ clock <= t + MaxLag
    BY <1>2
<1>7. 0 <= k - TokenTicks - t + clock
    <2>1. k >= TokenTicks
        BY <1>1
    <2>2. QED
        BY ONLY <1>4, <1>5, <1>time, <2>1
<1>8. ASSUME NEW i \in DOMAIN granted'[u]
      PROVE  SpentSince(u, i)' + (k - TokenTicks) - t <= Hour - granted'[u][i] + Blur(u) + MaxLag
    <2>1. CASE i = n + 1
        <3>1. SpentSince(u, i)' = TokenTicks /\ granted'[u][i] = clock
            BY <1>3, <2>1
        <3>2. TokenTicks + (k - TokenTicks) - t <= Hour - clock + Blur(u) + MaxLag
            BY ONLY <1>4, <1>5, <1>time
        <3>3. QED
            BY ONLY <3>1, <3>2
    <2>2. CASE i \in DOMAIN granted[u]
        <3>1. SpentSince(u, i) \in Nat /\ granted[u][i] \in Nat
            BY <1>2, <2>2, SpentIsNat DEF IInv
        <3>2. SpentSince(u, i)' = SpentSince(u, i) + TokenTicks /\ granted'[u][i] = granted[u][i]
            BY <1>3, <2>2
        <3>3. SpentSince(u, i) + k - t <= Hour - granted[u][i] + Blur(u) + MaxLag
            <4>1. CASE u \in DOMAIN buckets
                <5>1. SpentSince(u, i) + buckets[u].tokens - buckets[u].last
                          <= Hour - granted[u][i] + Blur(u) + MaxLag
                    BY <1>2, <2>2, <4>1 DEF IInv, PaidFor
                <5>2. k <= buckets[u].tokens - buckets[u].last + t
                    <6>1. CASE k = buckets[u].tokens - buckets[u].last + t
                        BY ONLY <1>5, <6>1
                    <6>2. CASE k = Hour /\ Hour <= buckets[u].tokens - buckets[u].last + t
                        BY ONLY <6>2
                    <6>3. QED
                        BY <1>2, <4>1, <6>1, <6>2
                <5>3. buckets[u].tokens \in Int /\ buckets[u].last \in Nat
                    BY <1>2, <4>1
                <5>4. QED
                    BY ONLY <1>4, <1>5, <1>time, <3>1, <5>1, <5>2, <5>3
            <4>2. CASE u \notin DOMAIN buckets
                <5>1. SpentSince(u, i) + granted[u][i] <= clock + Blur(u)
                    BY <1>2, <2>2, <4>2 DEF IInv, PaidFor
                <5>2. k = Hour
                    BY <1>2, <4>2
                <5>3. QED
                    BY ONLY <1>4, <1>time, <3>1, <5>1, <5>2
            <4>3. QED
                BY <4>1, <4>2
        <3>4. QED
            BY ONLY <1>4, <1>5, <1>time, <3>1, <3>2, <3>3
    <2>3. QED
        BY <1>3, <1>8, <2>1, <2>2
<1>9. \E i \in DOMAIN granted'[u] :
          SpentSince(u, i)' + (k - TokenTicks) - t >= Hour - granted'[u][i]
    <2>1. CASE k = Hour
        <3>1. TokenTicks + (k - TokenTicks) - t >= Hour - clock
            BY <1>2, <1>4, <2>1
        <3>2. QED
            BY <1>3, <3>1
    <2>2. CASE u \in DOMAIN buckets /\ k = buckets[u].tokens - buckets[u].last + t
        <3>1. PICK i \in DOMAIN granted[u] :
                  SpentSince(u, i) + buckets[u].tokens - buckets[u].last >= Hour - granted[u][i]
            BY <2>2 DEF IInv, Earned
        <3>2. SpentSince(u, i) \in Nat /\ granted[u][i] \in Nat
            BY <1>2, SpentIsNat DEF IInv
        <3>3. buckets[u].tokens \in Int /\ buckets[u].last \in Nat
            BY <1>2, <2>2
        <3>4. SpentSince(u, i) + TokenTicks + (k - TokenTicks) - t >= Hour - granted[u][i]
            BY ONLY <1>4, <1>time, <2>2, <3>1, <3>2, <3>3
        <3>5. QED
            BY <1>3, <3>4
    <2>3. QED
        BY <1>2, <2>1, <2>2
<1>10. \A i \in DOMAIN granted'[u] : granted'[u][i] <= clock
    <2>1. \A i \in DOMAIN granted[u] : granted[u][i] <= clock
        BY <1>2 DEF IInv, GrantsArePast
    <2>2. QED
        BY ONLY <1>3, <1>time, <2>1
<1>11. \A v \in Users : v # u => granted'[v] = granted[v]
    BY <1>1 DEF IInv, TypeOK
<1>12. /\ DOMAIN buckets' \subseteq Users
       /\ \A v \in DOMAIN buckets' : buckets'[v] \in Bucket
       /\ forgets' \in [Users -> Nat]
       /\ GrantsArePast' /\ Solvent' /\ PaidFor' /\ Earned'
    <2>1. /\ IInv /\ u \in Users /\ clock' = clock /\ Touch(u, t, k - TokenTicks)
          /\ granted' \in [Users -> Seq(Nat)]
        BY <1>1, <1>2, <1>3
    <2>2. QED
        BY ONLY <1>time, <1>6, <1>7, <1>8, <1>9, <1>10, <1>11, <2>1, OthersKeepTheirs
<1>13. waiting' \in [Requests -> [user : Users, now : Nat] \cup {None}] /\ Timely'
    BY <1>1, LeavingIsTimely
<1>14. TypeOK'
    BY <1>1, <1>2, <1>3, <1>12, <1>13 DEF TypeOK, Bucket
<1>15. QED
    BY <1>12, <1>13, <1>14 DEF IInv

\* A refusal: the bucket is not full, so the touch changes nothing that counts.
LEMMA InvRefuse ==
  ASSUME IInv, NEW r \in Requests, Refuse(r),
         NEW u, u = waiting[r].user, NEW t, t = waiting[r].now, NEW k, k = Refill(u, t)
  PROVE  IInv'
<1>1. /\ waiting[r] # None /\ ~(k >= TokenTicks)
      /\ clock' = clock /\ granted' = granted
      /\ Touch(u, t, k)
      /\ waiting' = [waiting EXCEPT ![r] = None]
    BY DEF Refuse, Enough
<1>2. /\ u \in Users /\ t \in Nat /\ t <= clock /\ clock \in Nat
      /\ k \in -MaxLag..Hour
      /\ u \notin DOMAIN buckets => k = Hour
      /\ u \in DOMAIN buckets =>
             /\ buckets[u].tokens \in Int /\ buckets[u].last \in Nat
             /\ \/ k = buckets[u].tokens - buckets[u].last + t
                \/ k = Hour
    BY <1>1, WhatARequestFinds
<1>3. u \in DOMAIN buckets /\ k = buckets[u].tokens - buckets[u].last + t
    BY <1>1, <1>2, CapacityHoldsAToken
<1>4. buckets[u].tokens \in Int /\ buckets[u].last \in Nat
    BY <1>2, <1>3
<1>5. k - t = buckets[u].tokens - buckets[u].last
    BY <1>2, <1>3, <1>4
<1>6. 0 <= k - t + clock
    BY <1>3, <1>5 DEF IInv, Solvent
<1>7. granted' \in [Users -> Seq(Nat)]
    BY <1>1 DEF IInv, TypeOK
<1>8. \A i : SpentSince(u, i)' = SpentSince(u, i)
    BY <1>1 DEF SpentSince
<1>9. ASSUME NEW i \in DOMAIN granted'[u]
      PROVE  /\ SpentSince(u, i)' + k - t = SpentSince(u, i) + buckets[u].tokens - buckets[u].last
             /\ SpentSince(u, i)' + k - t <= Hour - granted'[u][i] + Blur(u) + MaxLag
    <2>1. SpentSince(u, i) \in Nat
        BY <1>1, <1>2, <1>9, SpentIsNat DEF IInv
    <2>2. SpentSince(u, i)' + k - t = SpentSince(u, i) + buckets[u].tokens - buckets[u].last
        BY <1>2, <1>3, <1>4, <1>8, <2>1
    <2>3. SpentSince(u, i) + buckets[u].tokens - buckets[u].last
              <= Hour - granted[u][i] + Blur(u) + MaxLag
        BY <1>1, <1>2, <1>3, <1>9 DEF IInv, PaidFor
    <2>4. QED
        BY <1>1, <2>2, <2>3
<1>10. \E i \in DOMAIN granted'[u] : SpentSince(u, i)' + k - t >= Hour - granted'[u][i]
    <2>1. PICK i \in DOMAIN granted[u] :
              SpentSince(u, i) + buckets[u].tokens - buckets[u].last >= Hour - granted[u][i]
        BY <1>3 DEF IInv, Earned
    <2>2. SpentSince(u, i)' + k - t = SpentSince(u, i) + buckets[u].tokens - buckets[u].last
        BY <1>1, <1>9
    <2>3. QED
        BY <1>1, <2>1, <2>2
<1>11. \A i \in DOMAIN granted'[u] : granted'[u][i] <= clock
    BY <1>1, <1>2 DEF IInv, GrantsArePast
<1>12. \A v \in Users : v # u => granted'[v] = granted[v]
    BY <1>1
<1>13. /\ DOMAIN buckets' \subseteq Users
       /\ \A v \in DOMAIN buckets' : buckets'[v] \in Bucket
       /\ forgets' \in [Users -> Nat]
       /\ GrantsArePast' /\ Solvent' /\ PaidFor' /\ Earned'
    BY <1>1, <1>2, <1>6, <1>7, <1>9, <1>10, <1>11, <1>12, OthersKeepTheirs
<1>14. waiting' \in [Requests -> [user : Users, now : Nat] \cup {None}] /\ Timely'
    BY <1>1, LeavingIsTimely
<1>15. TypeOK'
    BY <1>1, <1>2, <1>7, <1>13, <1>14 DEF TypeOK, Bucket
<1>16. QED
    BY <1>13, <1>14, <1>15 DEF IInv

\* Every step keeps the invariant.
LEMMA InvStep == IInv /\ [Next]_vars => IInv'
<1> SUFFICES ASSUME IInv, [Next]_vars PROVE IInv'
    OBVIOUS
<1>1. CASE PassTime
    BY <1>1, InvPassTime
<1>2. ASSUME NEW r \in Requests, NEW u \in Users, Arrive(r, u)
      PROVE  IInv'
    BY <1>2, InvArrive
<1>3. ASSUME NEW r \in Requests, Allow(r)
      PROVE  IInv'
    BY <1>3, InvAllow
<1>4. ASSUME NEW r \in Requests, Refuse(r)
      PROVE  IInv'
    BY <1>4, InvRefuse
<1>5. CASE Restart
    BY <1>5, InvRestart
<1>6. CASE UNCHANGED vars
    BY <1>6 DEF vars, IInv, TypeOK, Timely, GrantsArePast, Solvent, PaidFor, Earned,
                SpentSince, Blur
<1>7. QED
    BY <1>1, <1>2, <1>3, <1>4, <1>5, <1>6 DEF Next

----------------------------------------------------------------------------
(* Theorems.                                                                *)

\* The invariant holds in every behaviour.
THEOREM InvCorrect == Spec => []IInv
BY InvInit, InvStep, PTL DEF Spec

\* No bucket holds more than its capacity, or owes more than MaxLag of refill.
THEOREM TypeCorrect == Spec => []TypeOK
<1>1. IInv => TypeOK
    BY DEF IInv
<1>2. QED
    BY <1>1, InvCorrect, PTL

\* What is left in a bucket is never negative, so what was granted is paid for.
LEMMA InvMeansBudget == IInv => BudgetHolds
<1> SUFFICES ASSUME IInv, NEW u \in Users, NEW i \in DOMAIN granted[u]
             PROVE  SpentSince(u, i)
                        <= Hour + (clock - granted[u][i]) + (2 * forgets[u] + 1) * MaxLag
    BY DEF BudgetHolds
<1>1. SpentSince(u, i) \in Nat /\ granted[u][i] \in Nat /\ clock \in Nat
    BY SpentIsNat DEF IInv, TypeOK
<1>2. /\ MaxLag \in Nat /\ Hour \in Nat
      /\ forgets[u] * MaxLag \in Nat
      /\ (2 * forgets[u] + 1) * MaxLag = Blur(u) + MaxLag
    BY LimitsAreNat, CapacityHoldsAToken, OneMore DEF IInv, TypeOK, Blur
<1>3. Blur(u) \in Nat
    BY <1>2 DEF Blur
<1>4. CASE u \in DOMAIN buckets
    <2>1. buckets[u] \in Bucket
        BY <1>4 DEF IInv, TypeOK
    <2>2. buckets[u].tokens \in Int /\ buckets[u].last \in Nat
        BY ONLY <2>1, BucketHolds
    <2>3. SpentSince(u, i) + buckets[u].tokens - buckets[u].last
              <= Hour - granted[u][i] + Blur(u) + MaxLag
        BY <1>4 DEF IInv, PaidFor
    <2>4. 0 <= buckets[u].tokens - buckets[u].last + clock
        BY <1>4 DEF IInv, Solvent
    <2>5. QED
        BY <1>1, <1>2, <1>3, <2>2, <2>3, <2>4
<1>5. CASE u \notin DOMAIN buckets
    <2>1. SpentSince(u, i) + granted[u][i] <= clock + Blur(u)
        BY <1>5 DEF IInv, PaidFor
    <2>2. QED
        BY <1>1, <1>2, <1>3, <2>1
<1>6. QED
    BY <1>4, <1>5

\* Whatever the limit, the sweep and the order of the calls, no user gets more
\* than the capacity and what refills (limiter, sweep).
THEOREM BudgetIsKept == Spec => []BudgetHolds
BY InvCorrect, InvMeansBudget, PTL

\* A refused request finds less than a token in a bucket that was full at some
\* credential: what lies between was spent.
LEMMA RefusalIsDue ==
  ASSUME IInv, NEW r \in Requests, Refuse(r)
  PROVE  \E i \in DOMAIN granted[waiting[r].user] :
             SpentSince(waiting[r].user, i) + TokenTicks
                 > Hour + (clock - granted[waiting[r].user][i]) - MaxLag
<1> DEFINE u == waiting[r].user
           t == waiting[r].now
           k == Refill(u, t)
<1>1. waiting[r] # None /\ ~(k >= TokenTicks)
    BY DEF Refuse, Enough
<1>2. /\ u \in Users /\ t \in Nat /\ clock <= t + MaxLag /\ clock \in Nat
      /\ k \in -MaxLag..Hour
      /\ u \notin DOMAIN buckets => k = Hour
      /\ u \in DOMAIN buckets =>
             /\ buckets[u].tokens \in Int /\ buckets[u].last \in Nat
             /\ \/ k = buckets[u].tokens - buckets[u].last + t
                \/ k = Hour
    BY <1>1, WhatARequestFinds
<1> HIDE DEF u, t, k
<1>3. /\ u \in DOMAIN buckets /\ k = buckets[u].tokens - buckets[u].last + t
      /\ buckets[u].tokens \in Int /\ buckets[u].last \in Nat
    BY <1>1, <1>2, CapacityHoldsAToken
<1>4. MaxLag \in Nat /\ Hour \in Nat /\ TokenTicks \in Nat
    BY LimitsAreNat, CapacityHoldsAToken
<1>5. PICK i \in DOMAIN granted[u] :
          SpentSince(u, i) + buckets[u].tokens - buckets[u].last >= Hour - granted[u][i]
    BY <1>3 DEF IInv, Earned
<1>6. SpentSince(u, i) \in Nat /\ granted[u][i] \in Nat
    BY <1>2, SpentIsNat DEF IInv
<1>7. buckets[u].tokens - buckets[u].last + t < TokenTicks
    BY <1>1, <1>2, <1>3, <1>4
<1>8. SpentSince(u, i) + TokenTicks > Hour + (clock - granted[u][i]) - MaxLag
    BY <1>2, <1>3, <1>4, <1>5, <1>6, <1>7
<1>9. QED
    BY <1>8 DEF u

\* Whatever the limit, the sweep and the order of the calls, nobody is refused
\* who has budget left (limiter.allow).
THEOREM RefusalsAreDue == Spec => RefusedOnlyWhenSpent
<1>1. IInv /\ [Next]_vars =>
          [\A r \in Requests : Refuse(r) =>
               LET u == waiting[r].user
               IN  \E i \in DOMAIN granted[u] :
                       SpentSince(u, i) + TokenTicks
                           > Hour + (clock - granted[u][i]) - MaxLag]_vars
    BY RefusalIsDue
<1>2. QED
    BY <1>1, InvCorrect, PTL DEF Spec, RefusedOnlyWhenSpent

----------------------------------------------------------------------------
(* What a 429 promises.                                                     *)

\* Integer division, from below.
LEMMA Floor ==
  ASSUME NEW x \in Int, NEW y \in Nat \ {0}
  PROVE  x \div y \in Int /\ x < (x \div y) * y + y
<1>1. x \div y \in Int /\ x % y \in 0..(y - 1)
    OBVIOUS
<1>2. x = y * (x \div y) + (x % y)
    OBVIOUS
<1>3. QED
    BY <1>1, <1>2

\* The wait that is told is too short by less than half a second.
LEMMA RoundedWait ==
  ASSUME NEW k \in Int
  PROVE  Wait(k) \in Int /\ 2 * (TokenTicks - k - Wait(k)) < SecondTicks
<1> DEFINE exact == TokenTicks - k
           q == (2 * exact + SecondTicks) \div (2 * SecondTicks)
<1>1. exact \in Int /\ SecondTicks \in Nat \ {0}
    BY CapacityIsPositive, SecondIsPositive
<1>2. 2 * exact + SecondTicks \in Int /\ 2 * SecondTicks \in Nat \ {0}
    BY <1>1
<1>3. q \in Int /\ 2 * exact + SecondTicks < q * (2 * SecondTicks) + 2 * SecondTicks
    BY <1>2, Floor
<1>4. Wait(k) = q * SecondTicks
    BY DEF Wait
<1> HIDE DEF q, exact
<1>5. q * SecondTicks \in Int /\ q * (2 * SecondTicks) = 2 * (q * SecondTicks)
    BY <1>1, <1>3
<1>6. 2 * (exact - q * SecondTicks) < SecondTicks
    BY <1>1, <1>3, <1>5
<1>7. QED
    BY <1>4, <1>5, <1>6 DEF exact

\* When u's bucket holds a token again, if nobody is granted it. A refusal leaves
\* this moment where it is.
Due(u) == buckets[u].last - buckets[u].tokens + TokenTicks

\* Nobody was told to come back half a second before that. A user whose bucket was
\* swept will find a full one.
PromiseInv ==
    /\ told \in [Users -> SUBSET Int]
    /\ \A u \in DOMAIN buckets : \A t \in told[u] : 2 * (Due(u) - t) < SecondTicks

\* A refused request came before the moment, which stays; it is told the same one,
\* but for the rounding.
LEMMA RefusalKeepsTheDue ==
  ASSUME IInv, NEW r \in Requests, Refuse(r),
         NEW u, u = waiting[r].user, NEW t, t = waiting[r].now,
         NEW w, w = t + Wait(Refill(u, t))
  PROVE  /\ u \in Users /\ u \in DOMAIN buckets /\ t \in Int /\ w \in Int
         /\ Due(u) \in Int /\ t < Due(u)
         /\ 2 * (Due(u) - w) < SecondTicks
         /\ u \in DOMAIN buckets' => Due(u)' = Due(u)
         /\ \A v \in DOMAIN buckets' \ {u} : v \in DOMAIN buckets /\ Due(v)' = Due(v)
<1> DEFINE k == Refill(u, t)
<1>1. waiting[r] # None /\ ~(k >= TokenTicks) /\ Touch(u, t, k)
    BY DEF Refuse, Enough
<1>2. /\ u \in Users /\ t \in Nat
      /\ k \in -MaxLag..Hour
      /\ u \notin DOMAIN buckets => k = Hour
      /\ u \in DOMAIN buckets =>
             /\ buckets[u].tokens \in Int /\ buckets[u].last \in Nat
             /\ \/ k = buckets[u].tokens - buckets[u].last + t
                \/ k = Hour
    BY <1>1, WhatARequestFinds
<1>3. /\ u \in DOMAIN buckets'
      /\ buckets'[u] = [tokens |-> k, last |-> t]
      /\ \A v \in DOMAIN buckets' \ {u} : v \in DOMAIN buckets /\ buckets'[v] = buckets[v]
    BY <1>1, <1>2, TouchedBuckets DEF IInv
<1>4. Wait(k) \in Int /\ 2 * (TokenTicks - k - Wait(k)) < SecondTicks
    BY <1>2, RoundedWait, LimitsAreNat, CapacityHoldsAToken
<1> HIDE DEF k
<1>5. /\ u \in DOMAIN buckets /\ k = buckets[u].tokens - buckets[u].last + t
      /\ buckets[u].tokens \in Int /\ buckets[u].last \in Nat
    BY <1>1, <1>2, CapacityHoldsAToken
<1>6. TokenTicks \in Nat /\ SecondTicks \in Nat /\ k \in Int /\ w = t + Wait(k)
    BY <1>2, CapacityHoldsAToken, SecondIsPositive, LimitsAreNat DEF k
<1>7. /\ Due(u) = t - k + TokenTicks /\ Due(u)' = t - k + TokenTicks
      /\ Due(u) \in Int
    BY <1>2, <1>3, <1>5, <1>6 DEF Due
<1>8. t < Due(u) /\ w \in Int /\ 2 * (Due(u) - w) < SecondTicks
    BY <1>1, <1>2, <1>4, <1>6, <1>7
<1>9. \A v \in DOMAIN buckets' \ {u} : Due(v)' = Due(v)
    BY <1>3 DEF Due
<1>10. QED
    BY <1>2, <1>3, <1>5, <1>7, <1>8, <1>9

\* Every step keeps the promise.
LEMMA PromiseStep == IInv /\ PromiseInv /\ [RetryNext]_retryVars => PromiseInv'
<1> SUFFICES ASSUME IInv, PromiseInv, [RetryNext]_retryVars PROVE PromiseInv'
    OBVIOUS
<1>1. CASE Quiet /\ UNCHANGED told
    BY <1>1 DEF Quiet, PassTime, Restart, Arrive, PromiseInv, Due
<1>2. ASSUME NEW r \in Requests, Grant(r)
      PROVE  PromiseInv'
    <2> DEFINE u == waiting[r].user
    <2>1. /\ waiting[r] # None /\ told' = [told EXCEPT ![u] = {}]
          /\ Touch(u, waiting[r].now, Refill(u, waiting[r].now) - TokenTicks)
        BY <1>2 DEF Grant, Allow
    <2>2. /\ u \in Users
          /\ \A v \in DOMAIN buckets' \ {u} : v \in DOMAIN buckets /\ buckets'[v] = buckets[v]
        <3>1. PICK v, t : v = u /\ t = waiting[r].now
            OBVIOUS
        <3>2. v \in Users /\ t \in Nat
            BY <2>1, <3>1, WhatARequestFinds
        <3>3. Touch(v, t, Refill(v, t) - TokenTicks)
            BY <2>1, <3>1
        <3>4. QED
            BY <3>1, <3>2, <3>3, TouchedBuckets DEF IInv
    <2>3. told' \in [Users -> SUBSET Int] /\ told'[u] = {}
          /\ \A v \in Users \ {u} : told'[v] = told[v]
        BY <2>1, <2>2 DEF PromiseInv
    <2>4. DOMAIN buckets \subseteq Users
        BY DEF IInv, TypeOK
    <2>5. \A v \in DOMAIN buckets' \ {u} : Due(v)' = Due(v)
        BY <2>2 DEF Due
    <2> HIDE DEF u
    <2>6. QED
        BY <2>2, <2>3, <2>4, <2>5 DEF PromiseInv
<1>3. ASSUME NEW r \in Requests, TooMany(r)
      PROVE  PromiseInv'
    <2>1. PICK u, t, w : u = waiting[r].user /\ t = waiting[r].now /\ w = t + Wait(Refill(u, t))
        OBVIOUS
    <2>2. Refuse(r) /\ told' = [told EXCEPT ![u] = @ \cup {w}]
        BY <1>3, <2>1 DEF TooMany
    <2>3. /\ u \in Users /\ w \in Int
          /\ 2 * (Due(u) - w) < SecondTicks
          /\ u \in DOMAIN buckets
          /\ u \in DOMAIN buckets' => Due(u)' = Due(u)
          /\ \A v \in DOMAIN buckets' \ {u} : v \in DOMAIN buckets /\ Due(v)' = Due(v)
        BY <2>1, <2>2, RefusalKeepsTheDue
    <2>4. told' \in [Users -> SUBSET Int] /\ told'[u] = told[u] \cup {w}
          /\ \A v \in Users \ {u} : told'[v] = told[v]
        BY <2>2, <2>3 DEF PromiseInv
    <2>5. DOMAIN buckets \subseteq Users
        BY DEF IInv, TypeOK
    <2>6. QED
        BY <2>3, <2>4, <2>5 DEF PromiseInv
<1>4. CASE UNCHANGED retryVars
    BY <1>4 DEF retryVars, vars, PromiseInv, Due
<1>5. QED
    BY <1>1, <1>2, <1>3, <1>4 DEF RetryNext

\* To the limiter nothing is new.
LEMMA RetryIsLimiter == [RetryNext]_retryVars => [Next]_vars
BY DEF RetryNext, Quiet, Grant, TooMany, Next, retryVars

\* A user who comes back half a second after the moment it was told is not refused,
\* whoever of the same user was refused or overtaken meanwhile, and whatever was
\* swept, until one is granted (rateLimited).
THEOREM PromisesAreKept == RetrySpec => PromiseIsKept
<1>1. ASSUME IInv, PromiseInv, NEW r \in Requests, TooMany(r), NEW w \in told[waiting[r].user]
      PROVE  2 * (waiting[r].now - w) < SecondTicks
    <2>1. PICK u, t : u = waiting[r].user /\ t = waiting[r].now
        OBVIOUS
    <2>2. Refuse(r)
        BY <1>1 DEF TooMany
    <2>3. u \in Users /\ u \in DOMAIN buckets /\ t \in Int /\ Due(u) \in Int /\ t < Due(u)
        BY <1>1, <2>1, <2>2, RefusalKeepsTheDue
    <2>4. w \in Int /\ 2 * (Due(u) - w) < SecondTicks
        BY <1>1, <2>1, <2>3 DEF PromiseInv
    <2>5. QED
        BY <2>1, <2>3, <2>4, SecondIsPositive
<1>2. IInv /\ PromiseInv /\ [RetryNext]_retryVars =>
          [\A r \in Requests : TooMany(r) =>
               \A t \in told[waiting[r].user] : 2 * (waiting[r].now - t) < SecondTicks]_retryVars
    BY <1>1
<1>3. RetryInit => IInv /\ PromiseInv
    BY InvInit DEF RetryInit, PromiseInv, Init
<1>4. IInv /\ [RetryNext]_retryVars => IInv'
    BY RetryIsLimiter, InvStep
<1>5. QED
    BY <1>2, <1>3, <1>4, PromiseStep, PTL DEF RetrySpec, PromiseIsKept
=============================================================================
