------------------------------ MODULE RateLimit ------------------------------
(* The issuance limiter (internal/portal/ratelimit.go, and rateLimited in   *)
(* handlers.go): a token bucket per user, and the sweep that forgets the    *)
(* users who have been idle. A request reads the clock before it takes the  *)
(* limiter's mutex, so calls may come in another order than their times.    *)
(*                                                                          *)
(* Tokens are counted in ticks of the clock: TokenTicks of refill are one   *)
(* token, and an hour of it is PerHour of them, the capacity. The code      *)
(* counts in float64; its rounding is left out. A limit of zero makes the   *)
(* limiter nil, which allows everything, and is left out too. The buckets   *)
(* are in memory: when the process dies they are gone, and the histories    *)
(* begin again, so that what is said of a budget is said of one process.    *)
EXTENDS Integers, Sequences, FiniteSets

CONSTANTS
    Users,
    Requests,     \* the handlers that may be running at once
    PerHour,      \* limiter.perHour: config issues-per-hour
    TokenTicks,   \* how long one token takes to refill
    SecondTicks,  \* how long a second is
    SweepAt,      \* how many buckets start a sweep (1024)
    MaxLag,       \* assumed: how long a request may wait for the mutex
    MaxTime       \* bound of the model: when the clock stops

ASSUME CapacityIsPositive == PerHour \in Nat \ {0} /\ TokenTicks \in Nat \ {0}
ASSUME SecondIsPositive == SecondTicks \in Nat \ {0}
ASSUME LimitsAreNat == SweepAt \in Nat /\ MaxLag \in Nat /\ MaxTime \in Nat
ASSUME NoRequestIsNoUser == "none" \notin Users

VARIABLES
    clock,    \* time.Now()
    buckets,  \* limiter.buckets: a function on the users that have one
    waiting,  \* the user of each request waiting for the mutex, and the time it read
    granted,  \* history: when this process allowed each user a credential
    forgets   \* history: how often it swept each user's bucket away

vars == <<clock, buckets, waiting, granted, forgets>>

Hour == PerHour * TokenTicks

\* A request that was overtaken finds the bucket as it is, so less than it was.
Bucket == [tokens : -MaxLag..Hour, last : Nat]

None == [user |-> "none", now |-> 0]

Lesser(a, b) == IF a < b THEN a ELSE b

----------------------------------------------------------------------------
(* limiter.allow, for a user u and the time t its request read.             *)

\* What u's bucket holds at t; a new one starts full.
Refill(u, t) ==
    IF u \in DOMAIN buckets
    THEN Lesser(Hour, buckets[u].tokens + (t - buckets[u].last))
    ELSE Hour

Enough_MoreThanOne(tokens) == tokens > TokenTicks

Enough_NotNegative(tokens) == tokens >= 0

Enough(tokens) == tokens >= TokenTicks

\* The wait of a refused request, to the nearest second (Duration.Round).
Wait(tokens) ==
    LET exact == TokenTicks - tokens
    IN  ((2 * exact + SecondTicks) \div (2 * SecondTicks)) * SecondTicks

Fresh_Swapped(bucket, t) == t - bucket.last > Hour

Fresh(bucket, t) == t - bucket.last <= Hour

\* limiter.sweep, over the buckets bs: the users it drops.
Swept(bs, t) ==
    IF Cardinality(DOMAIN bs) < SweepAt THEN {} ELSE {u \in DOMAIN bs : ~Fresh(bs[u], t)}

\* u's bucket is written, refused or not, and the idle ones are swept.
Touch(u, t, tokens) ==
    LET written == [v \in DOMAIN buckets \cup {u} |->
                       IF v = u THEN [tokens |-> tokens, last |-> t] ELSE buckets[v]]
        swept == Swept(written, t)
    IN  /\ buckets' = [v \in DOMAIN written \ swept |-> written[v]]
        /\ forgets' = [v \in Users |-> IF v \in swept THEN forgets[v] + 1 ELSE forgets[v]]

----------------------------------------------------------------------------
Init ==
    /\ clock = 0
    /\ buckets = [u \in {} |-> <<>>]
    /\ waiting = [r \in Requests |-> None]
    /\ granted = [u \in Users |-> <<>>]
    /\ forgets = [u \in Users |-> 0]

\* A request gets the mutex within MaxLag.
PassTime ==
    /\ clock < MaxTime
    /\ \A r \in Requests : waiting[r] # None => clock < waiting[r].now + MaxLag
    /\ clock' = clock + 1
    /\ UNCHANGED <<buckets, waiting, granted, forgets>>

\* rateLimited reads the clock.
Arrive(r, u) ==
    /\ waiting[r] = None
    /\ waiting' = [waiting EXCEPT ![r] = [user |-> u, now |-> clock]]
    /\ UNCHANGED <<clock, buckets, granted, forgets>>

Allow(r) ==
    LET u == waiting[r].user
        t == waiting[r].now
        tokens == Refill(u, t)
    IN  /\ waiting[r] # None
        /\ Enough(tokens)
        /\ Touch(u, t, tokens - TokenTicks)
        /\ granted' = [granted EXCEPT ![u] = Append(@, clock)]
        /\ waiting' = [waiting EXCEPT ![r] = None]
        /\ UNCHANGED clock

\* Mutant: what refilled since the last call is lost when the request is refused.
Refuse_LosesRefill(r) ==
    LET u == waiting[r].user
        t == waiting[r].now
    IN  /\ waiting[r] # None
        /\ ~Enough(Refill(u, t))
        /\ Touch(u, t, buckets[u].tokens)
        /\ waiting' = [waiting EXCEPT ![r] = None]
        /\ UNCHANGED <<clock, granted>>

\* The answer is 429, with Retry-After set to Wait(tokens).
Refuse(r) ==
    LET u == waiting[r].user
        t == waiting[r].now
        tokens == Refill(u, t)
    IN  /\ waiting[r] # None
        /\ ~Enough(tokens)
        /\ Touch(u, t, tokens)
        /\ waiting' = [waiting EXCEPT ![r] = None]
        /\ UNCHANGED <<clock, granted>>

\* The process dies and starts again.
Restart ==
    /\ buckets' = [u \in {} |-> <<>>]
    /\ waiting' = [r \in Requests |-> None]
    /\ granted' = [u \in Users |-> <<>>]
    /\ forgets' = [u \in Users |-> 0]
    /\ UNCHANGED clock

Next ==
    \/ PassTime
    \/ Restart
    \/ \E r \in Requests, u \in Users : Arrive(r, u)
    \/ \E r \in Requests : Allow(r) \/ Refuse(r)

Spec == Init /\ [][Next]_vars

----------------------------------------------------------------------------
(* Properties.                                                              *)

\* Every variable has its type; a bucket holds no more than an hour's refill.
TypeOK ==
    /\ clock \in Nat
    /\ DOMAIN buckets \subseteq Users
    /\ \A u \in DOMAIN buckets : buckets[u] \in Bucket
    /\ waiting \in [Requests -> [user : Users, now : Nat] \cup {None}]
    /\ granted \in [Users -> Seq(Nat)]
    /\ forgets \in [Users -> Nat]

\* What u was allowed since its i-th credential, in ticks of refill.
SpentSince(u, i) == (Len(granted[u]) - i + 1) * TokenTicks

\* limiter: while it lives, from any credential on, a user gets the capacity and what refills;
\* being forgotten in between gives nothing away ("a fresh one would start
\* identically"), but for what requests blur that were overtaken on the way to
\* the mutex.
BudgetHolds ==
    \A u \in Users : \A i \in DOMAIN granted[u] :
        SpentSince(u, i) <= Hour + (clock - granted[u][i]) + (2 * forgets[u] + 1) * MaxLag

\* limiter: nobody is refused who has budget left: since some credential, one
\* more would break the bound, but for that blur.
RefusedOnlyWhenSpent ==
    [][\A r \in Requests : Refuse(r) =>
           LET u == waiting[r].user
           IN  \E i \in DOMAIN granted[u] :
                   SpentSince(u, i) + TokenTicks
                       > Hour + (clock - granted[u][i]) - MaxLag]_vars

\* ratelimit_test.go: "with a Retry-After the client can act on": a request that
\* comes back after the wait it was told finds a token, had nobody come before.
WaitIsEnough ==
    [][\A r \in Requests : Refuse(r) =>
           LET tokens == Refill(waiting[r].user, waiting[r].now)
           IN  Enough(tokens + Wait(tokens))]_vars
=============================================================================
