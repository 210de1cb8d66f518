------------------------------ MODULE RetryAfter ------------------------------
(* What a 429 promises (rateLimited in internal/portal/handlers.go): a user *)
(* who was refused is told when to come back. Meanwhile other requests of   *)
(* the user may be refused, some of them overtaken, buckets swept, and the  *)
(* process may die, of which a user who was told knows nothing.             *)
EXTENDS RateLimit

VARIABLE told  \* when each user was told to come back, since it was last granted one

retryVars == <<vars, told>>

RetryInit == Init /\ told = [u \in Users |-> {}]

Quiet == PassTime \/ Restart \/ \E r \in Requests, u \in Users : Arrive(r, u)

\* What was told before a credential is off: another request got it.
Grant(r) ==
    /\ Allow(r)
    /\ told' = [told EXCEPT ![waiting[r].user] = {}]

\* rateLimited: the header is the wait in seconds, from the time the request read.
TooMany(r) ==
    LET u == waiting[r].user
        t == waiting[r].now
    IN  /\ Refuse(r)
        /\ told' = [told EXCEPT ![u] = @ \cup {t + Wait(Refill(u, t))}]

RetryNext ==
    \/ Quiet /\ UNCHANGED told
    \/ \E r \in Requests : Grant(r) \/ TooMany(r)

RetrySpec == RetryInit /\ [][RetryNext]_retryVars

----------------------------------------------------------------------------
\* ratelimit_test.go asks for "a Retry-After the client can act on". The wait is
\* rounded (WaitIsEnough), but no worse: a user who comes back half a second later
\* than it was told is not refused, however many requests of that user were
\* refused or overtaken in between, unless one of them was granted.
PromiseIsKept ==
    [][\A r \in Requests : TooMany(r) =>
           \A t \in told[waiting[r].user] : 2 * (waiting[r].now - t) < SecondTicks]_retryVars
=============================================================================
