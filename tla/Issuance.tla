------------------------------ MODULE Issuance ------------------------------
(***************************************************************************)
(* handleIssue and handleSSHIssue (internal/portal handlers.go, ssh.go)    *)
(* with pki.Issue and sshca.Issue, over the limiter and the store, in OIDC *)
(* mode: who gets a credential, for how long, and what the portal knows of *)
(* it.  Several requests run at once; any may fail, or lose its answer;    *)
(* and the process may die, with the limiter and the store in its memory.  *)
(*                                                                         *)
(* Time is in ticks, SecondTicks to the second.  Usernames are printable;  *)
(* each kind of credential has one profile, named for it.                  *)
(***************************************************************************)
EXTENDS Config

CONSTANTS
  Conf,             \* the configuration Gruff serves
  Users, Requests,
  Logins,           \* the logins under way at once
  Roles,            \* the roles that the provider gives
  CAEnd,            \* NotAfter of the CA that signs VPN certificates
  SecondTicks,      \* a second
  FlowLifetime,     \* oidcauth.flowLifetime: how long a login may take
  WriteTimeout,     \* http.Server.WriteTimeout: an answer is written by then
  TokenTicks, SweepAt, MaxLag,      \* the limiter's: see RateLimit
  DefaultMaxSessions,               \* the store's: see SessionStore
  MaxIssued, MaxTime,               \* bounds: a process's credentials, and the clock
  MaxForgotten                      \* bound: credentials that a restart leaves behind

ASSUME ConfIsServed == Valid(Conf) /\ Conf.auth.mode = "oidc"
ASSUME DurationsAreInt ==
  /\ Conf.auth.lifetime \in Int
  /\ \A ps \in {Conf.profiles, Conf.sshProfiles} :
       ps \in Seq(ToSet(ps)) /\ \A i \in DOMAIN ps : ps[i].duration \in Int
ASSUME BoundsAreInt ==
  Conf.maxTrackedSessions \in Int /\ DefaultMaxSessions \in Nat \ {0}
ASSUME NoRequestIsNoUser == "none" \notin Users
ASSUME TimesAreNat == /\ SecondTicks \in Nat \ {0}
                      /\ {FlowLifetime, WriteTimeout, CAEnd, MaxIssued, MaxTime, MaxForgotten} \subseteq Nat

VARIABLES
  clock,
  buckets, waiting, granted, forgets,   \* the limiter
  issued, held,                         \* the store
  roles,        \* what the provider says a user's roles are
  lost,         \* history: when a user last had each role, if not now
  login,        \* each login's claims, and when the provider fixed them
  session,      \* each user's session cookie
  request,      \* how far each request is, and with what
  delivered     \* history: the credentials that reached their users, each with
                \* its serial in the store of the process that issued it

limiterVars == <<buckets, waiting, granted, forgets>>
storeVars == <<issued, held>>
peopleVars == <<roles, lost, login, session>>
vars == <<clock, limiterVars, storeVars, peopleVars, request, delivered>>

\* config.IssueLimit.
IssueLimit(c) == IF c.issuesPerHour = {} THEN 20 ELSE CHOOSE n \in c.issuesPerHour : TRUE

\* A limit of 0 turns the limiter off, and is left out: see RateLimit.
ASSUME LimiterIsOn ==
  /\ {IssueLimit(Conf), TokenTicks} \subseteq Nat \ {0}
  /\ {SweepAt, MaxLag} \subseteq Nat

Limiter == INSTANCE RateLimit WITH PerHour <- IssueLimit(Conf)
Store == INSTANCE SessionStore WITH
  now <- clock, revoked <- {}, ordered <- {},
  Lifetimes <- Int, MaxTrackedSessions <- Conf.maxTrackedSessions

Kinds == {"vpn", "ssh"}
ProfileOf(kind) == Lookup(IF kind = "vpn" THEN Conf.profiles ELSE Conf.sshProfiles, kind)

NoLogin == [user |-> "none", roles |-> {}, at |-> 0]
NoSession == [roles |-> {}, expires |-> -1]
Free == [step |-> "free"]

\* No serial: the store that had this credential is gone.
Forgotten == 0

-----------------------------------------------------------------------------
(* The times of a certificate.                                             *)

\* Truncate(time.Second).
Truncate(t) == t - (t % SecondTicks)

Earlier(a, b) == IF a < b THEN a ELSE b

\* Mutant: a certificate may be signed for longer than its CA lasts.
BoundedExpiry_Unbounded(t, d) == Truncate(t) + d

\* boundedExpiry, for a certificate issued at t.
BoundedExpiry(t, d) == Earlier(Truncate(t) + d, Truncate(CAEnd))

\* Mutant: a lifetime is that of the VPN profile, whatever is issued.
Expiry_OneLifetime(kind, t) ==
  LET d == ProfileOf("vpn").duration IN
  IF kind = "vpn" THEN BoundedExpiry(t, d) ELSE Truncate(t) + d

\* What the portal says: NotAfter of the Credentials.
Expiry(kind, t) ==
  LET d == ProfileOf(kind).duration IN
  IF kind = "vpn" THEN BoundedExpiry(t, d) ELSE Truncate(t) + d

\* What the certificate says: a whole number of seconds.
Certificate(user, kind, t) ==
  [user |-> user, kind |-> kind,
   expires |-> Expiry(kind, t), ends |-> Truncate(Expiry(kind, t))]

\* The CA can sign at t.
CanSign(kind, t) ==
  IF kind = "vpn" THEN Truncate(t) < CAEnd ELSE LoadSSHCA(Conf) # "nil"

-----------------------------------------------------------------------------
Init ==
  /\ Limiter!Init
  /\ issued = <<>> /\ held = {}
  /\ roles = [u \in Users |-> Roles]
  /\ lost = [u \in Users |-> [x \in Roles |-> -1]]
  /\ login = [l \in Logins |-> NoLogin]
  /\ session = [u \in Users |-> NoSession]
  /\ request = [r \in Requests |-> Free]
  /\ delivered = {}

PassTime ==
  /\ Limiter!PassTime
  /\ UNCHANGED <<storeVars, peopleVars, request, delivered>>

\* The provider takes a role from a user.
Withdraw(u, x) ==
  /\ x \in roles[u]
  /\ roles' = [roles EXCEPT ![u] = @ \ {x}]
  /\ lost' = [lost EXCEPT ![u][x] = clock]
  /\ UNCHANGED <<clock, limiterVars, storeVars, login, session, request, delivered>>

\* The provider fixes the claims that a login will end with; one that was given up
\* makes room.
Authenticate(l, u) ==
  /\ login' = [login EXCEPT ![l] = [user |-> u, roles |-> roles[u], at |-> clock]]
  /\ UNCHANGED <<clock, limiterVars, storeVars, roles, lost, session, request, delivered>>

\* Complete: the flow was current when the callback came, and the code exchanged and
\* the token verified since. The cookie keeps the claims, and lasts from now.
SignIn(l) ==
  /\ login[l] # NoLogin
  /\ clock <= login[l].at + FlowLifetime + WriteTimeout
  /\ session' = [session EXCEPT ![login[l].user] =
       [roles |-> login[l].roles, expires |-> clock + SessionDuration(Conf.auth)]]
  /\ login' = [login EXCEPT ![l] = NoLogin]
  /\ UNCHANGED <<clock, limiterVars, storeVars, roles, lost, request, delivered>>

\* How long a session may have a role that the provider has taken.
SessionWindow == FlowLifetime + WriteTimeout + SessionDuration(Conf.auth)

\* identify: the session's roles and the local ones, while it lasts.
SignedIn(u) == clock <= session[u].expires

EffectiveRoles(u) == MergeRoles(session[u].roles, LocalRoles(Conf, u))

\* identify, authorize, and rateLimited up to the limiter's mutex.
Ask(r, u, kind) ==
  /\ request[r] = Free
  /\ SignedIn(u)
  /\ ProfileOf(kind) # NoProfile
  /\ AllowedFor(ProfileOf(kind), EffectiveRoles(u))
  /\ Limiter!Arrive(r, u)
  /\ request' = [request EXCEPT ![r] =
                  [step |-> "limit", user |-> u, kind |-> kind, begun |-> clock]]
  /\ UNCHANGED <<storeVars, peopleVars, delivered>>

Grant(r) ==
  /\ Limiter!Allow(r)
  /\ request' = [request EXCEPT ![r].step = "sign"]
  /\ UNCHANGED <<storeVars, peopleVars, delivered>>

\* Mutant: the handler goes on after the 429.
Refuse_Unreturned(r) ==
  /\ Limiter!Refuse(r)
  /\ request' = [request EXCEPT ![r].step = "sign"]
  /\ UNCHANGED <<storeVars, peopleVars, delivered>>

\* 429.
Refuse(r) ==
  /\ Limiter!Refuse(r)
  /\ request' = [request EXCEPT ![r] = Free]
  /\ UNCHANGED <<storeVars, peopleVars, delivered>>

\* ca.Issue.
Sign(r) ==
  LET q == request[r] IN
  /\ q.step = "sign"
  /\ CanSign(q.kind, clock)
  /\ request' = [request EXCEPT ![r] =
                  [step |-> "record", begun |-> q.begun,
                   cert |-> Certificate(q.user, q.kind, clock)]]
  /\ UNCHANGED <<clock, limiterVars, storeVars, peopleVars, delivered>>

\* Mutant: the token of an issuance that failed is given back.
FailSign_Refunded(r) ==
  LET u == request[r].user IN
  /\ request[r].step = "sign"
  /\ buckets' = [v \in DOMAIN buckets |->
       IF v = u THEN [buckets[v] EXCEPT !.tokens = @ + TokenTicks] ELSE buckets[v]]
  /\ request' = [request EXCEPT ![r] = Free]
  /\ UNCHANGED <<clock, waiting, granted, forgets, storeVars, peopleVars, delivered>>

\* An error of ca.Issue, or no SSH CA: 500, and the token is spent.
FailSign(r) ==
  /\ request[r].step = "sign"
  /\ request' = [request EXCEPT ![r] = Free]
  /\ UNCHANGED <<clock, limiterVars, storeVars, peopleVars, delivered>>

\* Mutant: what has ended already is not recorded.
Record_IfAlive(r) ==
  LET q == request[r] IN
  /\ q.step = "record"
  /\ IF q.cert.expires < clock THEN UNCHANGED storeVars
     ELSE Store!Add(q.cert.user, q.cert.kind, q.cert.expires - clock)
  /\ request' = [request EXCEPT ![r] =
                  [step |-> "answer", begun |-> q.begun,
                   cert |-> q.cert, serial |-> Len(issued) + 1]]
  /\ UNCHANGED <<clock, limiterVars, peopleVars, delivered>>

\* Mutant: what is recorded is a whole number of seconds of life.
Record_WholeSeconds(r) ==
  LET q == request[r] IN
  /\ q.step = "record"
  /\ Store!Add(q.cert.user, q.cert.kind, Truncate(q.cert.expires - clock))
  /\ request' = [request EXCEPT ![r] =
                  [step |-> "answer", begun |-> q.begun,
                   cert |-> q.cert, serial |-> Len(issued) + 1]]
  /\ UNCHANGED <<clock, limiterVars, peopleVars, delivered>>

\* sessions.Add.
Record(r) ==
  LET q == request[r] IN
  /\ q.step = "record"
  /\ Store!Add(q.cert.user, q.cert.kind, q.cert.expires - clock)
  /\ request' = [request EXCEPT ![r] =
                  [step |-> "answer", begun |-> q.begun,
                   cert |-> q.cert, serial |-> Len(issued) + 1]]
  /\ UNCHANGED <<clock, limiterVars, peopleVars, delivered>>

\* The template is executed to the connection, which takes it in time.
Answer(r) ==
  LET q == request[r] IN
  /\ q.step = "answer"
  /\ clock <= q.begun + WriteTimeout
  /\ delivered' = delivered \cup {[cert |-> q.cert, serial |-> q.serial]}
  /\ request' = [request EXCEPT ![r] = Free]
  /\ UNCHANGED <<clock, limiterVars, storeVars, peopleVars>>

\* The connection is gone, or past its deadline.
LoseAnswer(r) ==
  /\ request[r].step = "answer"
  /\ request' = [request EXCEPT ![r] = Free]
  /\ UNCHANGED <<clock, limiterVars, storeVars, peopleVars, delivered>>

Handle(r) ==
  \/ \E u \in Users, k \in Kinds : Ask(r, u, k)
  \/ Grant(r) \/ Refuse(r)
  \/ Sign(r) \/ FailSign(r) \/ Record(r)
  \/ Answer(r) \/ LoseAnswer(r)

\* The process dies, and starts again with the same configuration and an empty
\* store. Cookies, logins under way and credentials are in other hands.
Restart ==
  /\ Cardinality(delivered) <= MaxForgotten
  /\ Limiter!Restart
  /\ issued' = <<>> /\ held' = {}
  /\ request' = [r \in Requests |-> Free]
  /\ delivered' = {[d EXCEPT !.serial = Forgotten] : d \in delivered}
  /\ UNCHANGED peopleVars

Next ==
  \/ PassTime \/ Restart
  \/ \E u \in Users, x \in Roles : Withdraw(u, x)
  \/ \E l \in Logins : SignIn(l) \/ \E u \in Users : Authenticate(l, u)
  \/ \E r \in Requests : Handle(r)

Spec == Init /\ [][Next]_vars

-----------------------------------------------------------------------------
\* A request has what its step needs, and the store's serials are credentials'.
TypeOK ==
  /\ clock \in Nat
  /\ \A s \in held : s \in DOMAIN issued
  /\ \A u \in Users : roles[u] \subseteq Roles /\ session[u].roles \subseteq Roles
  /\ \A l \in Logins : login[l] # NoLogin =>
       login[l].user \in Users /\ login[l].roles \subseteq Roles
  /\ \A r \in Requests :
       /\ (request[r].step = "limit") = (waiting[r] # Limiter!None)
       /\ request[r].step = "limit" => waiting[r].user = request[r].user
       /\ request[r].step = "answer" => request[r].serial \in DOMAIN issued

\* A credential that its user holds can be found and revoked until its last
\* instant, unless the list is full of credentials that outlive it: it is
\* recorded before it is answered, and under no earlier expiry than its own. This
\* is the promise of one process: what an earlier one issued is in no list, as
\* the store is "gone with the process", and cannot be revoked at all.
DeliveredCanBeRevoked ==
  \A d \in delivered : d.serial # Forgotten /\ clock <= d.cert.ends =>
    \/ /\ d.serial \in Store!VisibleTo(d.cert.user, FALSE)
       /\ issued[d.serial].kind = d.cert.kind
    \/ Cardinality({s \in held : Store!Outlives(issued, s, d.serial)}) >= Store!MaxSessions

\* A certificate is never valid when the portal says it ended, which is less than
\* a second after it did, and a VPN certificate is not valid after its CA:
\* "Shortening it is honest - the portal shows the real expiry".
ExpiryIsHonest ==
  \A d \in delivered :
    /\ d.cert.ends <= d.cert.expires /\ d.cert.expires < d.cert.ends + SecondTicks
    /\ d.cert.kind = "vpn" => d.cert.ends <= CAEnd

\* What a user may still do with a role once it is withdrawn is bounded, through
\* restarts too: nobody holds a credential that ends later than the rest of a login
\* under way, a session, the answer and the credential's own lifetime after all the
\* roles that grant it were gone.
CredentialsEndWithRoles ==
  \A d \in delivered :
    LET u == d.cert.user
        profile == ProfileOf(d.cert.kind)
    IN \/ AllowedFor(profile, MergeRoles(roles[u], LocalRoles(Conf, u)))
       \/ \E x \in profile.roles \cap Roles :
            d.cert.expires <= lost[u][x] + SessionWindow + WriteTimeout + profile.duration

\* Every credential a process signs, of either kind, is paid for with a token of its
\* user, and none is paid for twice over by requests that run at once or fail.
InFlight(u) ==
  {r \in Requests : CASE request[r].step = "sign" -> request[r].user = u
                     [] request[r].step = "record" -> request[r].cert.user = u
                     [] OTHER -> FALSE}
MadeFor(u) ==
  Cardinality({i \in DOMAIN issued : issued[i].user = u}) + Cardinality(InFlight(u))
CredentialsArePaidFor == \A u \in Users : MadeFor(u) <= Len(granted[u])

\* limiter "bounds a runaway or compromised client": from a user's first grant by a
\* process on, its credentials of both kinds, however made, come to no more than the hourly
\* limit and what refills, whatever fails, overtakes or is swept on the way.
IssuedWithinBudget ==
  \A u \in Users : granted[u] # <<>> =>
    MadeFor(u) * TokenTicks
      <= Limiter!Hour + (clock - granted[u][1]) + (2 * forgets[u] + 1) * MaxLag

\* Both handlers use the limiter as module RateLimit has it, so that what is shown
\* there of the limiter is true of it here.
UsesTheLimiter == Limiter!Spec
=============================================================================
